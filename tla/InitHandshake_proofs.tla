------------------------ MODULE InitHandshake_proofs ------------------------
(***************************************************************************)
(* Proofs about the rendezvous, for every set of endpoints, both modes and *)
(* any number of retries and crashes.                                      *)
(***************************************************************************)
EXTENDS InitHandshake, FiniteSetTheorems, TLAPS

Accepted == {e \in EPs : devId[e] # 0}

LEMMA EpsAreNumbers == InitAssumption => \A e \in EPs : e \in Nat /\ e # 0 /\ e # EP_ID_ALL
BY DEF InitAssumption, EP_ID_ALL

LEMMA OneFirst ==
  ASSUME InitAssumption, TypeOK, NEW e \in First(todo)
  PROVE  e \in EPs /\ e \in todo /\ First(todo) = {e}
<1>1. todo \subseteq EPs /\ e \in todo /\ \A x \in todo : e <= x
  BY DEF First, TypeOK
<1>2. \A x \in todo : x \in Nat
  BY <1>1, EpsAreNumbers
<1>3. ASSUME NEW x \in First(todo) PROVE x = e
  BY <1>1, <1>2 DEF First
<1> QED
  BY <1>1, <1>3

\* The counter stays within its type because it counts a subset of EPs.
LEMMA CountBound ==
  ASSUME InitAssumption, initedEps = Cardinality(Accepted)
  PROVE  /\ initedEps \in 0 .. Cardinality(EPs)
         /\ initedEps = Cardinality(EPs) => Accepted = EPs
<1>1. Accepted \subseteq EPs /\ IsFiniteSet(EPs)
  BY DEF Accepted, InitAssumption
<1>2. /\ IsFiniteSet(Accepted)
      /\ Cardinality(Accepted) <= Cardinality(EPs)
      /\ Cardinality(EPs) = Cardinality(Accepted) => EPs = Accepted
  BY <1>1, FS_Subset
<1>3. Cardinality(Accepted) \in Nat /\ Cardinality(EPs) \in Nat
  BY <1>1, <1>2, FS_CardinalityType
<1> QED
  BY <1>2, <1>3

-----------------------------------------------------------------------------
(* The RC.                                                                 *)

LEMMA RcStartInv == ASSUME InitAssumption, InitInv, RcStart PROVE InitInv'
<1> USE InitAssumption, EpsAreNumbers DEF InitInv, RcStart, mgmtVars, epVars
<1>1. {e \in EPs : devId'[e] # 0} = {} /\ initedEps' = 0
  OBVIOUS
<1>2. CountInv'
  BY <1>1, FS_EmptySet DEF CountInv
<1>3. Cardinality(EPs) \in Nat
  BY FS_CardinalityType DEF InitAssumption
<1>4. TypeOK'
  BY <1>3 DEF TypeOK, Ids, InitAssumption
<1>5. RightId' /\ AcceptedIsReady' /\ WindowInv' /\ IdInv'
  BY DEF RightId, AcceptedIsReady, WindowInv, IdInv, Asked
<1> QED
  BY <1>2, <1>4, <1>5

LEMMA RcClearInv == ASSUME InitAssumption, InitInv, NEW e \in EPs, RcClear(e) PROVE InitInv'
<1> USE InitAssumption DEF InitInv, RcClear, Here, GoOn, epVars
<1>1. TypeOK'
  BY DEF TypeOK, Ids
<1>2. CountInv' /\ RightId' /\ AcceptedIsReady'
  BY DEF CountInv, RightId, AcceptedIsReady
<1>3. WindowInv'
  BY DEF WindowInv, TypeOK
<1>4. IdInv'
  BY DEF IdInv, Asked, TypeOK
<1> QED
  BY <1>1, <1>2, <1>3, <1>4

LEMMA BroadcastIdInv ==
  ASSUME InitAssumption, InitInv, NEW e \in EPs, BroadcastId(e) PROVE InitInv'
<1> USE InitAssumption DEF InitInv, BroadcastId, Here, GoOn, epVars
<1>1. TypeOK'
  BY DEF TypeOK, Ids
<1>2. CountInv' /\ RightId' /\ AcceptedIsReady' /\ WindowInv'
  BY DEF CountInv, RightId, AcceptedIsReady, WindowInv
<1>3. First(todo) = {e} /\ rpc = "id"
  BY OneFirst
<1>4. IdInv'
  <2>1. CASE devId[e] = 0
    <3>1. First(todo') = {e} /\ rpc' = "base" /\ epId' = [epId EXCEPT ![e] = EP_ID_ALL]
      BY <1>3, <2>1
    <3> QED
      BY <1>3, <3>1 DEF IdInv, Asked, TypeOK, EP_ID_ALL
  <2>2. CASE devId[e] # 0
    BY <1>3, <2>2 DEF IdInv, Asked, TypeOK
  <2> QED
    BY <2>1, <2>2
<1> QED
  BY <1>1, <1>2, <1>4

LEMMA BroadcastBaseInv ==
  ASSUME InitAssumption, InitInv, NEW e \in EPs, BroadcastBase(e) PROVE InitInv'
<1> USE InitAssumption DEF InitInv, BroadcastBase, Here, GoOn, epVars
<1>1. TypeOK'
  BY DEF TypeOK
<1>2. CountInv' /\ RightId' /\ AcceptedIsReady' /\ WindowInv'
  BY DEF CountInv, RightId, AcceptedIsReady, WindowInv
<1>3. First(todo) = {e} /\ rpc = "base"
  BY OneFirst
<1>4. IdInv'
  BY <1>3 DEF IdInv, Asked, TypeOK
<1> QED
  BY <1>1, <1>2, <1>4

LEMMA PollIdInv == ASSUME InitAssumption, InitInv, NEW e \in EPs, PollId(e) PROVE InitInv'
<1> USE InitAssumption DEF InitInv, PollId, Here, mgmtVars, epVars
<1>1. TypeOK'
  BY DEF TypeOK, Ids
<1>2. CountInv' /\ RightId' /\ AcceptedIsReady' /\ WindowInv'
  BY DEF CountInv, RightId, AcceptedIsReady, WindowInv
<1>3. First(todo) = {e} /\ rpc = "poll" /\ First(todo') = First(todo)
  BY OneFirst
<1>4. IdInv'
  BY <1>3 DEF IdInv, Asked, TypeOK
<1> QED
  BY <1>1, <1>2, <1>4

\* An answer that is accepted is the endpoint's own.
LEMMA AcceptInv ==
  ASSUME InitAssumption, InitInv, NEW e \in EPs, PollInitted(e),
         initted[e], devId[e] = 0, seenId # EP_ID_ALL
  PROVE  InitInv'
<1> USE InitAssumption DEF InitInv, Here, GoOn, epVars
<1>1. First(todo) = {e} /\ rpc = "look" /\ rpc' \in {"poll", "round"}
  BY OneFirst DEF PollInitted
<1>2. seenId = e /\ e # 0 /\ e \in Nat
  BY <1>1, EpsAreNumbers DEF IdInv
<1>3. /\ devId' = [devId EXCEPT ![e] = e]
      /\ initedEps' = initedEps + 1
      /\ epId' = [epId EXCEPT ![e] = 0]
      /\ outbase' = [outbase EXCEPT ![e] = FALSE]
      /\ initted' = [initted EXCEPT ![e] = FALSE]
      /\ UNCHANGED <<mode, seenId, retries, epc, window, crashes>>
  BY <1>2 DEF PollInitted
<1>4. todo' \subseteq EPs
  BY DEF PollInitted, TypeOK
<1>5. Accepted' = Accepted \cup {e} /\ e \notin Accepted /\ IsFiniteSet(Accepted)
  <2>1. Accepted \in SUBSET EPs /\ IsFiniteSet(EPs)
    BY DEF Accepted, InitAssumption
  <2>2. IsFiniteSet(Accepted)
    BY <2>1, FS_Subset
  <2> QED
    BY <1>2, <1>3, <2>2 DEF Accepted, TypeOK
<1>6. initedEps' = Cardinality(Accepted')
  <2>1. Cardinality(Accepted \cup {e}) = Cardinality(Accepted) + 1
    BY <1>5, FS_AddElement
  <2>2. initedEps = Cardinality(Accepted)
    BY DEF CountInv, Accepted
  <2> QED
    BY <1>3, <1>5, <2>1, <2>2
<1>7. initedEps' \in 0 .. Cardinality(EPs)
  <2>1. Accepted' \in SUBSET EPs /\ IsFiniteSet(EPs)
    BY DEF Accepted, InitAssumption
  <2>2. IsFiniteSet(Accepted') /\ Cardinality(Accepted') <= Cardinality(EPs)
    BY <2>1, FS_Subset
  <2>3. Cardinality(Accepted') \in Nat /\ Cardinality(EPs) \in Nat
    BY <2>1, <2>2, FS_CardinalityType
  <2> QED
    BY <1>6, <2>2, <2>3
<1>8. TypeOK'
  BY <1>1, <1>2, <1>3, <1>4, <1>7 DEF TypeOK, Ids
<1>9. CountInv'
  BY <1>1, <1>6 DEF CountInv, Accepted
<1>10. RightId' /\ AcceptedIsReady' /\ WindowInv'
  BY <1>3 DEF RightId, AcceptedIsReady, WindowInv, TypeOK
<1>11. IdInv'
  BY <1>1, <1>2, <1>3 DEF IdInv, Asked, TypeOK
<1> QED
  BY <1>8, <1>9, <1>10, <1>11

LEMMA PollInittedInv ==
  ASSUME InitAssumption, InitInv, NEW e \in EPs, PollInitted(e) PROVE InitInv'
<1>1. CASE initted[e] /\ devId[e] = 0 /\ seenId # EP_ID_ALL
  BY <1>1, AcceptInv
<1>2. CASE ~(initted[e] /\ devId[e] = 0 /\ seenId # EP_ID_ALL)
  <2>1. /\ UNCHANGED <<devId, initedEps, epId, outbase, initted>>
        /\ UNCHANGED <<mode, seenId, retries, epc, window, crashes>>
        /\ rpc = "look" /\ rpc' \in {"poll", "round"} /\ todo' \subseteq todo
    BY <1>2 DEF PollInitted, Here, GoOn, mgmtVars, epVars
  <2>2. TypeOK'
    BY <2>1 DEF InitInv, TypeOK
  <2>3. RightId' /\ AcceptedIsReady' /\ WindowInv' /\ IdInv' /\ CountInv'
    BY <2>1 DEF InitInv, RightId, AcceptedIsReady, WindowInv, IdInv, Asked, CountInv
  <2> QED
    BY <2>2, <2>3 DEF InitInv
<1> QED
  BY <1>1, <1>2

LEMMA RoundInv ==
  ASSUME InitAssumption, InitInv, RcDone \/ RcPollAgain \/ RcRebroadcast \/ RcGiveUp
  PROVE  InitInv'
<1> USE InitAssumption DEF InitInv, mgmtVars, epVars, RcDone, RcPollAgain, RcRebroadcast, RcGiveUp
<1>1. TypeOK'
  <2>1. retries' \in 0 .. MaxRetries
    BY DEF TypeOK, InitAssumption
  <2> QED
    BY <2>1 DEF TypeOK
<1>2. RightId' /\ AcceptedIsReady' /\ WindowInv'
  BY DEF RightId, AcceptedIsReady, WindowInv
<1>3. IdInv'
  BY DEF IdInv, Asked
<1>4. CountInv'
  BY DEF CountInv, Enough
<1> QED
  BY <1>1, <1>2, <1>3, <1>4

LEMMA RcKillInv == ASSUME InitAssumption, InitInv, RcKill PROVE InitInv'
<1> USE InitAssumption DEF InitInv, RcKill, mgmtVars, epVars
<1>1. {e \in EPs : devId'[e] # 0} = {} /\ initedEps' = 0
  OBVIOUS
<1>2. CountInv'
  BY <1>1, FS_EmptySet DEF CountInv
<1>3. Cardinality(EPs) \in Nat
  BY FS_CardinalityType DEF InitAssumption
<1>4. TypeOK'
  BY <1>3 DEF TypeOK, Ids, InitAssumption
<1>5. RightId' /\ AcceptedIsReady' /\ WindowInv' /\ IdInv'
  BY DEF RightId, AcceptedIsReady, WindowInv, IdInv, Asked
<1> QED
  BY <1>2, <1>4, <1>5

-----------------------------------------------------------------------------
(* An endpoint.  It touches neither the RC's variables nor, except with its *)
(* own number, ep_id.                                                      *)

LEMMA EndpointInv ==
  ASSUME InitAssumption, InitInv, NEW e \in EPs, EpStart(e) \/ EpStep(e) \/ EpKill(e)
  PROVE  InitInv'
<1> USE InitAssumption DEF InitInv, rcVars, mgmtVars, Goto
<1>1. TypeOK'
  <2>1. crashes' \in 0 .. MaxCrashes
    BY DEF TypeOK, InitAssumption, EpStart, EpStep, EpKill, EpSee, EpSetup, EpReply, EpMark, EpClean
  <2>2. /\ epId' \in [EPs -> Ids]
        /\ outbase' \in [EPs -> BOOLEAN] /\ initted' \in [EPs -> BOOLEAN]
    <3>1. e \in Ids
      BY DEF Ids
    <3>2. epId' = epId \/ epId' = [epId EXCEPT ![e] = e]
      BY DEF EpStart, EpStep, EpKill, EpSee, EpSetup, EpReply, EpMark, EpClean
    <3>3. outbase' = outbase \/ outbase' = [outbase EXCEPT ![e] = FALSE]
      BY DEF EpStart, EpStep, EpKill, EpSee, EpSetup, EpReply, EpMark, EpClean
    <3>4. initted' = initted \/ initted' = [initted EXCEPT ![e] = TRUE]
      BY DEF EpStart, EpStep, EpKill, EpSee, EpSetup, EpReply, EpMark, EpClean
    <3>5. epId \in [EPs -> Ids] /\ outbase \in [EPs -> BOOLEAN] /\ initted \in [EPs -> BOOLEAN]
      BY DEF TypeOK
    <3>6. epId' \in [EPs -> Ids]
      BY <3>1, <3>2, <3>5
    <3>7. outbase' \in [EPs -> BOOLEAN]
      BY <3>3, <3>5
    <3>8. initted' \in [EPs -> BOOLEAN]
      BY <3>4, <3>5
    <3> QED
      BY <3>6, <3>7, <3>8
  <2>3. /\ epc' \in [EPs -> {"off", "wait", "setup", "reply", "mark", "clean", "up"}]
        /\ window' \in [EPs -> BOOLEAN]
    BY DEF TypeOK, EpStart, EpStep, EpKill, EpSee, EpSetup, EpReply, EpMark, EpClean
  <2>4. UNCHANGED <<mode, rpc, todo, seenId, devId, initedEps, retries>>
    BY DEF EpStart, EpStep, EpKill, EpSee, EpSetup, EpReply, EpMark, EpClean
  <2> QED
    BY <2>1, <2>2, <2>3, <2>4 DEF TypeOK
<1>2. UNCHANGED rcVars
  BY DEF EpStart, EpStep, EpKill, EpSee, EpSetup, EpReply, EpMark, EpClean
<1>3. \A x \in EPs : epId'[x] = epId[x] \/ epId'[x] = x
  BY DEF TypeOK, EpStart, EpStep, EpKill, EpSee, EpSetup, EpReply, EpMark, EpClean
<1>4. \A x \in EPs : window[x] => window'[x]
  BY DEF TypeOK, EpStart, EpStep, EpKill, EpSee, EpSetup, EpReply, EpMark, EpClean
<1>5. RightId' /\ AcceptedIsReady' /\ CountInv'
  BY <1>2, <1>4 DEF RightId, AcceptedIsReady, CountInv
<1>6. IdInv'
  BY <1>2, <1>3, EpsAreNumbers DEF IdInv, Asked, First
<1>7. WindowInv'
  BY DEF WindowInv, TypeOK, EpStart, EpStep, EpKill, EpSee, EpSetup, EpReply, EpMark, EpClean
<1> QED
  BY <1>1, <1>5, <1>6, <1>7

-----------------------------------------------------------------------------
LEMMA InitInvariant == Spec => []InitInv
<1>1. Init => InitInv
  <2> SUFFICES ASSUME Init PROVE InitInv
    OBVIOUS
  <2> USE InitAssumption DEF Init
  <2>1. {e \in EPs : devId[e] # 0} = {} /\ initedEps = 0
    OBVIOUS
  <2>2. Cardinality(EPs) \in Nat
    BY FS_CardinalityType DEF InitAssumption
  <2>3. TypeOK
    BY <2>2 DEF TypeOK, Ids, InitAssumption
  <2>4. CountInv
    BY <2>1, FS_EmptySet DEF CountInv
  <2> QED
    BY <2>3, <2>4 DEF InitInv, RightId, AcceptedIsReady, WindowInv, IdInv, Asked
<1>2. InitInv /\ [Next]_vars => InitInv'
  <2> SUFFICES ASSUME InitInv, [Next]_vars PROVE InitInv'
    OBVIOUS
  <2>1. CASE Next
    BY <2>1, InitAssumption, RcStartInv, RcClearInv, BroadcastIdInv, BroadcastBaseInv, PollIdInv,
       PollInittedInv, RoundInv, RcKillInv, EndpointInv DEF Next, RcLoop
  <2>2. CASE UNCHANGED vars
    BY <2>2 DEF vars, rcVars, mgmtVars, epVars, InitInv, TypeOK, RightId, AcceptedIsReady,
                WindowInv, IdInv, Asked, CountInv
  <2> QED
    BY <2>1, <2>2
<1> QED
  BY <1>1, <1>2, PTL DEF Spec

\* Every variable of the rendezvous stays within its type; the retries and the
\* counter of answers keep their bounds.
THEOREM InitType == Spec => []TypeOK
<1>1. InitInv => TypeOK
  BY DEF InitInv
<1> QED
  BY <1>1, InitInvariant, PTL

\* The RC never records a wrong number for an endpoint, although it copies the
\* management area word by word while the endpoint and it write to it.
THEOREM InitRightId == Spec => []RightId
<1>1. InitInv => RightId
  BY DEF InitInv
<1> QED
  BY <1>1, InitInvariant, PTL

\* The RC never accepts an endpoint that cannot reach the RC's memory, whatever
\* was killed and started again on either side.
THEOREM InitAcceptedIsReady == Spec => []AcceptedIsReady
<1>1. InitInv => AcceptedIsReady
  BY DEF InitInv
<1> QED
  BY <1>1, InitInvariant, PTL

\* A pcieRc_init that is to wait for all endpoints returns with all of them.
THEOREM InitDoneMeansAll == Spec => []DoneMeansAll
<1>1. InitInv => DoneMeansAll
  <2> SUFFICES ASSUME InitInv PROVE DoneMeansAll
    OBVIOUS
  <2>1. initedEps = Cardinality(Accepted)
    BY DEF InitInv, CountInv, Accepted
  <2> QED
    BY <2>1, InitAssumption, CountBound DEF InitInv, CountInv, DoneMeansAll, Accepted
<1> QED
  BY <1>1, InitInvariant, PTL
=============================================================================
