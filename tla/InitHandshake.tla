---------------------------- MODULE InitHandshake ---------------------------
(***************************************************************************)
(* How the root complex and its endpoints find each other, in the first    *)
(* version of the library (pcie/pcie/src_v0): pcieRc_init on the RC and    *)
(* pcie_slave_getInfo on each endpoint.                                    *)
(*                                                                         *)
(* They meet in the management area of each endpoint, memory of the        *)
(* endpoint that the RC reaches through BAR 2.  The RC clears it, writes   *)
(* ep_id = EP_ID_ALL and the address of its own memory (ep_outbase), and   *)
(* polls for ep_initted.  An endpoint polls for the address, opens its     *)
(* outbound window on it and answers: its own ep_id, ep_initted, and an    *)
(* ep_outbase of 0.  Nothing locks the area; after three seconds without   *)
(* all the answers the RC writes its part again for whoever is missing.    *)
(*                                                                         *)
(* The fields wr_index and rd_index, which nobody reads here, are left     *)
(* out.  Clearing the area, on the RC, is one step.                        *)
(***************************************************************************)
EXTENDS Naturals, FiniteSets

CONSTANTS EPs,         \* the endpoints, by their DEV_ID
          Modes,       \* modes of pcieRc_init: "all", "some" or both
          MaxRetries,  \* rebroadcasts (1000 in the code)
          MaxCrashes   \* bound: applications killed and started again

EP_ID_ALL == 255

ASSUME InitAssumption ==
  /\ EPs \subseteq 1 .. (EP_ID_ALL - 1) /\ EPs # {} /\ IsFiniteSet(EPs)
  /\ Modes \subseteq {"all", "some"} /\ Modes # {}
  /\ MaxRetries \in Nat /\ MaxCrashes \in Nat

VARIABLES
  mode,                   \* the argument of pcieRc_init
  rpc, todo,              \* the RC: its place, endpoints left in the loop
  seenId,                 \* ep_id in the copy of the area just made
  devId, initedEps,       \* gPciedev_info[].dev_id, the counter of answers
  retries,                \* init_retry
  epId, outbase, initted, \* the management area of each endpoint
  epc,                    \* the endpoint: its place
  window,                 \* its outbound window is open on the RC's memory
  crashes

rcVars == <<mode, rpc, todo, seenId, devId, initedEps, retries>>
mgmtVars == <<epId, outbase, initted>>
epVars == <<epc, window>>
vars == <<rcVars, mgmtVars, epVars, crashes>>

\* The memory of an endpoint that was just switched on is taken to be zero.
Init ==
  /\ mode \in Modes
  /\ rpc = "off" /\ todo = {} /\ seenId = 0 /\ initedEps = 0 /\ retries = 0
  /\ devId = [e \in EPs |-> 0]
  /\ epId = [e \in EPs |-> 0]
  /\ outbase = [e \in EPs |-> FALSE]
  /\ initted = [e \in EPs |-> FALSE]
  /\ epc = [e \in EPs |-> "off"]
  /\ window = [e \in EPs |-> FALSE]
  /\ crashes = 0

-----------------------------------------------------------------------------
(* The RC: pcieRc_init.                                                    *)

First(S) == {e \in S : \A x \in S : e <= x}

\* The endpoint the loop is at.
Here(place) == {e \in First(todo) : rpc = place}

\* One round of a loop ends with its last endpoint.
GoOn(e, same, next, set) ==
  IF todo = {e} THEN rpc' = next /\ todo' = set
  ELSE rpc' = same /\ todo' = todo \ {e}

RcStart ==
  /\ rpc = "off"
  /\ rpc' = "clear" /\ todo' = EPs
  /\ devId' = [e \in EPs |-> 0] /\ initedEps' = 0 /\ retries' = 0
  /\ UNCHANGED <<mode, seenId, mgmtVars, epVars, crashes>>

\* get_pcie_subsys_info maps and clears the areas.
RcClear(e) ==
  /\ e \in Here("clear")
  /\ epId' = [epId EXCEPT ![e] = 0]
  /\ outbase' = [outbase EXCEPT ![e] = FALSE]
  /\ initted' = [initted EXCEPT ![e] = FALSE]
  /\ GoOn(e, "clear", "id", EPs)
  /\ UNCHANGED <<mode, seenId, devId, initedEps, retries, epVars, crashes>>

\* The broadcast, for endpoints without a dev_id: ep_id first, ...
BroadcastId(e) ==
  /\ e \in Here("id")
  /\ IF devId[e] = 0
     THEN epId' = [epId EXCEPT ![e] = EP_ID_ALL] /\ rpc' = "base" /\ UNCHANGED todo
     ELSE GoOn(e, "id", "poll", EPs) /\ UNCHANGED epId
  /\ UNCHANGED <<mode, seenId, devId, initedEps, retries, outbase, initted, epVars, crashes>>

\* ... then ep_outbase.
BroadcastBase(e) ==
  /\ e \in Here("base")
  /\ outbase' = [outbase EXCEPT ![e] = TRUE]
  /\ GoOn(e, "id", "poll", EPs)
  /\ UNCHANGED <<mode, seenId, devId, initedEps, retries, epId, initted, epVars, crashes>>

\* The copy of the area is made from low addresses to high: ep_id, ...
PollId(e) ==
  /\ e \in Here("poll")
  /\ seenId' = epId[e]
  /\ rpc' = "look"
  /\ UNCHANGED <<mode, todo, devId, initedEps, retries, mgmtVars, epVars, crashes>>

\* Mutant: an answer counts whatever its ep_id is.
PollInittedAnyId(e) ==
  /\ e \in Here("look")
  /\ IF initted[e] /\ devId[e] = 0
     THEN /\ devId' = [devId EXCEPT ![e] = seenId]
          /\ initedEps' = initedEps + 1
          /\ epId' = [epId EXCEPT ![e] = 0]
          /\ outbase' = [outbase EXCEPT ![e] = FALSE]
          /\ initted' = [initted EXCEPT ![e] = FALSE]
     ELSE UNCHANGED <<devId, initedEps, mgmtVars>>
  /\ GoOn(e, "poll", "round", {})
  /\ UNCHANGED <<mode, seenId, retries, epVars, crashes>>

\* ... then ep_initted; an endpoint that has answered is recorded and its area
\* cleared.
PollInitted(e) ==
  /\ e \in Here("look")
  /\ IF initted[e] /\ devId[e] = 0 /\ seenId # EP_ID_ALL
     THEN /\ devId' = [devId EXCEPT ![e] = seenId]
          /\ initedEps' = initedEps + 1
          /\ epId' = [epId EXCEPT ![e] = 0]
          /\ outbase' = [outbase EXCEPT ![e] = FALSE]
          /\ initted' = [initted EXCEPT ![e] = FALSE]
     ELSE UNCHANGED <<devId, initedEps, mgmtVars>>
  /\ GoOn(e, "poll", "round", {})
  /\ UNCHANGED <<mode, seenId, retries, epVars, crashes>>

Enough == initedEps = Cardinality(EPs) \/ (mode # "all" /\ initedEps > 0)

\* Mutant: one answer is always enough.
RcDoneAny ==
  /\ rpc = "round" /\ initedEps > 0
  /\ rpc' = "done"
  /\ UNCHANGED <<mode, todo, seenId, devId, initedEps, retries, mgmtVars, epVars, crashes>>

RcDone ==
  /\ rpc = "round" /\ Enough
  /\ rpc' = "done"
  /\ UNCHANGED <<mode, todo, seenId, devId, initedEps, retries, mgmtVars, epVars, crashes>>

RcPollAgain ==
  /\ rpc = "round" /\ ~Enough
  /\ rpc' = "poll" /\ todo' = EPs
  /\ UNCHANGED <<mode, seenId, devId, initedEps, retries, mgmtVars, epVars, crashes>>

\* Three seconds are over: the broadcast is repeated.
RcRebroadcast ==
  /\ rpc = "round" /\ ~Enough
  /\ retries < MaxRetries
  /\ retries' = retries + 1
  /\ rpc' = "id" /\ todo' = EPs
  /\ UNCHANGED <<mode, seenId, devId, initedEps, mgmtVars, epVars, crashes>>

\* The init fails after the last retry: fifty minutes, in which the only ones not
\* to answer are endpoints that are not there and those whose answer is gone.
RcGiveUp ==
  /\ rpc = "round" /\ ~Enough
  /\ retries = MaxRetries
  /\ \E e \in EPs : /\ devId[e] = 0
                   /\ epc[e] \in {"off", "up"} /\ ~(initted[e] /\ epId[e] = e)
  /\ rpc' = "failed"
  /\ UNCHANGED <<mode, todo, seenId, devId, initedEps, retries, mgmtVars, epVars, crashes>>

-----------------------------------------------------------------------------
(* An endpoint: pcie_slave_getInfo.                                        *)

Goto(e, place) == epc' = [epc EXCEPT ![e] = place]

\* Mutant: the endpoint clears the area when it starts.
EpStartClears(e) ==
  /\ epc[e] = "off"
  /\ Goto(e, "wait")
  /\ outbase' = [outbase EXCEPT ![e] = FALSE]
  /\ UNCHANGED <<rcVars, epId, initted, window, crashes>>

EpStart(e) ==
  /\ epc[e] = "off"
  /\ Goto(e, "wait")
  /\ UNCHANGED <<rcVars, mgmtVars, window, crashes>>

\* The address is there, in an area meant for this endpoint or for all.
EpSee(e) ==
  /\ epc[e] = "wait"
  /\ epId[e] \in {e, EP_ID_ALL} /\ outbase[e]
  /\ Goto(e, "setup")
  /\ UNCHANGED <<rcVars, mgmtVars, window, crashes>>

\* Mutant: the endpoint answers first and opens its window afterwards.
EpSetupLater(e) ==
  /\ epc[e] = "setup"
  /\ Goto(e, "reply")
  /\ UNCHANGED <<rcVars, mgmtVars, window, crashes>>

\* Outbound region, translation and bus mastering.
EpSetup(e) ==
  /\ epc[e] = "setup"
  /\ window' = [window EXCEPT ![e] = TRUE]
  /\ Goto(e, "reply")
  /\ UNCHANGED <<rcVars, mgmtVars, crashes>>

\* The answer: ep_id, ep_initted, ep_outbase.
EpReply(e) ==
  /\ epc[e] = "reply"
  /\ epId' = [epId EXCEPT ![e] = e]
  /\ Goto(e, "mark")
  /\ UNCHANGED <<rcVars, outbase, initted, window, crashes>>

EpMark(e) ==
  /\ epc[e] = "mark"
  /\ initted' = [initted EXCEPT ![e] = TRUE]
  /\ Goto(e, "clean")
  /\ UNCHANGED <<rcVars, epId, outbase, window, crashes>>

EpClean(e) ==
  /\ epc[e] = "clean"
  /\ outbase' = [outbase EXCEPT ![e] = FALSE]
  /\ Goto(e, "up")
  /\ UNCHANGED <<rcVars, epId, initted, window, crashes>>

-----------------------------------------------------------------------------
(* An application is killed; memory and window stay as they are.           *)

RcKill ==
  /\ crashes < MaxCrashes /\ crashes' = crashes + 1
  /\ rpc # "off" /\ rpc' = "off" /\ todo' = {}
  /\ devId' = [e \in EPs |-> 0] /\ initedEps' = 0
  /\ UNCHANGED <<mode, seenId, retries, mgmtVars, epVars>>

EpKill(e) ==
  /\ crashes < MaxCrashes /\ crashes' = crashes + 1
  /\ epc[e] # "off" /\ Goto(e, "off")
  /\ UNCHANGED <<rcVars, mgmtVars, window>>

-----------------------------------------------------------------------------
RcLoop == \/ \E e \in EPs : \/ RcClear(e) \/ BroadcastId(e) \/ BroadcastBase(e)
                            \/ PollId(e) \/ PollInitted(e)
          \/ RcDone \/ RcPollAgain

EpStep(e) == EpSee(e) \/ EpSetup(e) \/ EpReply(e) \/ EpMark(e) \/ EpClean(e)

Next == \/ RcStart \/ RcLoop \/ RcRebroadcast \/ RcGiveUp \/ RcKill
        \/ \E e \in EPs : EpStart(e) \/ EpStep(e) \/ EpKill(e)

Spec == Init /\ [][Next]_vars

\* Both sides run; nobody is bound to start anything.
FairSpec == Spec /\ WF_vars(RcLoop) /\ \A e \in EPs : WF_vars(EpStep(e))

-----------------------------------------------------------------------------
(* Properties.                                                             *)

Ids == EPs \cup {0, EP_ID_ALL}

TypeOK ==
  /\ mode \in Modes
  /\ rpc \in {"off", "clear", "id", "base", "poll", "look", "round", "done", "failed"}
  /\ todo \subseteq EPs
  /\ seenId \in Ids
  /\ devId \in [EPs -> Ids] /\ initedEps \in 0 .. Cardinality(EPs)
  /\ retries \in 0 .. MaxRetries
  /\ epId \in [EPs -> Ids]
  /\ outbase \in [EPs -> BOOLEAN] /\ initted \in [EPs -> BOOLEAN]
  /\ epc \in [EPs -> {"off", "wait", "setup", "reply", "mark", "clean", "up"}]
  /\ window \in [EPs -> BOOLEAN]
  /\ crashes \in 0 .. MaxCrashes

\* An endpoint gets no other number than its own, whatever overlaps: neither
\* EP_ID_ALL of an overtaken answer nor the 0 of a cleared area.
RightId == \A e \in EPs : devId[e] \in {0, e}

\* The RC may use an endpoint only when that endpoint can reach the RC's memory.
AcceptedIsReady == \A e \in EPs : devId[e] # 0 => window[e]

\* A finished init in mode INIT_ALL_EPS knows every endpoint.
DoneMeansAll == rpc = "done" /\ mode = "all" => \A e \in EPs : devId[e] # 0

\* The inductive invariant behind the three.  Whatever looks like an answer is
\* one of an endpoint whose window is open, ...
WindowInv == \A e \in EPs : epc[e] \in {"reply", "mark", "clean", "up"} \/ initted[e] => window[e]

\* ... the area of an endpoint the RC waits for has been broadcast to, ...
Asked(e) == \/ rpc \in {"poll", "look", "round"}
            \/ rpc \in {"id", "base"} /\ e \notin todo
            \/ rpc = "base" /\ e \in First(todo)

IdInv ==
  /\ \A e \in EPs : epId[e] \in {0, e, EP_ID_ALL}
  /\ \A e \in EPs : Asked(e) /\ devId[e] = 0 => epId[e] # 0
  /\ rpc = "look" => \A e \in First(todo) : devId[e] = 0 => seenId \in {e, EP_ID_ALL}

\* ... and the answers are counted right.
CountInv ==
  /\ initedEps = Cardinality({e \in EPs : devId[e] # 0})
  /\ rpc = "done" /\ mode = "all" => initedEps = Cardinality(EPs)

InitInv == TypeOK /\ RightId /\ AcceptedIsReady /\ WindowInv /\ IdInv /\ CountInv

\* An answer the RC has written its broadcast over: it will never be accepted.
Overtaken(e) == epId[e] = EP_ID_ALL /\ epc[e] \in {"mark", "clean", "up"}

\* If all endpoints are there the init of the RC succeeds, and the endpoints come
\* up: unless a process dies or the RC broadcasts over an answer.
Meet ==
  [](crashes = 0 /\ \A e \in EPs : ~Overtaken(e))
    => ((rpc \notin {"off", "failed"} /\ \A e \in EPs : epc[e] # "off")
          ~> (rpc = "done" /\ (mode = "all" => \A e \in EPs : epc[e] = "up")))
=============================================================================
