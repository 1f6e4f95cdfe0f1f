------------------------------ MODULE PcieLink ------------------------------
(***************************************************************************)
(* The protocol between the root complex and its endpoints, as spoken by   *)
(* the user library of the RC (pcieRc_sendData, pcieRc_sendCmd) and by the *)
(* endpoint driver's work handler (pciedev_do_work, put_dataBuf,           *)
(* put_cmdBuf, pcie_slave_sendAck) and receivers.                          *)
(*                                                                         *)
(* There is one data area, in RC memory, for all endpoints: payload and    *)
(* head are overwritten by every send, and each endpoint fetches them by   *)
(* DMA in its own time.  Two words per endpoint hold it together: `cmd' in *)
(* endpoint memory (the RC sets SEND bits, the endpoint clears them) and   *)
(* ep_rd_flag in RC memory (the endpoint sets ACK bits, the RC takes them). *)
(* Both sides update them with a plain read-modify-write.  The RC's half   *)
(* is in its kernel driver, whose ioctls are not in this repository: it is *)
(* atomic here.  The endpoint's half, |= and &= ~ in the driver, is a read *)
(* step and a write step.                                                  *)
(***************************************************************************)
EXTENDS Naturals, Sequences, FiniteSets

CONSTANTS EPs,         \* identifiers of the endpoints, numbers 1..3
          Modes,       \* {"all"}, {"one"} or both: destinations of the sends
          Faults,      \* which of "timeout", "sendfail", "dmaerr", "restart" may happen
          Concurrent,  \* data and commands are sent by two threads at a time
          DataBufs,    \* buffers of an endpoint's data FIFO
          CmdBufs,     \* buffers of an endpoint's command FIFO
          MaxFrames,   \* bound: data sends
          MaxCmds      \* bound: command sends

ASSUME LinkAssumption ==
  /\ EPs \subseteq Nat \ {0} /\ EPs # {} /\ IsFiniteSet(EPs)
  /\ Modes \subseteq {"all", "one"}
  /\ Faults \subseteq {"timeout", "sendfail", "dmaerr", "restart"}
  /\ Concurrent \in BOOLEAN
  /\ DataBufs \in Nat \ {0} /\ CmdBufs \in Nat \ {0}
  /\ MaxFrames \in Nat /\ MaxCmds \in Nat

VARIABLES
  dpc, frame, dest, toTell, toWait, \* the RC's sendData: place, frame, endpoints
  result,                           \* what each sendData returned
  cpc, cmdNo, cmdTo, cmdResult,     \* the RC's sendCmd
  area, head,                       \* the data area: payload and head
  cmdSlot,                          \* the command area of each endpoint
  cmd, flag,                        \* the words cmd and ep_rd_flag
  work,                             \* the work item is queued (MSI, then ISR)
  wpc, tmp, myHead,                 \* the work handler: place, RMW, head copy
  dataFifo, cmdFifo, got, gotCmd,   \* the two FIFOs, and what left them
  dropped                           \* frames refused because the FIFO was full

dataVars == <<dpc, frame, dest, toTell, toWait, result>>
cmdVars == <<cpc, cmdNo, cmdTo, cmdResult>>
areaVars == <<area, head>>
fifoVars == <<dataFifo, cmdFifo, got, gotCmd, dropped>>
workerVars == <<wpc, tmp, myHead>>
vars == <<dataVars, cmdVars, areaVars, cmdSlot, cmd, flag, work, workerVars, fifoVars>>

Frames == 1 .. MaxFrames
Cmds == 1 .. MaxCmds

Init ==
  /\ dpc = "idle" /\ frame = 0 /\ dest = {} /\ toTell = {} /\ toWait = {}
  /\ result = [f \in Frames |-> "none"]
  /\ cpc = "idle" /\ cmdNo = 0 /\ cmdTo = 0
  /\ cmdResult = [c \in Cmds |-> "none"]
  /\ area = 0 /\ head = 0
  /\ cmdSlot = [e \in EPs |-> 0]
  /\ cmd = [e \in EPs |-> {}]
  /\ flag = [e \in EPs |-> {}]
  /\ work = [e \in EPs |-> FALSE]
  /\ wpc = [e \in EPs |-> "idle"]
  /\ tmp = [e \in EPs |-> {}]
  /\ myHead = [e \in EPs |-> 0]
  /\ dataFifo = [e \in EPs |-> <<>>]
  /\ cmdFifo = [e \in EPs |-> <<>>]
  /\ got = [e \in EPs |-> <<>>]
  /\ gotCmd = [e \in EPs |-> <<>>]
  /\ dropped = [e \in EPs |-> {}]

-----------------------------------------------------------------------------
(* The RC's kernel driver, as its callers use it.                          *)

\* TI81XX_RC_SEND_ACK with en_int: a SEND bit and an interrupt.
SendAck(e, bit) == /\ cmd' = [cmd EXCEPT ![e] = @ \cup {bit}]
                   /\ work' = [work EXCEPT ![e] = TRUE]

\* TI81XX_RC_WAIT_DATA_ACK and _CMD_ACK take the bits they were waiting for.
TakeAck(e, bits) == flag' = [flag EXCEPT ![e] = @ \ bits]

-----------------------------------------------------------------------------
(* pcieRc_sendData.                                                        *)

Targets == (IF "all" \in Modes THEN {EPs} ELSE {})
             \cup (IF "one" \in Modes THEN {{e} : e \in EPs} ELSE {})

\* The loops over the endpoints go through their identifiers in order.
First(S) == {e \in S : \A x \in S : e <= x}

\* What the argument of the running send may be: EP_ID_ALL, or one endpoint.
Broadcast == "all" \in Modes /\ dest = EPs
Unicast == "one" \in Modes /\ \E e \in EPs : dest = {e}

\* Mutant: the payload is copied for the first frame only.
DataCopyOnce(D) ==
  /\ dpc = "idle"
  /\ Concurrent \/ cpc = "idle"
  /\ frame < MaxFrames
  /\ frame' = frame + 1
  /\ area' = IF frame = 0 THEN 1 ELSE area
  /\ dest' = D /\ toTell' = D /\ toWait' = D
  /\ dpc' = "head"
  /\ UNCHANGED <<result, cmdVars, head, cmdSlot, cmd, flag, work, workerVars, fifoVars>>

DataCopy(D) ==
  /\ dpc = "idle"
  /\ Concurrent \/ cpc = "idle"
  /\ frame < MaxFrames
  /\ frame' = frame + 1
  /\ area' = frame + 1
  /\ dest' = D /\ toTell' = D /\ toWait' = D
  /\ dpc' = "head"
  /\ UNCHANGED <<result, cmdVars, head, cmdSlot, cmd, flag, work, workerVars, fifoVars>>

DataHead ==
  /\ dpc = "head"
  /\ head' = frame
  /\ dpc' = "tell"
  /\ UNCHANGED <<frame, dest, toTell, toWait, result, cmdVars, area, cmdSlot, cmd, flag, work,
                 workerVars, fifoVars>>

DataReturn(res) == dpc' = "idle" /\ result' = [result EXCEPT ![frame] = res]

\* Mutant: the last endpoint told, the send returns (no synchronous wait).
DataTellAsync ==
  /\ dpc = "tell"
  /\ \E e \in First(toTell) :
       /\ SendAck(e, "SEND_DATA")
       /\ toTell' = toTell \ {e}
  /\ IF toTell' = {} THEN DataReturn("ok") ELSE UNCHANGED <<dpc, result>>
  /\ UNCHANGED <<frame, dest, toWait, cmdVars, areaVars, cmdSlot, flag, workerVars, fifoVars>>

DataTell ==
  /\ dpc = "tell"
  /\ \E e \in First(toTell) :
       /\ SendAck(e, "SEND_DATA")
       /\ toTell' = toTell \ {e}
  /\ dpc' = IF toTell' = {} THEN "wait" ELSE "tell"
  /\ UNCHANGED <<frame, dest, toWait, result, cmdVars, areaVars, cmdSlot, flag, workerVars, fifoVars>>

\* The ioctl fails: the endpoints told before are not waited for.
DataTellFails ==
  /\ "sendfail" \in Faults
  /\ dpc = "tell"
  /\ DataReturn("error")
  /\ UNCHANGED <<frame, dest, toTell, toWait, cmdVars, areaVars, cmdSlot, cmd, flag, work,
                 workerVars, fifoVars>>

\* Mutant: the first acknowledgement ends the loop over the endpoints.
DataAckedFirst ==
  /\ dpc = "wait"
  /\ \E e \in First(toWait) :
       /\ "DATA_ACK" \in flag[e]
       /\ TakeAck(e, {"DATA_ACK", "DATA_ERR"})
       /\ toWait' = toWait \ {e}
       /\ DataReturn(IF "DATA_ERR" \in flag[e] THEN "error" ELSE "ok")
  /\ UNCHANGED <<frame, dest, toTell, cmdVars, areaVars, cmdSlot, cmd, work, workerVars, fifoVars>>

\* Mutant: DATA_ACK_ERR contains DATA_ACK and is taken for one.
DataAckedErrToo ==
  /\ dpc = "wait"
  /\ \E e \in First(toWait) :
       /\ "DATA_ACK" \in flag[e]
       /\ TakeAck(e, {"DATA_ACK", "DATA_ERR"})
       /\ toWait' = toWait \ {e}
       /\ IF toWait' = {} THEN DataReturn("ok") ELSE UNCHANGED <<dpc, result>>
  /\ UNCHANGED <<frame, dest, toTell, cmdVars, areaVars, cmdSlot, cmd, work, workerVars, fifoVars>>

\* The acknowledgement of the first endpoint not yet waited for is there.  An
\* error among the endpoints ends the whole send.
DataAcked ==
  /\ dpc = "wait"
  /\ \E e \in First(toWait) :
       /\ "DATA_ACK" \in flag[e]
       /\ TakeAck(e, {"DATA_ACK", "DATA_ERR"})
       /\ toWait' = toWait \ {e}
       /\ IF "DATA_ERR" \in flag[e] THEN DataReturn("error")
          ELSE IF toWait' = {} THEN DataReturn("ok")
          ELSE UNCHANGED <<dpc, result>>
  /\ UNCHANGED <<frame, dest, toTell, cmdVars, areaVars, cmdSlot, cmd, work, workerVars, fifoVars>>

\* No acknowledgement in time (ack_status is 0).  A broadcast returns -1; a
\* unicast falls out of the do-while(0) and returns buf_size like a success.
DataTimeout ==
  /\ "timeout" \in Faults
  /\ dpc = "wait"
  /\ \/ Broadcast /\ DataReturn("error")
     \/ Unicast /\ DataReturn("ok")
  /\ UNCHANGED <<frame, dest, toTell, toWait, cmdVars, areaVars, cmdSlot, cmd, flag, work,
                 workerVars, fifoVars>>

RcData == DataHead \/ DataTell \/ DataAcked

-----------------------------------------------------------------------------
(* pcieRc_init of an application that was killed, in a call or between two. *)
(* memset goes upwards: first the head with the words of the endpoints,    *)
(* then the payload; at its end pcieRc_init clears the head once more.     *)
(* What the last session asked of the endpoints is in their memory and     *)
(* stays.  frame_count starts again; frames keep their numbers here, so    *)
(* that frames of two sessions are told apart.                             *)

Starting == dpc \in {"area", "heads"}

ClearHead == head' = 0 /\ flag' = [e \in EPs |-> {}]

Restart ==
  /\ "restart" \in Faults
  /\ ClearHead
  /\ dpc' = "area" /\ cpc' = "idle"
  /\ UNCHANGED <<frame, dest, toTell, toWait, result, cmdNo, cmdTo, cmdResult, area, cmdSlot, cmd, work,
                 workerVars, fifoVars>>

ClearArea ==
  /\ dpc = "area"
  /\ area' = 0
  /\ dpc' = "heads"
  /\ UNCHANGED <<frame, dest, toTell, toWait, result, cmdVars, head, cmdSlot, cmd, flag, work,
                 workerVars, fifoVars>>

InitDone ==
  /\ dpc = "heads"
  /\ ClearHead
  /\ dpc' = "idle"
  /\ UNCHANGED <<frame, dest, toTell, toWait, result, cmdVars, area, cmdSlot, cmd, work,
                 workerVars, fifoVars>>

RcInit == ClearArea \/ InitDone

-----------------------------------------------------------------------------
(* pcieRc_sendCmd.                                                         *)

CmdCopy(e) ==
  /\ cpc = "idle"
  /\ dpc = "idle" \/ (Concurrent /\ ~Starting)
  /\ cmdNo < MaxCmds
  /\ cmdNo' = cmdNo + 1
  /\ cmdTo' = e
  /\ cmdSlot' = [cmdSlot EXCEPT ![e] = cmdNo + 1]
  /\ cpc' = "tell"
  /\ UNCHANGED <<dataVars, cmdResult, areaVars, cmd, flag, work, workerVars, fifoVars>>

CmdReturn(res) == cpc' = "idle" /\ cmdResult' = [cmdResult EXCEPT ![cmdNo] = res]

\* Mutant: sendCmd passes en_int = FALSE.
CmdTellNoInt ==
  /\ cpc = "tell"
  /\ cmd' = [cmd EXCEPT ![cmdTo] = @ \cup {"SEND_CMD"}]
  /\ cpc' = "wait"
  /\ UNCHANGED <<dataVars, cmdNo, cmdTo, cmdResult, areaVars, cmdSlot, flag, work, workerVars, fifoVars>>

\* Mutant: sendCmd does not wait for the acknowledgement.
CmdTellAsync ==
  /\ cpc = "tell"
  /\ SendAck(cmdTo, "SEND_CMD")
  /\ CmdReturn("ok")
  /\ UNCHANGED <<dataVars, cmdNo, cmdTo, areaVars, cmdSlot, flag, workerVars, fifoVars>>

CmdTell ==
  /\ cpc = "tell"
  /\ SendAck(cmdTo, "SEND_CMD")
  /\ cpc' = "wait"
  /\ UNCHANGED <<dataVars, cmdNo, cmdTo, cmdResult, areaVars, cmdSlot, flag, workerVars, fifoVars>>

\* The ioctl fails: the slot is written, nobody was told.
CmdTellFails ==
  /\ "sendfail" \in Faults
  /\ cpc = "tell"
  /\ CmdReturn("error")
  /\ UNCHANGED <<dataVars, cmdNo, cmdTo, areaVars, cmdSlot, cmd, flag, work, workerVars, fifoVars>>

CmdAcked ==
  /\ cpc = "wait"
  /\ "CMD_ACK" \in flag[cmdTo]
  /\ TakeAck(cmdTo, {"CMD_ACK"})
  /\ CmdReturn("ok")
  /\ UNCHANGED <<dataVars, cmdNo, cmdTo, areaVars, cmdSlot, cmd, work, workerVars, fifoVars>>

CmdTimeout ==
  /\ "timeout" \in Faults
  /\ cpc = "wait"
  /\ CmdReturn("error")
  /\ UNCHANGED <<dataVars, cmdNo, cmdTo, areaVars, cmdSlot, cmd, flag, work, workerVars, fifoVars>>

RcCmd == CmdTell \/ CmdAcked

-----------------------------------------------------------------------------
(* The endpoint's work handler.                                            *)

At(e, place) == wpc[e] = place
Goto(e, place) == wpc' = [wpc EXCEPT ![e] = place]
rcVars == <<dataVars, cmdVars, areaVars, cmdSlot>>

\* The interrupt handler queued the work item; it starts.
WorkStart(e) ==
  /\ At(e, "idle") /\ work[e]
  /\ work' = [work EXCEPT ![e] = FALSE]
  /\ Goto(e, "scanCmd")
  /\ UNCHANGED <<rcVars, cmd, flag, tmp, myHead, fifoVars>>

\* Mutant: the complement is forgotten, the bit stays set.
ScanKeeps(e, from, bit, found, other) ==
  /\ At(e, from)
  /\ IF bit \in cmd[e]
     THEN tmp' = [tmp EXCEPT ![e] = cmd[e]] /\ Goto(e, found)
     ELSE Goto(e, other) /\ UNCHANGED tmp
  /\ UNCHANGED <<rcVars, cmd, flag, work, myHead, fifoVars>>

\* The bit is tested and cmd read for the &= ~.
Scan(e, from, bit, found, other) ==
  /\ At(e, from)
  /\ IF bit \in cmd[e]
     THEN /\ tmp' = [tmp EXCEPT ![e] = cmd[e] \ {bit}]
          /\ Goto(e, found)
     ELSE /\ Goto(e, other)
          /\ UNCHANGED tmp
  /\ UNCHANGED <<rcVars, cmd, flag, work, myHead, fifoVars>>

\* The value is written back without the bit.
Clear(e, from, to) ==
  /\ At(e, from)
  /\ cmd' = [cmd EXCEPT ![e] = tmp[e]]
  /\ Goto(e, to)
  /\ UNCHANGED <<rcVars, flag, work, tmp, myHead, fifoVars>>

PutCmd(e) ==
  /\ At(e, "putCmd")
  /\ Len(cmdFifo[e]) < CmdBufs
  /\ cmdFifo' = [cmdFifo EXCEPT ![e] = Append(@, cmdSlot[e])]
  /\ Goto(e, "ackCmd")
  /\ UNCHANGED <<rcVars, cmd, flag, work, tmp, myHead, dataFifo, got, gotCmd, dropped>>

\* put_dataBuf: the head is copied first, then the FIFO is looked at.
CopyHead(e) ==
  /\ At(e, "putData")
  /\ myHead' = [myHead EXCEPT ![e] = head]
  /\ Goto(e, "look")
  /\ UNCHANGED <<rcVars, cmd, flag, work, tmp, fifoVars>>

\* Mutant: a refused frame is not acknowledged.
DropSilently(e) ==
  /\ At(e, "look")
  /\ Len(dataFifo[e]) >= DataBufs
  /\ dropped' = [dropped EXCEPT ![e] = @ \cup {myHead[e]}]
  /\ Goto(e, "loop")
  /\ UNCHANGED <<rcVars, cmd, flag, work, tmp, myHead, dataFifo, cmdFifo, got, gotCmd>>

Drop(e) ==
  /\ At(e, "look")
  /\ Len(dataFifo[e]) >= DataBufs
  /\ dropped' = [dropped EXCEPT ![e] = @ \cup {myHead[e]}]
  /\ Goto(e, "ackData")
  /\ UNCHANGED <<rcVars, cmd, flag, work, tmp, myHead, dataFifo, cmdFifo, got, gotCmd>>

\* The DMA fetches the payload that is in the area now; the head was older.
Dma(e) ==
  /\ At(e, "look")
  /\ Len(dataFifo[e]) < DataBufs
  /\ dataFifo' = [dataFifo EXCEPT ![e] = Append(@, [head |-> myHead[e], payload |-> area])]
  /\ Goto(e, "ackData")
  /\ UNCHANGED <<rcVars, cmd, flag, work, tmp, myHead, cmdFifo, got, gotCmd, dropped>>

DmaError(e) ==
  /\ "dmaerr" \in Faults
  /\ At(e, "look")
  /\ Len(dataFifo[e]) < DataBufs
  /\ Goto(e, "ackErr")
  /\ UNCHANGED <<rcVars, cmd, flag, work, tmp, myHead, fifoVars>>

\* pcie_slave_sendAck: ep_rd_flag |= bits, the read and the write.
AckRead(e, from, bits, to) ==
  /\ At(e, from)
  /\ tmp' = [tmp EXCEPT ![e] = flag[e] \cup bits]
  /\ Goto(e, to)
  /\ UNCHANGED <<rcVars, cmd, flag, work, myHead, fifoVars>>

AckWrite(e, from, to) ==
  /\ At(e, from)
  /\ flag' = [flag EXCEPT ![e] = tmp[e]]
  /\ Goto(e, to)
  /\ UNCHANGED <<rcVars, cmd, work, tmp, myHead, fifoVars>>

\* The condition of the do-while.
LoopEnd(e) ==
  /\ At(e, "loop")
  /\ Goto(e, IF cmd[e] = {} THEN "idle" ELSE "scanCmd")
  /\ UNCHANGED <<rcVars, cmd, flag, work, tmp, myHead, fifoVars>>

Worker(e) ==
  \/ WorkStart(e)
  \/ Scan(e, "scanCmd", "SEND_CMD", "clearCmd", "scanData")
  \/ Clear(e, "clearCmd", "putCmd")
  \/ PutCmd(e)
  \/ AckRead(e, "ackCmd", {"CMD_ACK"}, "ackCmdWrite")
  \/ AckWrite(e, "ackCmdWrite", "scanData")
  \/ Scan(e, "scanData", "SEND_DATA", "clearData", "loop")
  \/ Clear(e, "clearData", "putData")
  \/ CopyHead(e) \/ Drop(e) \/ Dma(e)
  \/ AckRead(e, "ackData", {"DATA_ACK"}, "ackDataWrite")
  \/ AckRead(e, "ackErr", {"DATA_ACK", "DATA_ERR"}, "ackDataWrite")
  \/ AckWrite(e, "ackDataWrite", "loop")
  \/ LoopEnd(e)

-----------------------------------------------------------------------------
(* The endpoint's application: pcie_slave_recvData, pcie_slave_recvCmd.    *)

RecvData(e) ==
  /\ dataFifo[e] # <<>>
  /\ got' = [got EXCEPT ![e] = Append(@, Head(dataFifo[e]))]
  /\ dataFifo' = [dataFifo EXCEPT ![e] = Tail(@)]
  /\ UNCHANGED <<rcVars, cmd, flag, work, workerVars, cmdFifo, gotCmd, dropped>>

RecvCmd(e) ==
  /\ cmdFifo[e] # <<>>
  /\ gotCmd' = [gotCmd EXCEPT ![e] = Append(@, Head(cmdFifo[e]))]
  /\ cmdFifo' = [cmdFifo EXCEPT ![e] = Tail(@)]
  /\ UNCHANGED <<rcVars, cmd, flag, work, workerVars, dataFifo, got, dropped>>

-----------------------------------------------------------------------------
Next == \/ \E D \in Targets : DataCopy(D)
        \/ RcData \/ DataTellFails \/ DataTimeout
        \/ Restart \/ RcInit
        \/ \E e \in EPs : CmdCopy(e)
        \/ RcCmd \/ CmdTellFails \/ CmdTimeout
        \/ \E e \in EPs : Worker(e) \/ DmaError(e) \/ RecvData(e) \/ RecvCmd(e)

Spec == Init /\ [][Next]_vars

\* Every started call, every work handler and every receiver is scheduled.
FairSpec == /\ Spec
            /\ WF_vars(RcData) /\ WF_vars(RcInit) /\ WF_vars(RcCmd)
            /\ \A e \in EPs : WF_vars(Worker(e)) /\ WF_vars(RecvData(e)) /\ WF_vars(RecvCmd(e))

-----------------------------------------------------------------------------
(* Properties.                                                             *)

Bits == {"SEND_DATA", "SEND_CMD"}
Acks == {"DATA_ACK", "DATA_ERR", "CMD_ACK"}
Outcomes == {"none", "ok", "error"}
Entries == [head : 0 .. MaxFrames, payload : 0 .. MaxFrames]

RcTypes ==
  /\ dpc \in {"idle", "head", "tell", "wait", "area", "heads"}
  /\ frame \in 0 .. MaxFrames
  /\ dest \subseteq EPs /\ toTell \subseteq dest /\ toWait \subseteq dest
  /\ result \in [Frames -> Outcomes]
  /\ cpc \in {"idle", "tell", "wait"}
  /\ cmdNo \in 0 .. MaxCmds
  /\ cmdTo \in EPs \cup {0}
  /\ cmdResult \in [Cmds -> Outcomes]
  /\ area \in 0 .. MaxFrames /\ head \in 0 .. MaxFrames
  /\ cmdSlot \in [EPs -> 0 .. MaxCmds]

WordTypes ==
  /\ cmd \in [EPs -> SUBSET Bits]
  /\ flag \in [EPs -> SUBSET Acks]
  /\ work \in [EPs -> BOOLEAN]

Places == {"idle", "scanCmd", "clearCmd", "putCmd", "ackCmd", "ackCmdWrite", "scanData",
           "clearData", "putData", "look", "ackData", "ackErr", "ackDataWrite", "loop"}

RmwTypes(e) == /\ wpc[e] \in {"clearCmd", "clearData"} => tmp[e] \subseteq Bits
               /\ wpc[e] \in {"ackCmdWrite", "ackDataWrite"} => tmp[e] \subseteq Acks

WorkerTypes ==
  /\ wpc \in [EPs -> Places]
  /\ tmp \in [EPs -> SUBSET (Bits \cup Acks)]
  /\ \A e \in EPs : RmwTypes(e)
  /\ myHead \in [EPs -> 0 .. MaxFrames]

FifoTypes ==
  /\ dataFifo \in [EPs -> Seq(Entries)] /\ got \in [EPs -> Seq(Entries)]
  /\ cmdFifo \in [EPs -> Seq(0 .. MaxCmds)] /\ gotCmd \in [EPs -> Seq(0 .. MaxCmds)]
  /\ dropped \in [EPs -> SUBSET (0 .. MaxFrames)]

TypeOK == RcTypes /\ WordTypes /\ WorkerTypes /\ FifoTypes

\* The endpoint still has to fetch from the data area, or is fetching.
Fetching(e) == "SEND_DATA" \in cmd[e] \/ wpc[e] \in {"clearData", "putData", "look"}

\* All an endpoint's frames, received and waiting.
Log(e) == got[e] \o dataFifo[e]
CmdLog(e) == gotCmd[e] \o cmdFifo[e]

\* The RC does not touch the shared data area while an endpoint may read it:
\* whoever still has to fetch is somebody the running send is waiting for.
AreaExclusive ==
  \A e \in EPs : Fetching(e) => /\ dpc \in {"tell", "wait"}
                                /\ e \in toWait \ toTell

\* Every frame an endpoint gets has the payload that belongs to its head, and
\* no frame comes twice or after a later one.
Intact ==
  \A e \in EPs :
    /\ \A i \in DOMAIN Log(e) : Log(e)[i].payload = Log(e)[i].head
    /\ \A i, j \in DOMAIN Log(e) : i < j => Log(e)[i].head < Log(e)[j].head

\* Whatever goes wrong, a frame's payload is never older than its head: the head
\* is written after the payload and read before it.  A restart may put zeros in
\* its place, never an older frame.
NeverOlder ==
  \A e \in EPs : \A i \in DOMAIN Log(e) :
    \/ Log(e)[i].payload >= Log(e)[i].head
    \/ "restart" \in Faults /\ Log(e)[i].payload = 0

\* No endpoint sleeps on a request: a bit in cmd means that its work handler is
\* running or queued, whatever the handler's read-modify-writes lost.
AwakeForBits == \A e \in EPs : cmd[e] # {} => work[e] \/ wpc[e] # "idle"

Has(e, f) == \E i \in DOMAIN Log(e) : Log(e)[i].head = f

\* What a return value of sendData is worth: the last frame, if it went well, is
\* at every destination, except at those whose FIFO was full.
OkMeansHandled ==
  \A f \in Frames : f = frame /\ result[f] = "ok" =>
    \A e \in dest : Has(e, f) \/ f \in dropped[e]

\* Not so, and so in no run: the promise of DATA_SEND_SYNC_MODE, sent means
\* received.  A frame that a full FIFO refused is acknowledged like the others.
OkMeansReceived ==
  \A f \in Frames : f = frame /\ result[f] = "ok" => \A e \in dest : Has(e, f)

\* A command reported as sent is in its endpoint's log, in the order sent, and
\* no command is there twice.
CmdsInOrder ==
  \A e \in EPs :
    /\ \A i, j \in DOMAIN CmdLog(e) : i < j => CmdLog(e)[i] < CmdLog(e)[j]
    /\ cpc = "idle" /\ cmdTo = e /\ cmdResult[cmdNo] = "ok"
         => \E i \in DOMAIN CmdLog(e) : CmdLog(e)[i] = cmdNo

\* A blocking sendData (tv = NULL) comes back, and so does a blocking sendCmd.
SendReturns == /\ dpc # "idle" ~> dpc = "idle"
               /\ cpc # "idle" ~> cpc = "idle"
=============================================================================
