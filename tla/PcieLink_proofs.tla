-------------------------- MODULE PcieLink_proofs --------------------------
(***************************************************************************)
(* Proofs about the link, for every set of endpoints, every size of the    *)
(* FIFOs and every number of sends: what is written while somebody may     *)
(* read it, what wakes whom, and what the endpoints receive.               *)
(***************************************************************************)
EXTENDS PcieLink, SequenceTheorems, TLAPS

(* Types.                                                                  *)

wordVars == <<cmd, flag, work>>

LEMMA StableTypes ==
  /\ RcTypes /\ UNCHANGED rcVars => RcTypes'
  /\ WordTypes /\ UNCHANGED wordVars => WordTypes'
  /\ WorkerTypes /\ UNCHANGED workerVars => WorkerTypes'
  /\ FifoTypes /\ UNCHANGED fifoVars => FifoTypes'
<1>1. RcTypes /\ UNCHANGED rcVars => RcTypes'
  BY DEF RcTypes, rcVars, dataVars, cmdVars, areaVars
<1>2. WordTypes /\ UNCHANGED wordVars => WordTypes'
  BY DEF WordTypes, wordVars
<1>3. WorkerTypes /\ UNCHANGED workerVars => WorkerTypes'
  BY DEF WorkerTypes, RmwTypes, workerVars
<1>4. FifoTypes /\ UNCHANGED fifoVars => FifoTypes'
  BY DEF FifoTypes, fifoVars
<1> QED
  BY <1>1, <1>2, <1>3, <1>4

\* A step of one work handler keeps the types of the handlers.
LEMMA WorkerStep ==
  ASSUME WorkerTypes, NEW e \in EPs, NEW p \in Places, NEW t \in SUBSET (Bits \cup Acks),
         wpc' = [wpc EXCEPT ![e] = p],
         tmp' = [tmp EXCEPT ![e] = t],
         p \in {"clearCmd", "clearData"} => t \subseteq Bits,
         p \in {"ackCmdWrite", "ackDataWrite"} => t \subseteq Acks,
         myHead' \in [EPs -> 0 .. MaxFrames]
  PROVE  WorkerTypes'
<1>1. wpc' \in [EPs -> Places]
  BY DEF WorkerTypes
<1>2. tmp' \in [EPs -> SUBSET (Bits \cup Acks)]
  BY DEF WorkerTypes
<1>3. ASSUME NEW x \in EPs
      PROVE  RmwTypes(x)'
  <2>1. CASE x = e
    <3>1. wpc'[x] = p /\ tmp'[x] = t
      BY <2>1 DEF WorkerTypes
    <3> QED
      BY <3>1 DEF RmwTypes
  <2>2. CASE x # e
    <3>1. wpc'[x] = wpc[x] /\ tmp'[x] = tmp[x]
      BY <2>2 DEF WorkerTypes
    <3>2. RmwTypes(x)
      BY DEF WorkerTypes
    <3> QED
      BY <3>1, <3>2 DEF RmwTypes
  <2> QED
    BY <2>1, <2>2
<1> QED
  BY <1>1, <1>2, <1>3 DEF WorkerTypes

\* The same for a step that leaves the read-modify-write alone.
LEMMA WorkerMove ==
  ASSUME WorkerTypes, NEW e \in EPs,
         NEW p \in Places \ {"clearCmd", "clearData", "ackCmdWrite", "ackDataWrite"},
         wpc' = [wpc EXCEPT ![e] = p],
         UNCHANGED <<tmp, myHead>>
  PROVE  WorkerTypes'
<1>1. tmp[e] \in SUBSET (Bits \cup Acks)
  BY DEF WorkerTypes
<1>2. tmp' = [tmp EXCEPT ![e] = tmp[e]]
  BY DEF WorkerTypes
<1> QED
  BY <1>1, <1>2, WorkerStep DEF WorkerTypes

LEMMA RcType ==
  ASSUME LinkAssumption, TypeOK,
         (\E D \in Targets : DataCopy(D)) \/ RcData \/ DataTellFails \/ DataTimeout
           \/ Restart \/ RcInit \/ (\E e \in EPs : CmdCopy(e)) \/ RcCmd \/ CmdTellFails \/ CmdTimeout
  PROVE  TypeOK'
<1> USE LinkAssumption DEF Frames, Cmds, cmdVars, dataVars, areaVars
<1>1. RcTypes /\ WordTypes /\ WorkerTypes /\ FifoTypes
  BY DEF TypeOK
<1>a. WorkerTypes' /\ FifoTypes'
  BY <1>1, StableTypes DEF DataCopy, RcData, DataHead, DataTell, DataAcked, DataTellFails, DataTimeout,
     Restart, RcInit, ClearArea, InitDone, CmdCopy, RcCmd, CmdTell, CmdAcked, CmdTellFails, CmdTimeout
<1>b. ASSUME NEW e \in EPs, NEW b \in Bits, SendAck(e, b), flag' = flag
      PROVE  WordTypes'
  BY <1>1, <1>b DEF SendAck, WordTypes, Bits
<1>c. ASSUME NEW e \in EPs, NEW bits, TakeAck(e, bits), UNCHANGED <<cmd, work>>
      PROVE  WordTypes'
  BY <1>1, <1>c DEF TakeAck, WordTypes, Acks
<1>d. ASSUME UNCHANGED <<cmd, flag, work>>
      PROVE  WordTypes'
  BY <1>1, <1>d DEF WordTypes
<1>2. CASE \E D \in Targets : DataCopy(D)
  <2> PICK D \in Targets : DataCopy(D)
    BY <1>2
  <2>1. D \subseteq EPs
    BY DEF Targets
  <2>2. RcTypes'
    BY <1>1, <2>1 DEF DataCopy, RcTypes
  <2> QED
    BY <2>2, <1>a, <1>d DEF DataCopy, TypeOK
<1>3. CASE DataHead
  <2>1. RcTypes'
    BY <1>1, <1>3 DEF DataHead, RcTypes
  <2> QED
    BY <2>1, <1>3, <1>a, <1>d DEF DataHead, TypeOK
<1>4. CASE DataTell
  <2>1. PICK e \in First(toTell) : SendAck(e, "SEND_DATA") /\ toTell' = toTell \ {e}
    BY <1>4 DEF DataTell
  <2>2. e \in EPs
    BY <1>1 DEF First, RcTypes
  <2>3. RcTypes'
    BY <1>1, <1>4, <2>1 DEF DataTell, RcTypes
  <2>4. WordTypes'
    BY <1>4, <1>b, <2>1, <2>2 DEF DataTell, Bits
  <2> QED
    BY <2>3, <2>4, <1>a DEF TypeOK
<1>5. CASE DataAcked
  <2>1. PICK e \in First(toWait) :
          /\ TakeAck(e, {"DATA_ACK", "DATA_ERR"})
          /\ toWait' = toWait \ {e}
          /\ DataReturn("error") \/ DataReturn("ok") \/ UNCHANGED <<dpc, result>>
    BY <1>5 DEF DataAcked
  <2>2. e \in EPs
    BY <1>1 DEF First, RcTypes
  <2>3. RcTypes'
    BY <1>1, <1>5, <2>1 DEF DataAcked, DataReturn, RcTypes, Outcomes
  <2>4. WordTypes'
    BY <1>5, <1>c, <2>1, <2>2 DEF DataAcked
  <2> QED
    BY <2>3, <2>4, <1>a DEF TypeOK
<1>6. CASE DataTellFails \/ DataTimeout
  <2>1. RcTypes'
    BY <1>1, <1>6 DEF DataTellFails, DataTimeout, DataReturn, RcTypes, Outcomes
  <2> QED
    BY <2>1, <1>6, <1>a, <1>d DEF DataTellFails, DataTimeout, TypeOK
<1>7. CASE \E e \in EPs : CmdCopy(e)
  <2>1. RcTypes'
    BY <1>1, <1>7 DEF CmdCopy, RcTypes
  <2> QED
    BY <2>1, <1>7, <1>a, <1>d DEF CmdCopy, TypeOK
<1>8. CASE CmdTell
  <2>1. RcTypes'
    BY <1>1, <1>8 DEF CmdTell, RcTypes
  <2>2. WordTypes'
    BY <1>1, <1>8 DEF CmdTell, SendAck, WordTypes, Bits
  <2> QED
    BY <2>1, <2>2, <1>a DEF TypeOK
<1>9. CASE CmdAcked
  <2>1. RcTypes'
    BY <1>1, <1>9 DEF CmdAcked, CmdReturn, RcTypes, Outcomes
  <2>2. WordTypes'
    BY <1>1, <1>9 DEF CmdAcked, TakeAck, WordTypes, Acks
  <2> QED
    BY <2>1, <2>2, <1>a DEF TypeOK
<1>10. CASE CmdTellFails \/ CmdTimeout
  <2>1. RcTypes'
    BY <1>1, <1>10 DEF CmdTellFails, CmdTimeout, CmdReturn, RcTypes, Outcomes
  <2> QED
    BY <2>1, <1>10, <1>a, <1>d DEF CmdTellFails, CmdTimeout, TypeOK
<1>11. CASE Restart \/ InitDone
  <2>0. 0 \in 0 .. MaxFrames
    BY DEF LinkAssumption
  <2>1. RcTypes'
    <3>1. /\ dpc' \in {"area", "idle"} /\ cpc' \in {"idle", cpc} /\ head' = 0
          /\ UNCHANGED <<frame, dest, toTell, toWait, result, cmdNo, cmdTo, cmdResult, area, cmdSlot>>
      BY <1>11 DEF Restart, InitDone, ClearHead
    <3> QED
      BY <1>1, <2>0, <3>1 DEF RcTypes
  <2>2. WordTypes'
    BY <1>1, <1>11 DEF Restart, InitDone, ClearHead, WordTypes
  <2> QED
    BY <2>1, <2>2, <1>a DEF TypeOK
<1>12. CASE ClearArea
  <2>1. RcTypes'
    BY <1>1, <1>12 DEF ClearArea, RcTypes, LinkAssumption
  <2> QED
    BY <2>1, <1>12, <1>a, <1>d DEF ClearArea, TypeOK
<1> QED
  BY <1>2, <1>3, <1>4, <1>5, <1>6, <1>7, <1>8, <1>9, <1>10, <1>11, <1>12 DEF RcData, RcInit, RcCmd

LEMMA EndpointType ==
  ASSUME LinkAssumption, TypeOK, NEW e \in EPs, Worker(e) \/ DmaError(e) \/ RecvData(e) \/ RecvCmd(e)
  PROVE  TypeOK'
<1> USE LinkAssumption DEF Goto, At
<1>1. RcTypes /\ WordTypes /\ WorkerTypes /\ FifoTypes
  BY DEF TypeOK
<1>2. CASE WorkStart(e)
  <2>1. WordTypes'
    BY <1>1, <1>2 DEF WorkStart, WordTypes, WorkerTypes, Bits, Acks
  <2>2. WorkerTypes'
    BY <1>1, <1>2, WorkerMove DEF WorkStart, Places
  <2>3. RcTypes' /\ FifoTypes'
    BY <1>1, <1>2, StableTypes DEF WorkStart, wordVars, workerVars, fifoVars
  <2> QED
    BY <2>1, <2>2, <2>3 DEF TypeOK
<1>3. CASE Scan(e, "scanCmd", "SEND_CMD", "clearCmd", "scanData")
  <2>1. WorkerTypes'
    <3>1. CASE "SEND_CMD" \in cmd[e]
      <4>1. cmd[e] \ {"SEND_CMD"} \subseteq Bits
        BY <1>1 DEF WordTypes
      <4> QED
        BY <1>1, <1>3, <3>1, <4>1, WorkerStep DEF Scan, Places, WorkerTypes
    <3>2. CASE "SEND_CMD" \notin cmd[e]
      BY <1>1, <1>3, <3>2, WorkerMove DEF Scan, Places
    <3> QED
      BY <3>1, <3>2
  <2>2. RcTypes' /\ WordTypes' /\ FifoTypes'
    BY <1>1, <1>3, StableTypes DEF Scan, wordVars, workerVars, fifoVars
  <2> QED
    BY <2>1, <2>2 DEF TypeOK
<1>4. CASE Scan(e, "scanData", "SEND_DATA", "clearData", "loop")
  <2>1. WorkerTypes'
    <3>1. CASE "SEND_DATA" \in cmd[e]
      <4>1. cmd[e] \ {"SEND_DATA"} \subseteq Bits
        BY <1>1 DEF WordTypes
      <4> QED
        BY <1>1, <1>4, <3>1, <4>1, WorkerStep DEF Scan, Places, WorkerTypes
    <3>2. CASE "SEND_DATA" \notin cmd[e]
      BY <1>1, <1>4, <3>2, WorkerMove DEF Scan, Places
    <3> QED
      BY <3>1, <3>2
  <2>2. RcTypes' /\ WordTypes' /\ FifoTypes'
    BY <1>1, <1>4, StableTypes DEF Scan, wordVars, workerVars, fifoVars
  <2> QED
    BY <2>1, <2>2 DEF TypeOK
<1>5. CASE Clear(e, "clearCmd", "putCmd") \/ Clear(e, "clearData", "putData")
  <2>1. WordTypes'
    <3>a. wpc[e] \in {"clearCmd", "clearData"}
      BY <1>5 DEF Clear
    <3>1. tmp[e] \in SUBSET Bits
      <4>1. RmwTypes(e)
        BY <1>1 DEF WorkerTypes
      <4> QED
        BY <3>a, <4>1 DEF RmwTypes
    <3>2. cmd' = [cmd EXCEPT ![e] = tmp[e]] /\ UNCHANGED <<flag, work>>
      BY <1>5 DEF Clear
    <3> QED
      BY <1>1, <3>1, <3>2 DEF WordTypes
  <2>2. WorkerTypes'
    BY <1>1, <1>5, WorkerMove DEF Clear, Places
  <2>3. RcTypes' /\ FifoTypes'
    BY <1>1, <1>5, StableTypes DEF Clear, wordVars, workerVars, fifoVars
  <2> QED
    BY <2>1, <2>2, <2>3 DEF TypeOK
<1>6. CASE PutCmd(e)
  <2>1. WorkerTypes'
    BY <1>1, <1>6, WorkerMove DEF PutCmd, Places
  <2>2. FifoTypes'
    <3>1. Append(cmdFifo[e], cmdSlot[e]) \in Seq(0 .. MaxCmds)
      BY <1>1 DEF FifoTypes, RcTypes
    <3> QED
      BY <1>1, <1>6, <3>1 DEF PutCmd, FifoTypes
  <2>3. RcTypes' /\ WordTypes'
    BY <1>1, <1>6, StableTypes DEF PutCmd, wordVars, workerVars, fifoVars
  <2> QED
    BY <2>1, <2>2, <2>3 DEF TypeOK
<1>7. CASE AckRead(e, "ackCmd", {"CMD_ACK"}, "ackCmdWrite")
  <2>1. WorkerTypes'
    <3>1. flag[e] \cup {"CMD_ACK"} \subseteq Acks
      BY <1>1 DEF WordTypes, Acks
    <3> QED
      BY <1>1, <1>7, <3>1, WorkerStep DEF AckRead, Places, WorkerTypes
  <2>2. RcTypes' /\ WordTypes' /\ FifoTypes'
    BY <1>1, <1>7, StableTypes DEF AckRead, wordVars, workerVars, fifoVars
  <2> QED
    BY <2>1, <2>2 DEF TypeOK
<1>8. CASE AckRead(e, "ackData", {"DATA_ACK"}, "ackDataWrite")
  <2>1. WorkerTypes'
    <3>1. flag[e] \cup {"DATA_ACK"} \subseteq Acks
      BY <1>1 DEF WordTypes, Acks
    <3> QED
      BY <1>1, <1>8, <3>1, WorkerStep DEF AckRead, Places, WorkerTypes
  <2>2. RcTypes' /\ WordTypes' /\ FifoTypes'
    BY <1>1, <1>8, StableTypes DEF AckRead, wordVars, workerVars, fifoVars
  <2> QED
    BY <2>1, <2>2 DEF TypeOK
<1>9. CASE AckRead(e, "ackErr", {"DATA_ACK", "DATA_ERR"}, "ackDataWrite")
  <2>1. WorkerTypes'
    <3>1. flag[e] \cup {"DATA_ACK", "DATA_ERR"} \subseteq Acks
      BY <1>1 DEF WordTypes, Acks
    <3> QED
      BY <1>1, <1>9, <3>1, WorkerStep DEF AckRead, Places, WorkerTypes
  <2>2. RcTypes' /\ WordTypes' /\ FifoTypes'
    BY <1>1, <1>9, StableTypes DEF AckRead, wordVars, workerVars, fifoVars
  <2> QED
    BY <2>1, <2>2 DEF TypeOK
<1>10. CASE AckWrite(e, "ackCmdWrite", "scanData") \/ AckWrite(e, "ackDataWrite", "loop")
  <2>1. WordTypes'
    <3>a. wpc[e] \in {"ackCmdWrite", "ackDataWrite"}
      BY <1>10 DEF AckWrite
    <3>1. tmp[e] \in SUBSET Acks
      <4>1. RmwTypes(e)
        BY <1>1 DEF WorkerTypes
      <4> QED
        BY <3>a, <4>1 DEF RmwTypes
    <3>2. flag' = [flag EXCEPT ![e] = tmp[e]] /\ UNCHANGED <<cmd, work>>
      BY <1>10 DEF AckWrite
    <3> QED
      BY <1>1, <3>1, <3>2 DEF WordTypes
  <2>2. WorkerTypes'
    BY <1>1, <1>10, WorkerMove DEF AckWrite, Places
  <2>3. RcTypes' /\ FifoTypes'
    BY <1>1, <1>10, StableTypes DEF AckWrite, wordVars, workerVars, fifoVars
  <2> QED
    BY <2>1, <2>2, <2>3 DEF TypeOK
<1>11. CASE CopyHead(e)
  <2>1. WorkerTypes'
    <3>1. tmp' = [tmp EXCEPT ![e] = tmp[e]] /\ tmp[e] \in SUBSET (Bits \cup Acks)
      BY <1>1, <1>11 DEF CopyHead, WorkerTypes
    <3>2. myHead' \in [EPs -> 0 .. MaxFrames]
      BY <1>1, <1>11 DEF CopyHead, WorkerTypes, RcTypes
    <3> QED
      BY <1>1, <1>11, <3>1, <3>2, WorkerStep DEF CopyHead, Places
  <2>2. RcTypes' /\ WordTypes' /\ FifoTypes'
    BY <1>1, <1>11, StableTypes DEF CopyHead, wordVars, workerVars, fifoVars
  <2> QED
    BY <2>1, <2>2 DEF TypeOK
<1>12. CASE Drop(e)
  <2>1. WorkerTypes'
    BY <1>1, <1>12, WorkerMove DEF Drop, Places
  <2>2. FifoTypes'
    BY <1>1, <1>12 DEF Drop, FifoTypes, RcTypes, WorkerTypes, Entries
  <2>3. RcTypes' /\ WordTypes'
    BY <1>1, <1>12, StableTypes DEF Drop, wordVars, workerVars, fifoVars
  <2> QED
    BY <2>1, <2>2, <2>3 DEF TypeOK
<1>13. CASE Dma(e)
  <2>1. WorkerTypes'
    BY <1>1, <1>13, WorkerMove DEF Dma, Places
  <2>2. FifoTypes'
    <3> DEFINE entry == [head |-> myHead[e], payload |-> area]
    <3>1. entry \in Entries
      BY <1>1 DEF RcTypes, WorkerTypes, Entries
    <3>2. dataFifo' = [dataFifo EXCEPT ![e] = Append(dataFifo[e], entry)]
      BY <1>13 DEF Dma
    <3> HIDE DEF entry
    <3>3. Append(dataFifo[e], entry) \in Seq(Entries)
      BY <1>1, <3>1 DEF FifoTypes
    <3> QED
      BY <1>1, <1>13, <3>2, <3>3, SMTT(30) DEF Dma, FifoTypes
  <2>3. RcTypes' /\ WordTypes'
    BY <1>1, <1>13, StableTypes DEF Dma, wordVars, workerVars, fifoVars
  <2> QED
    BY <2>1, <2>2, <2>3 DEF TypeOK
<1>14. CASE LoopEnd(e)
  <2>1. WorkerTypes'
    BY <1>1, <1>14, WorkerMove DEF LoopEnd, Places
  <2>2. RcTypes' /\ WordTypes' /\ FifoTypes'
    BY <1>1, <1>14, StableTypes DEF LoopEnd, wordVars, workerVars, fifoVars
  <2> QED
    BY <2>1, <2>2 DEF TypeOK
<1>15. CASE DmaError(e)
  <2>1. WorkerTypes'
    BY <1>1, <1>15, WorkerMove DEF DmaError, Places
  <2>2. RcTypes' /\ WordTypes' /\ FifoTypes'
    BY <1>1, <1>15, StableTypes DEF DmaError, wordVars, workerVars, fifoVars
  <2> QED
    BY <2>1, <2>2 DEF TypeOK
<1>16. CASE RecvData(e)
  <2>1. FifoTypes'
    <3>1. Tail(dataFifo[e]) \in Seq(Entries)
      BY <1>1, <1>16 DEF RecvData, FifoTypes
    <3>2. Append(got[e], Head(dataFifo[e])) \in Seq(Entries)
      BY <1>1, <1>16 DEF RecvData, FifoTypes
    <3> QED
      BY <1>1, <1>16, <3>1, <3>2 DEF RecvData, FifoTypes
  <2>2. RcTypes' /\ WordTypes' /\ WorkerTypes'
    BY <1>1, <1>16, StableTypes DEF RecvData, wordVars, workerVars, fifoVars
  <2> QED
    BY <2>1, <2>2 DEF TypeOK
<1>17. CASE RecvCmd(e)
  <2>1. FifoTypes'
    <3>1. Tail(cmdFifo[e]) \in Seq(0 .. MaxCmds)
      BY <1>1, <1>17 DEF RecvCmd, FifoTypes
    <3>2. Append(gotCmd[e], Head(cmdFifo[e])) \in Seq(0 .. MaxCmds)
      BY <1>1, <1>17 DEF RecvCmd, FifoTypes
    <3> QED
      BY <1>1, <1>17, <3>1, <3>2 DEF RecvCmd, FifoTypes
  <2>2. RcTypes' /\ WordTypes' /\ WorkerTypes'
    BY <1>1, <1>17, StableTypes DEF RecvCmd, wordVars, workerVars, fifoVars
  <2> QED
    BY <2>1, <2>2 DEF TypeOK
<1> QED
  BY <1>2, <1>3, <1>4, <1>5, <1>6, <1>7, <1>8, <1>9, <1>10, <1>11, <1>12,
     <1>13, <1>14, <1>15, <1>16, <1>17 DEF Worker

\* Every variable of the link stays within its type, whatever fails and
\* whether or not data and commands are sent at the same time.
THEOREM LinkType == Spec => []TypeOK
<1>1. Init => TypeOK
  <2> SUFFICES ASSUME Init PROVE TypeOK
    OBVIOUS
  <2>1. RcTypes
    BY LinkAssumption DEF Init, RcTypes, Frames, Cmds, Outcomes
  <2>2. WordTypes
    BY DEF Init, WordTypes
  <2>3. WorkerTypes
    BY LinkAssumption DEF Init, WorkerTypes, RmwTypes, Places
  <2>4. FifoTypes
    BY DEF Init, FifoTypes
  <2> QED
    BY <2>1, <2>2, <2>3, <2>4 DEF TypeOK
<1>2. TypeOK /\ [Next]_vars => TypeOK'
  <2> SUFFICES ASSUME TypeOK, [Next]_vars PROVE TypeOK'
    OBVIOUS
  <2>1. CASE Next
    BY <2>1, LinkAssumption, RcType, EndpointType DEF Next
  <2>2. CASE UNCHANGED vars
    BY <2>2, StableTypes DEF vars, TypeOK, rcVars, wordVars
  <2> QED
    BY <2>1, <2>2
<1> QED
  BY <1>1, <1>2, PTL DEF Spec

-----------------------------------------------------------------------------
(* The invariant behind the exclusive use of the data area.                *)

DataAt(e) == wpc[e] \in {"putData", "look", "ackData", "ackDataWrite"}
CmdAt(e) == wpc[e] \in {"putCmd", "ackCmd", "ackCmdWrite"}

\* The running send, or command, still waits for e.
Owed(e) == dpc \in {"tell", "wait"} /\ e \in toWait /\ e \notin toTell
CmdOwed(e) == cpc = "wait" /\ e = cmdTo

\* A request is in one place: the bit in cmd, the work handler, the
\* acknowledgement; and it is there only while its sender waits for it.
DataToken(e) ==
  /\ "SEND_DATA" \in cmd[e] => Owed(e) /\ ~DataAt(e) /\ "DATA_ACK" \notin flag[e]
  /\ DataAt(e) => Owed(e) /\ "DATA_ACK" \notin flag[e]
  /\ "DATA_ACK" \in flag[e] => Owed(e)

CmdToken(e) ==
  /\ "SEND_CMD" \in cmd[e] => CmdOwed(e) /\ ~CmdAt(e) /\ "CMD_ACK" \notin flag[e]
  /\ CmdAt(e) => CmdOwed(e) /\ "CMD_ACK" \notin flag[e]
  /\ "CMD_ACK" \in flag[e] => CmdOwed(e)

\* Between the read and the write of a read-modify-write nobody else writes.
Undisturbed(e) ==
  /\ wpc[e] = "clearCmd" => "SEND_CMD" \in cmd[e] /\ tmp[e] = cmd[e] \ {"SEND_CMD"}
  /\ wpc[e] = "clearData" => "SEND_DATA" \in cmd[e] /\ tmp[e] = cmd[e] \ {"SEND_DATA"}
  /\ wpc[e] = "ackCmdWrite" => tmp[e] = flag[e] \cup {"CMD_ACK"}
  /\ wpc[e] = "ackDataWrite" => tmp[e] = flag[e] \cup {"DATA_ACK"}

NoError(e) == wpc[e] # "ackErr" /\ "DATA_ERR" \notin flag[e]

RcShape ==
  /\ ~Starting
  /\ dpc = "idle" \/ cpc = "idle"
  /\ dpc = "head" => toTell = dest /\ toWait = dest
  /\ dpc = "tell" => toWait = dest
  /\ dpc = "wait" => toTell = {}

EpInv(e) == DataToken(e) /\ CmdToken(e) /\ Undisturbed(e) /\ NoError(e)

LinkInv == RcShape /\ \A e \in EPs : EpInv(e)

\* Nothing fails, and commands and data are not sent at the same time.
Calm == Faults = {} /\ ~Concurrent

LEMMA LinkInvInit == Init => LinkInv
  BY DEF Init, LinkInv, RcShape, Starting, EpInv, DataToken, CmdToken, Undisturbed, NoError, DataAt, CmdAt,
     Owed, CmdOwed

\* A step of the RC keeps the invariant.
LEMMA RcKeeps ==
  ASSUME Calm, TypeOK, LinkInv,
         (\E D \in Targets : DataCopy(D)) \/ RcData \/ (\E e \in EPs : CmdCopy(e)) \/ RcCmd
  PROVE  LinkInv'
<1> USE DEF EpInv, DataToken, CmdToken, Undisturbed, NoError, DataAt, CmdAt, Owed, CmdOwed, workerVars
<1>1. RcShape /\ (\A e \in EPs : EpInv(e)) /\ ~Concurrent
  BY DEF LinkInv, Calm
<1>2. /\ cmd \in [EPs -> SUBSET Bits] /\ flag \in [EPs -> SUBSET Acks]
      /\ toTell \subseteq dest /\ toWait \subseteq dest
  BY DEF TypeOK, WordTypes, RcTypes
<1>3. CASE \E D \in Targets : DataCopy(D)
  <2>1. RcShape'
    BY <1>1, <1>3 DEF DataCopy, cmdVars, RcShape, Starting
  <2>2. ASSUME NEW e \in EPs PROVE EpInv(e)'
    BY <1>1, <1>3, <2>2 DEF DataCopy, cmdVars
  <2> QED
    BY <2>1, <2>2 DEF LinkInv
<1>4. CASE DataHead
  <2>1. RcShape'
    BY <1>1, <1>4 DEF DataHead, cmdVars, RcShape, Starting
  <2>2. ASSUME NEW e \in EPs PROVE EpInv(e)'
    BY <1>1, <1>4, <2>2 DEF DataHead, cmdVars, RcShape, Starting
  <2> QED
    BY <2>1, <2>2 DEF LinkInv
<1>5. CASE DataTell
  <2>1. PICK t \in First(toTell) : SendAck(t, "SEND_DATA") /\ toTell' = toTell \ {t}
    BY <1>5 DEF DataTell
  <2>2. t \in toTell
    BY DEF First
  <2>3. cpc = "idle" /\ dpc = "tell" /\ toWait = dest
    BY <1>1, <1>5 DEF DataTell, RcShape, Starting
  <2>4. RcShape'
    BY <1>1, <1>5, <2>1 DEF DataTell, cmdVars, RcShape, Starting
  <2>5. ASSUME NEW e \in EPs PROVE EpInv(e)'
    <3>1. CASE e = t
      <4>1. cmd'[e] = cmd[e] \cup {"SEND_DATA"} /\ Owed(e)'
        BY <1>2, <1>5, <2>1, <2>2, <2>3, <3>1 DEF DataTell, SendAck
      <4>2. ~Owed(e) /\ ~CmdOwed(e)
        BY <2>2, <2>3, <3>1
      <4> QED
        BY <1>1, <1>5, <4>1, <4>2 DEF DataTell, cmdVars
    <3>2. CASE e # t
      <4>1. cmd'[e] = cmd[e] /\ (Owed(e)' <=> Owed(e))
        BY <1>2, <1>5, <2>1, <2>3, <3>2 DEF DataTell, SendAck
      <4> QED
        BY <1>1, <1>5, <4>1 DEF DataTell, cmdVars
    <3> QED
      BY <3>1, <3>2
  <2> QED
    BY <2>4, <2>5 DEF LinkInv
<1>6. CASE DataAcked
  <2>1. PICK t \in First(toWait) :
          /\ "DATA_ACK" \in flag[t]
          /\ TakeAck(t, {"DATA_ACK", "DATA_ERR"})
          /\ toWait' = toWait \ {t}
          /\ IF "DATA_ERR" \in flag[t] THEN DataReturn("error")
             ELSE IF toWait' = {} THEN DataReturn("ok")
             ELSE UNCHANGED <<dpc, result>>
    BY <1>6 DEF DataAcked
  <2>2. t \in EPs
    BY DEF First, TypeOK, RcTypes
  <2>3. dpc = "wait" /\ cpc = "idle" /\ toTell = {}
    BY <1>1, <1>6 DEF DataAcked, RcShape, Starting
  <2>4. dpc' = IF toWait' = {} THEN "idle" ELSE dpc
    BY <1>1, <2>1, <2>2 DEF DataReturn
  <2>5. RcShape'
    BY <1>1, <1>6, <2>3, <2>4 DEF DataAcked, cmdVars, RcShape, Starting
  <2>6. ASSUME NEW e \in EPs PROVE EpInv(e)'
    <3>1. CASE e = t
      <4>1. flag'[e] = flag[e] \ {"DATA_ACK", "DATA_ERR"}
        BY <1>2, <2>1, <3>1 DEF TakeAck
      <4>2. "DATA_ACK" \in flag[e] /\ ~CmdOwed(e)
        BY <2>1, <2>3, <3>1
      <4> QED
        BY <1>1, <1>6, <4>1, <4>2 DEF DataAcked, cmdVars
    <3>2. CASE e # t
      <4>1. flag'[e] = flag[e]
        BY <1>2, <2>1, <3>2 DEF TakeAck
      <4>2. Owed(e)' <=> Owed(e)
        BY <1>6, <2>1, <2>3, <2>4, <3>2 DEF DataAcked
      <4> QED
        BY <1>1, <1>6, <4>1, <4>2 DEF DataAcked, cmdVars
    <3> QED
      BY <3>1, <3>2
  <2> QED
    BY <2>5, <2>6 DEF LinkInv
<1>7. CASE \E e \in EPs : CmdCopy(e)
  <2>1. RcShape'
    BY <1>1, <1>7 DEF CmdCopy, dataVars, RcShape, Starting
  <2>2. ASSUME NEW e \in EPs PROVE EpInv(e)'
    BY <1>1, <1>7, <2>2 DEF CmdCopy, dataVars
  <2> QED
    BY <2>1, <2>2 DEF LinkInv
<1>8. CASE CmdTell
  <2>1. cpc = "tell" /\ dpc = "idle"
    BY <1>1, <1>8 DEF CmdTell, RcShape, Starting
  <2>2. RcShape'
    BY <1>1, <1>8, <2>1 DEF CmdTell, dataVars, RcShape, Starting
  <2>3. ASSUME NEW e \in EPs PROVE EpInv(e)'
    <3>1. ~Owed(e) /\ ~CmdOwed(e)
      BY <2>1
    <3>2. cmd'[e] = IF e = cmdTo THEN cmd[e] \cup {"SEND_CMD"} ELSE cmd[e]
      BY <1>2, <1>8 DEF CmdTell, SendAck
    <3> QED
      BY <1>1, <1>8, <3>1, <3>2 DEF CmdTell, dataVars
  <2> QED
    BY <2>2, <2>3 DEF LinkInv
<1>9. CASE CmdAcked
  <2>1. cpc = "wait" /\ dpc = "idle"
    BY <1>1, <1>9 DEF CmdAcked, RcShape, Starting
  <2>2. RcShape'
    BY <1>1, <1>9, <2>1 DEF CmdAcked, CmdReturn, dataVars, RcShape, Starting
  <2>3. ASSUME NEW e \in EPs PROVE EpInv(e)'
    <3>1. flag'[e] = IF e = cmdTo THEN flag[e] \ {"CMD_ACK"} ELSE flag[e]
      BY <1>2, <1>9 DEF CmdAcked, TakeAck
    <3>2. ~Owed(e) /\ (e = cmdTo => "CMD_ACK" \in flag[e])
      BY <1>9, <2>1 DEF CmdAcked
    <3> QED
      BY <1>1, <1>9, <2>1, <3>1, <3>2 DEF CmdAcked, CmdReturn, dataVars
  <2> QED
    BY <2>2, <2>3 DEF LinkInv
<1> QED
  BY <1>3, <1>4, <1>5, <1>6, <1>7, <1>8, <1>9 DEF RcData, RcCmd

\* What an endpoint's step leaves alone: the RC, and every other endpoint.
Elsewhere(e) ==
  /\ UNCHANGED rcVars
  /\ \A x \in EPs \ {e} : cmd'[x] = cmd[x] /\ flag'[x] = flag[x] /\ wpc'[x] = wpc[x] /\ tmp'[x] = tmp[x]

LEMMA OneEndpoint ==
  ASSUME LinkInv, NEW e \in EPs, Elsewhere(e), EpInv(e)'
  PROVE  LinkInv'
<1>1. RcShape'
  BY DEF LinkInv, RcShape, Starting, Elsewhere, rcVars, dataVars, cmdVars
<1>2. ASSUME NEW x \in EPs \ {e} PROVE EpInv(x)'
  BY <1>2 DEF LinkInv, EpInv, DataToken, CmdToken, Undisturbed, NoError, DataAt, CmdAt, Owed, CmdOwed,
     Elsewhere, rcVars, dataVars, cmdVars
<1> QED
  BY <1>1, <1>2 DEF LinkInv

\* A step of an endpoint keeps the invariant.
LEMMA EpKeeps ==
  ASSUME Calm, TypeOK, LinkInv, NEW e \in EPs, Worker(e) \/ RecvData(e) \/ RecvCmd(e)
  PROVE  LinkInv'
<1> USE DEF Goto, At
<1>1. EpInv(e)
  BY DEF LinkInv
<1>2. /\ cmd \in [EPs -> SUBSET Bits] /\ flag \in [EPs -> SUBSET Acks]
      /\ wpc \in [EPs -> Places] /\ tmp \in [EPs -> SUBSET (Bits \cup Acks)]
  BY DEF TypeOK, WordTypes, WorkerTypes
<1>3. cmd[e] \subseteq Bits /\ flag[e] \subseteq Acks
  BY <1>2
<1> HIDE DEF EpInv
<1> DEFINE Step == Elsewhere(e) /\ EpInv(e)'
<1>4. SUFFICES Step
  BY OneEndpoint
<1> DEFINE Rc == UNCHANGED <<dpc, cpc, toTell, toWait, cmdTo>>
<1>5. UNCHANGED rcVars => Rc
  BY DEF rcVars, dataVars, cmdVars
<1>6. CASE WorkStart(e)
  <2>1. Elsewhere(e)
    BY <1>2, <1>6 DEF WorkStart, Elsewhere, workerVars
  <2>2. wpc[e] = "idle" /\ wpc'[e] = "scanCmd" /\ cmd'[e] = cmd[e] /\ flag'[e] = flag[e]
    BY <1>2, <1>6 DEF WorkStart
  <2>3. EpInv(e)'
    BY <1>1, <1>3, <1>5, <2>1, <2>2 DEF Elsewhere, EpInv, DataToken, CmdToken, Undisturbed, NoError, DataAt, CmdAt, Owed, CmdOwed, Bits
  <2> QED
    BY <2>1, <2>3
<1>7. CASE Scan(e, "scanCmd", "SEND_CMD", "clearCmd", "scanData")
  <2>1. Elsewhere(e)
    BY <1>2, <1>7 DEF Scan, Elsewhere, workerVars
  <2>2. /\ wpc[e] = "scanCmd" /\ cmd'[e] = cmd[e] /\ flag'[e] = flag[e]
       /\ \/ "SEND_CMD" \in cmd[e] /\ wpc'[e] = "clearCmd" /\ tmp'[e] = cmd[e] \ {"SEND_CMD"}
          \/ wpc'[e] = "scanData"
    BY <1>2, <1>7 DEF Scan
  <2>3. EpInv(e)'
    BY <1>1, <1>3, <1>5, <2>1, <2>2 DEF Elsewhere, EpInv, DataToken, CmdToken, Undisturbed, NoError, DataAt, CmdAt, Owed, CmdOwed, Bits
  <2> QED
    BY <2>1, <2>3
<1>8. CASE Scan(e, "scanData", "SEND_DATA", "clearData", "loop")
  <2>1. Elsewhere(e)
    BY <1>2, <1>8 DEF Scan, Elsewhere, workerVars
  <2>2. /\ wpc[e] = "scanData" /\ cmd'[e] = cmd[e] /\ flag'[e] = flag[e]
       /\ \/ "SEND_DATA" \in cmd[e] /\ wpc'[e] = "clearData" /\ tmp'[e] = cmd[e] \ {"SEND_DATA"}
          \/ wpc'[e] = "loop"
    BY <1>2, <1>8 DEF Scan
  <2>3. EpInv(e)'
    BY <1>1, <1>3, <1>5, <2>1, <2>2 DEF Elsewhere, EpInv, DataToken, CmdToken, Undisturbed, NoError, DataAt, CmdAt, Owed, CmdOwed, Bits
  <2> QED
    BY <2>1, <2>3
<1>9. CASE Clear(e, "clearCmd", "putCmd")
  <2>1. Elsewhere(e)
    BY <1>2, <1>9 DEF Clear, Elsewhere, workerVars
  <2>2. wpc[e] = "clearCmd" /\ wpc'[e] = "putCmd" /\ cmd'[e] = tmp[e] /\ flag'[e] = flag[e]
    BY <1>2, <1>9 DEF Clear
  <2>3. EpInv(e)'
    BY <1>1, <1>3, <1>5, <2>1, <2>2 DEF Elsewhere, EpInv, DataToken, CmdToken, Undisturbed, NoError, DataAt, CmdAt, Owed, CmdOwed, Bits
  <2> QED
    BY <2>1, <2>3
<1>10. CASE Clear(e, "clearData", "putData")
  <2>1. Elsewhere(e)
    BY <1>2, <1>10 DEF Clear, Elsewhere, workerVars
  <2>2. wpc[e] = "clearData" /\ wpc'[e] = "putData" /\ cmd'[e] = tmp[e] /\ flag'[e] = flag[e]
    BY <1>2, <1>10 DEF Clear
  <2>3. EpInv(e)'
    BY <1>1, <1>3, <1>5, <2>1, <2>2 DEF Elsewhere, EpInv, DataToken, CmdToken, Undisturbed, NoError, DataAt, CmdAt, Owed, CmdOwed, Bits
  <2> QED
    BY <2>1, <2>3
<1>11. CASE PutCmd(e)
  <2>1. Elsewhere(e)
    BY <1>2, <1>11 DEF PutCmd, Elsewhere, workerVars
  <2>2. wpc[e] = "putCmd" /\ wpc'[e] = "ackCmd" /\ cmd'[e] = cmd[e] /\ flag'[e] = flag[e]
    BY <1>2, <1>11 DEF PutCmd
  <2>3. EpInv(e)'
    BY <1>1, <1>3, <1>5, <2>1, <2>2 DEF Elsewhere, EpInv, DataToken, CmdToken, Undisturbed, NoError, DataAt, CmdAt, Owed, CmdOwed, Bits
  <2> QED
    BY <2>1, <2>3
<1>12. CASE AckRead(e, "ackCmd", {"CMD_ACK"}, "ackCmdWrite")
  <2>1. Elsewhere(e)
    BY <1>2, <1>12 DEF AckRead, Elsewhere, workerVars
  <2>2. /\ wpc[e] = "ackCmd" /\ wpc'[e] = "ackCmdWrite"
       /\ cmd'[e] = cmd[e] /\ flag'[e] = flag[e] /\ tmp'[e] = flag[e] \cup {"CMD_ACK"}
    BY <1>2, <1>12 DEF AckRead
  <2>3. EpInv(e)'
    BY <1>1, <1>3, <1>5, <2>1, <2>2 DEF Elsewhere, EpInv, DataToken, CmdToken, Undisturbed, NoError, DataAt, CmdAt, Owed, CmdOwed, Bits
  <2> QED
    BY <2>1, <2>3
<1>13. CASE AckRead(e, "ackData", {"DATA_ACK"}, "ackDataWrite")
  <2>1. Elsewhere(e)
    BY <1>2, <1>13 DEF AckRead, Elsewhere, workerVars
  <2>2. /\ wpc[e] = "ackData" /\ wpc'[e] = "ackDataWrite"
       /\ cmd'[e] = cmd[e] /\ flag'[e] = flag[e] /\ tmp'[e] = flag[e] \cup {"DATA_ACK"}
    BY <1>2, <1>13 DEF AckRead
  <2>3. EpInv(e)'
    BY <1>1, <1>3, <1>5, <2>1, <2>2 DEF Elsewhere, EpInv, DataToken, CmdToken, Undisturbed, NoError, DataAt, CmdAt, Owed, CmdOwed, Bits
  <2> QED
    BY <2>1, <2>3
<1>14. CASE AckRead(e, "ackErr", {"DATA_ACK", "DATA_ERR"}, "ackDataWrite")
  <2>1. Elsewhere(e)
    BY <1>2, <1>14 DEF AckRead, Elsewhere, workerVars
  <2>2. /\ wpc[e] = "ackErr" /\ wpc'[e] = "ackDataWrite"
       /\ cmd'[e] = cmd[e] /\ flag'[e] = flag[e] /\ tmp'[e] = flag[e] \cup {"DATA_ACK", "DATA_ERR"}
    BY <1>2, <1>14 DEF AckRead
  <2>3. EpInv(e)'
    BY <1>1, <1>3, <1>5, <2>1, <2>2 DEF Elsewhere, EpInv, DataToken, CmdToken, Undisturbed, NoError, DataAt, CmdAt, Owed, CmdOwed, Bits
  <2> QED
    BY <2>1, <2>3
<1>15. CASE AckWrite(e, "ackCmdWrite", "scanData")
  <2>1. Elsewhere(e)
    BY <1>2, <1>15 DEF AckWrite, Elsewhere, workerVars
  <2>2. wpc[e] = "ackCmdWrite" /\ wpc'[e] = "scanData" /\ flag'[e] = tmp[e] /\ cmd'[e] = cmd[e]
    BY <1>2, <1>15 DEF AckWrite
  <2>3. EpInv(e)'
    BY <1>1, <1>3, <1>5, <2>1, <2>2 DEF Elsewhere, EpInv, DataToken, CmdToken, Undisturbed, NoError, DataAt, CmdAt, Owed, CmdOwed, Bits
  <2> QED
    BY <2>1, <2>3
<1>16. CASE AckWrite(e, "ackDataWrite", "loop")
  <2>1. Elsewhere(e)
    BY <1>2, <1>16 DEF AckWrite, Elsewhere, workerVars
  <2>2. wpc[e] = "ackDataWrite" /\ wpc'[e] = "loop" /\ flag'[e] = tmp[e] /\ cmd'[e] = cmd[e]
    BY <1>2, <1>16 DEF AckWrite
  <2>3. EpInv(e)'
    BY <1>1, <1>3, <1>5, <2>1, <2>2 DEF Elsewhere, EpInv, DataToken, CmdToken, Undisturbed, NoError, DataAt, CmdAt, Owed, CmdOwed, Bits
  <2> QED
    BY <2>1, <2>3
<1>17. CASE CopyHead(e)
  <2>1. Elsewhere(e)
    BY <1>2, <1>17 DEF CopyHead, Elsewhere, workerVars
  <2>2. wpc[e] = "putData" /\ wpc'[e] = "look" /\ cmd'[e] = cmd[e] /\ flag'[e] = flag[e]
    BY <1>2, <1>17 DEF CopyHead
  <2>3. EpInv(e)'
    BY <1>1, <1>3, <1>5, <2>1, <2>2 DEF Elsewhere, EpInv, DataToken, CmdToken, Undisturbed, NoError, DataAt, CmdAt, Owed, CmdOwed, Bits
  <2> QED
    BY <2>1, <2>3
<1>18. CASE Drop(e)
  <2>1. Elsewhere(e)
    BY <1>2, <1>18 DEF Drop, Elsewhere, workerVars
  <2>2. wpc[e] = "look" /\ wpc'[e] = "ackData" /\ cmd'[e] = cmd[e] /\ flag'[e] = flag[e]
    BY <1>2, <1>18 DEF Drop
  <2>3. EpInv(e)'
    BY <1>1, <1>3, <1>5, <2>1, <2>2 DEF Elsewhere, EpInv, DataToken, CmdToken, Undisturbed, NoError, DataAt, CmdAt, Owed, CmdOwed, Bits
  <2> QED
    BY <2>1, <2>3
<1>19. CASE Dma(e)
  <2>1. Elsewhere(e)
    BY <1>2, <1>19 DEF Dma, Elsewhere, workerVars
  <2>2. wpc[e] = "look" /\ wpc'[e] = "ackData" /\ cmd'[e] = cmd[e] /\ flag'[e] = flag[e]
    BY <1>2, <1>19 DEF Dma
  <2>3. EpInv(e)'
    BY <1>1, <1>3, <1>5, <2>1, <2>2 DEF Elsewhere, EpInv, DataToken, CmdToken, Undisturbed, NoError, DataAt, CmdAt, Owed, CmdOwed, Bits
  <2> QED
    BY <2>1, <2>3
<1>20. CASE LoopEnd(e)
  <2>1. Elsewhere(e)
    BY <1>2, <1>20 DEF LoopEnd, Elsewhere, workerVars
  <2>2. wpc[e] = "loop" /\ wpc'[e] \in {"idle", "scanCmd"} /\ cmd'[e] = cmd[e] /\ flag'[e] = flag[e]
    BY <1>2, <1>20 DEF LoopEnd
  <2>3. EpInv(e)'
    BY <1>1, <1>3, <1>5, <2>1, <2>2 DEF Elsewhere, EpInv, DataToken, CmdToken, Undisturbed, NoError, DataAt, CmdAt, Owed, CmdOwed, Bits
  <2> QED
    BY <2>1, <2>3
<1>21. CASE RecvData(e) \/ RecvCmd(e)
  <2>1. Elsewhere(e)
    BY <1>21 DEF RecvData, RecvCmd, Elsewhere, workerVars
  <2>2. UNCHANGED <<cmd, flag, wpc, tmp>>
    BY <1>21 DEF RecvData, RecvCmd, workerVars
  <2>3. EpInv(e)'
    BY <1>1, <1>5, <2>1, <2>2 DEF Elsewhere, EpInv, DataToken, CmdToken, Undisturbed, NoError, DataAt, CmdAt, Owed, CmdOwed
  <2> QED
    BY <2>1, <2>3
<1> QED
  BY <1>6, <1>7, <1>8, <1>9, <1>10, <1>11, <1>12, <1>13,
     <1>14, <1>15, <1>16, <1>17, <1>18, <1>19, <1>20, <1>21 DEF Worker

LEMMA LinkInvStep == ASSUME LinkAssumption, Calm, TypeOK, LinkInv, [Next]_vars PROVE LinkInv'
<1>1. CASE Next
  <2>1. /\ ~DataTellFails /\ ~DataTimeout /\ ~CmdTimeout /\ ~CmdTellFails
        /\ \A e \in EPs : ~DmaError(e)
        /\ ~Restart /\ ~RcInit
    BY DEF Calm, DataTellFails, DataTimeout, CmdTellFails, CmdTimeout, DmaError, Restart, RcInit, ClearArea, InitDone,
       LinkInv, RcShape, Starting
  <2> QED
    BY <1>1, <2>1, RcKeeps, EpKeeps DEF Next
<1>2. CASE UNCHANGED vars
  BY <1>2 DEF LinkInv, RcShape, Starting, EpInv, DataToken, CmdToken, Undisturbed, NoError, DataAt, CmdAt, Owed,
     CmdOwed, vars, dataVars, cmdVars, workerVars
<1> QED
  BY <1>1, <1>2

\* The one data area of all the endpoints: as long as nothing fails and one thread
\* sends, the RC never touches payload or head while an endpoint may still read it.
THEOREM LinkAreaExclusive ==
  ASSUME Calm
  PROVE  Spec => []AreaExclusive
<1>1. LinkInv => AreaExclusive
  BY DEF LinkInv, EpInv, DataToken, CmdToken, Undisturbed, NoError, DataAt, CmdAt, Owed, CmdOwed, AreaExclusive, Fetching
<1> QED
  BY <1>1, LinkAssumption, LinkType, LinkInvInit, LinkInvStep, PTL DEF Spec

-----------------------------------------------------------------------------
(* What holds whatever fails.                                              *)

LEMMA AwakeStep == ASSUME TypeOK, AwakeForBits, [Next]_vars PROVE AwakeForBits'
<1> USE DEF At, Goto
<1>1. /\ cmd \in [EPs -> SUBSET Bits] /\ work \in [EPs -> BOOLEAN] /\ wpc \in [EPs -> Places]
      /\ toTell \subseteq EPs
  BY DEF TypeOK, RcTypes, WordTypes, WorkerTypes
<1>2. ASSUME NEW e \in EPs, NEW bit, SendAck(e, bit), wpc' = wpc
      PROVE  AwakeForBits'
  BY <1>1, <1>2 DEF SendAck, AwakeForBits
<1>3. ASSUME UNCHANGED <<cmd, work, wpc>> PROVE AwakeForBits'
  BY <1>3 DEF AwakeForBits
<1>4. ASSUME NEW e \in EPs, wpc'[e] # "idle",
             \A x \in EPs \ {e} : cmd'[x] = cmd[x] /\ work'[x] = work[x] /\ wpc'[x] = wpc[x]
      PROVE  AwakeForBits'
  BY <1>4 DEF AwakeForBits
<1>5. CASE (\E D \in Targets : DataCopy(D)) \/ DataHead \/ DataAcked \/ DataTellFails \/ DataTimeout
           \/ Restart \/ RcInit \/ (\E e \in EPs : CmdCopy(e)) \/ CmdAcked \/ CmdTellFails \/ CmdTimeout
  BY <1>3, <1>5 DEF DataCopy, DataHead, DataAcked, DataTellFails, DataTimeout, Restart, RcInit, ClearArea,
     InitDone, CmdCopy, CmdAcked, CmdTellFails, CmdTimeout, workerVars
<1>6. CASE DataTell
  BY <1>1, <1>2, <1>6 DEF DataTell, First, workerVars
<1>7. CASE CmdTell
  <2>1. \A e \in EPs : work'[e] = IF e = cmdTo THEN TRUE ELSE work[e]
    BY <1>1, <1>7 DEF CmdTell, SendAck
  <2>2. \A e \in EPs : e # cmdTo => cmd'[e] = cmd[e]
    BY <1>1, <1>7 DEF CmdTell, SendAck
  <2> QED
    BY <1>7, <2>1, <2>2 DEF CmdTell, workerVars, AwakeForBits
<1>8. ASSUME NEW e \in EPs, RecvData(e) \/ RecvCmd(e) PROVE AwakeForBits'
  BY <1>3, <1>8 DEF RecvData, RecvCmd, workerVars
<1>9. ASSUME NEW e \in EPs, Worker(e) \/ DmaError(e), ~LoopEnd(e) PROVE AwakeForBits'
  BY <1>1, <1>4, <1>9 DEF Worker, WorkStart, Scan, Clear, PutCmd, AckRead, AckWrite, CopyHead, Drop,
     Dma, DmaError
<1>10. ASSUME NEW e \in EPs, LoopEnd(e) PROVE AwakeForBits'
  <2>1. UNCHANGED <<cmd, work>> /\ (cmd[e] # {} => wpc'[e] # "idle")
    BY <1>1, <1>10 DEF LoopEnd
  <2>2. \A x \in EPs \ {e} : wpc'[x] = wpc[x]
    BY <1>1, <1>10 DEF LoopEnd
  <2> QED
    BY <2>1, <2>2 DEF AwakeForBits
<1>11. CASE UNCHANGED vars
  BY <1>3, <1>11 DEF vars, workerVars
<1> QED
  BY <1>5, <1>6, <1>7, <1>8, <1>9, <1>10, <1>11 DEF Next, RcData, RcCmd

\* A request in cmd is never left without a work item, queued or running, whatever
\* fails and whatever the handler's read-modify-writes lose or bring back.
THEOREM LinkAwake == Spec => []AwakeForBits
<1>1. Init => AwakeForBits
  BY DEF Init, AwakeForBits
<1> QED
  BY <1>1, LinkType, AwakeStep, PTL DEF Spec

\* The payload in the area belongs to the newest send, the heads are older or the same;
\* a restart leaves zeros.
GoodEntries == {x \in Entries : x.payload >= x.head \/ ("restart" \in Faults /\ x.payload = 0)}

AgeInv ==
  /\ area = frame \/ ("restart" \in Faults /\ area = 0)
  /\ "restart" \in Faults \/ ~Starting
  /\ head <= frame
  /\ \A e \in EPs : myHead[e] <= frame
  /\ dataFifo \in [EPs -> Seq(GoodEntries)] /\ got \in [EPs -> Seq(GoodEntries)]

LEMMA AgeStep == ASSUME LinkAssumption, TypeOK, AgeInv, [Next]_vars PROVE AgeInv'
<1> USE DEF At, Goto
<1>1. /\ frame \in 0 .. MaxFrames /\ head \in 0 .. MaxFrames /\ myHead \in [EPs -> 0 .. MaxFrames]
      /\ MaxFrames \in Nat /\ dataFifo \in [EPs -> Seq(GoodEntries)] /\ got \in [EPs -> Seq(GoodEntries)]
  BY DEF TypeOK, RcTypes, WorkerTypes, LinkAssumption, AgeInv
<1>2. ASSUME UNCHANGED <<area, frame, head, myHead, dataFifo, got>>, Starting' => Starting PROVE AgeInv'
  BY <1>2 DEF AgeInv, Starting
<1>3. ASSUME NEW D \in Targets, DataCopy(D) PROVE AgeInv'
  BY <1>1, <1>3 DEF DataCopy, workerVars, fifoVars, AgeInv, Starting
<1>4. CASE DataHead
  BY <1>1, <1>4 DEF DataHead, workerVars, fifoVars, AgeInv, Starting
<1>a. CASE Restart \/ RcInit
  <2>1. /\ "restart" \in Faults
        /\ UNCHANGED <<frame, myHead, dataFifo, got>>
        /\ area' \in {area, 0} /\ head' \in {head, 0}
    BY <1>a DEF Restart, RcInit, ClearArea, InitDone, ClearHead, Starting, AgeInv, workerVars, fifoVars
  <2> QED
    BY <1>1, <2>1 DEF AgeInv
<1>5. CASE DataTell \/ DataAcked \/ DataTellFails \/ DataTimeout
           \/ (\E e \in EPs : CmdCopy(e)) \/ RcCmd \/ CmdTellFails \/ CmdTimeout
  BY <1>2, <1>5 DEF DataTell, DataAcked, DataTellFails, DataTimeout, DataReturn, CmdCopy, RcCmd, CmdTell,
     CmdAcked, CmdTellFails, CmdTimeout, workerVars, fifoVars, dataVars, areaVars, Starting
<1>6. ASSUME NEW e \in EPs, (Worker(e) /\ ~CopyHead(e) /\ ~Dma(e)) \/ DmaError(e) \/ RecvCmd(e)
      PROVE  AgeInv'
  BY <1>2, <1>6 DEF Worker, WorkStart, Scan, Clear, PutCmd, AckRead, AckWrite, Drop, LoopEnd, DmaError,
     RecvCmd, rcVars, dataVars, areaVars, workerVars, fifoVars, Starting
<1>7. ASSUME NEW e \in EPs, CopyHead(e) PROVE AgeInv'
  BY <1>1, <1>7 DEF CopyHead, rcVars, dataVars, areaVars, fifoVars, AgeInv, Starting
<1>8. ASSUME NEW e \in EPs, Dma(e) PROVE AgeInv'
  <2> DEFINE entry == [head |-> myHead[e], payload |-> area]
  <2>1. entry \in GoodEntries
    BY <1>1 DEF AgeInv, Entries, GoodEntries
  <2>2. dataFifo' = [dataFifo EXCEPT ![e] = Append(dataFifo[e], entry)]
    BY <1>8 DEF Dma
  <2>3. UNCHANGED <<dpc, area, frame, head, myHead, got>>
    BY <1>8 DEF Dma, rcVars, dataVars, areaVars
  <2> HIDE DEF entry
  <2>4. Append(dataFifo[e], entry) \in Seq(GoodEntries)
    BY <1>1, <2>1
  <2> QED
    BY <1>1, <2>2, <2>3, <2>4 DEF AgeInv, Starting
<1>9. ASSUME NEW e \in EPs, RecvData(e) PROVE AgeInv'
  <2>1. Tail(dataFifo[e]) \in Seq(GoodEntries) /\ Append(got[e], Head(dataFifo[e])) \in Seq(GoodEntries)
    BY <1>1, <1>9 DEF RecvData
  <2>2. UNCHANGED <<dpc, area, frame, head, myHead>>
    BY <1>9 DEF RecvData, rcVars, dataVars, areaVars, workerVars
  <2> QED
    BY <1>1, <1>9, <2>1, <2>2 DEF RecvData, AgeInv, Starting
<1>10. CASE UNCHANGED vars
  BY <1>2, <1>10 DEF vars, dataVars, areaVars, workerVars, fifoVars, Starting
<1> QED
  BY <1>3, <1>4, <1>a, <1>5, <1>6, <1>7, <1>8, <1>9, <1>10 DEF Next, RcData

\* Whatever fails, and with two sending threads, a payload is never older than the head
\* it is delivered with; a restarted RC may put zeros in its place.
THEOREM LinkNeverOlder == Spec => []NeverOlder
<1>1. Init => AgeInv
  BY DEF Init, AgeInv, Starting
<1>2. AgeInv => NeverOlder
  <2> SUFFICES ASSUME AgeInv, NEW e \in EPs, NEW i \in DOMAIN Log(e)
               PROVE  \/ Log(e)[i].payload >= Log(e)[i].head
                      \/ "restart" \in Faults /\ Log(e)[i].payload = 0
    BY DEF NeverOlder
  <2>1. Log(e) \in Seq(GoodEntries)
    BY DEF AgeInv, Log
  <2>2. Log(e)[i] \in GoodEntries
    BY <2>1
  <2> QED
    BY <2>2 DEF GoodEntries
<1> QED
  BY <1>1, <1>2, LinkAssumption, LinkType, AgeStep, PTL DEF Spec
-----------------------------------------------------------------------------
(* What the endpoints receive: every frame and every command once and in   *)
(* order, the frames whole, and a reported success is one, on top of the   *)
(* exclusive use of the data area.                                         *)


\* A payload, its head and the frame number agree while endpoints fetch; what an
\* endpoint has is older than the frame it still has to fetch.
Fresh(e) == dpc = "head" \/ (dpc = "tell" /\ e \in toTell) \/ Fetching(e)

LogInv(e) ==
  /\ \A i \in DOMAIN Log(e) : /\ Log(e)[i].payload = Log(e)[i].head
                              /\ Log(e)[i].head <= frame
                              /\ Fresh(e) => Log(e)[i].head < frame
  /\ \A i, j \in DOMAIN Log(e) : i < j => Log(e)[i].head < Log(e)[j].head

FrameInv ==
  /\ dpc # "idle" => area = frame
  /\ dpc \in {"tell", "wait"} => head = frame
  /\ \A e \in EPs : (wpc[e] = "look" => myHead[e] = frame) /\ LogInv(e)

\* A frame that moves from the FIFO to the application stays where it is in the log.
LEMMA HeadMoves ==
  ASSUME NEW S, NEW s \in Seq(S), NEW t \in Seq(S), t # <<>>
  PROVE  Append(s, Head(t)) \o Tail(t) = s \o t
<1>1. Head(t) \in S /\ Tail(t) \in Seq(S) /\ <<Head(t)>> \in Seq(S)
  BY HeadTailProperties
<1>2. <<Head(t)>> \o Tail(t) = t
  <2>1. Len(<<Head(t)>> \o Tail(t)) = Len(t)
    BY <1>1, ConcatProperties, HeadTailProperties, EmptySeq
  <2>2. \A i \in 1 .. Len(t) : (<<Head(t)>> \o Tail(t))[i] = t[i]
    BY <1>1, ConcatProperties, HeadTailProperties, EmptySeq
  <2>3. <<Head(t)>> \o Tail(t) \in Seq(S)
    BY <1>1, ConcatProperties
  <2> QED
    BY <2>1, <2>2, <2>3, SeqEqual
<1>3. Append(s, Head(t)) = s \o <<Head(t)>>
  BY <1>1, AppendIsConcat
<1> QED
  BY <1>1, <1>2, <1>3, ConcatAssociative, SMTT(30)

LEMMA AppendLog ==
  ASSUME NEW S, NEW s \in Seq(S), NEW t \in Seq(S), NEW x \in S
  PROVE  s \o Append(t, x) = Append(s \o t, x)
<1>1. <<x>> \in Seq(S) /\ s \o t \in Seq(S)
  BY ConcatProperties
<1> QED
  BY <1>1, AppendIsConcat, ConcatAssociative

LEMMA LogType ==
  ASSUME LinkAssumption, TypeOK, NEW e \in EPs
  PROVE  Log(e) \in Seq(Entries) /\ \A i \in DOMAIN Log(e) : Log(e)[i].head \in Nat
<1>1. Log(e) \in Seq(Entries)
  BY DEF TypeOK, FifoTypes, Log
<1>2. ASSUME NEW i \in DOMAIN Log(e) PROVE Log(e)[i].head \in Nat
  <2>1. Log(e)[i] \in Entries
    BY <1>1, <1>2, ElementOfSeq, LenProperties
  <2> QED
    BY <2>1, LinkAssumption DEF Entries, LinkAssumption
<1> QED
  BY <1>1, <1>2

\* A step that neither adds to the log nor makes the endpoint fetch again.
LEMMA LogKept ==
  ASSUME NEW e \in EPs, LogInv(e), Log(e)' = Log(e), frame' = frame, Fresh(e)' => Fresh(e)
  PROVE  LogInv(e)'
  BY DEF LogInv

LEMMA RcFrames ==
  ASSUME Calm, LinkAssumption, TypeOK, LinkInv, FrameInv,
         (\E D \in Targets : DataCopy(D)) \/ RcData \/ (\E e \in EPs : CmdCopy(e)) \/ RcCmd
  PROVE  FrameInv'
<1>1. RcShape /\ (\A e \in EPs : EpInv(e)) /\ (\A e \in EPs : LogInv(e))
  BY DEF LinkInv, FrameInv
<1>2. frame \in Nat /\ cmd \in [EPs -> SUBSET Bits] /\ toTell \subseteq dest
  BY LinkAssumption DEF TypeOK, RcTypes, WordTypes
<1>3. \A e \in EPs : Log(e)' = Log(e) /\ wpc'[e] = wpc[e] /\ myHead'[e] = myHead[e]
  BY DEF DataCopy, RcData, DataHead, DataTell, DataAcked, CmdCopy, RcCmd, CmdTell, CmdAcked,
     workerVars, fifoVars, Log
<1>4. ASSUME frame' = frame, \A e \in EPs : Fresh(e)' => Fresh(e),
             dpc' # "idle" => area' = frame', dpc' \in {"tell", "wait"} => head' = frame'
      PROVE  FrameInv'
  BY <1>1, <1>3, <1>4, LogKept DEF FrameInv
<1>5. CASE \E D \in Targets : DataCopy(D)
  <2>1. dpc = "idle" /\ frame' = frame + 1 /\ area' = frame' /\ dpc' = "head"
    BY <1>5 DEF DataCopy
  <2>2. ASSUME NEW e \in EPs PROVE (wpc[e] = "look" => myHead[e] = frame)' /\ LogInv(e)'
    <3>1. wpc[e] # "look"
      BY <1>1, <2>1 DEF EpInv, DataToken, DataAt, Owed
    <3>2. \A i \in DOMAIN Log(e) : Log(e)[i].head \in Nat
      BY LogType
    <3>3. LogInv(e)'
      <4>1. LogInv(e) /\ Log(e)' = Log(e)
        BY <1>1, <1>3
      <4> QED
        BY <1>2, <2>1, <3>2, <4>1 DEF LogInv
    <3> QED
      BY <1>3, <3>1, <3>3
  <2> QED
    BY <2>1, <2>2 DEF FrameInv
<1>6. CASE DataHead
  BY <1>4, <1>6 DEF DataHead, Fresh, FrameInv
<1>7. CASE DataTell
  <2>1. PICK t \in First(toTell) : SendAck(t, "SEND_DATA") /\ toTell' = toTell \ {t}
    BY <1>7 DEF DataTell
  <2>2. \A e \in EPs : e # t => cmd'[e] = cmd[e]
    BY <1>2, <2>1 DEF SendAck
  <2>3. \A e \in EPs : Fresh(e)' => Fresh(e)
    BY <1>3, <1>7, <2>1, <2>2 DEF DataTell, Fresh, Fetching, First
  <2> QED
    BY <1>4, <1>7, <2>3 DEF DataTell, areaVars, FrameInv
<1>8. CASE DataAcked
  <2>1. dpc' \in {"idle", "wait"} /\ dpc = "wait"
    BY <1>8 DEF DataAcked, DataReturn
  <2>2. \A e \in EPs : Fresh(e)' => Fresh(e)
    BY <1>3, <1>8, <2>1 DEF DataAcked, Fresh, Fetching
  <2> QED
    BY <1>4, <1>8, <2>1, <2>2 DEF DataAcked, areaVars, FrameInv
<1>9. CASE (\E e \in EPs : CmdCopy(e)) \/ CmdAcked
  <2>1. UNCHANGED <<dpc, toTell, frame, areaVars, cmd>>
    BY <1>9 DEF CmdCopy, CmdAcked, dataVars
  <2>2. \A e \in EPs : Fresh(e)' => Fresh(e)
    BY <1>3, <2>1 DEF Fresh, Fetching
  <2> QED
    BY <1>4, <2>1, <2>2 DEF areaVars, FrameInv
<1>10. CASE CmdTell
  <2>1. UNCHANGED <<dpc, toTell, frame, areaVars>>
    BY <1>10 DEF CmdTell, dataVars
  <2>2. \A e \in EPs : "SEND_DATA" \in cmd'[e] => "SEND_DATA" \in cmd[e]
    BY <1>2, <1>10 DEF CmdTell, SendAck
  <2>3. \A e \in EPs : Fresh(e)' => Fresh(e)
    BY <1>3, <2>1, <2>2 DEF Fresh, Fetching
  <2> QED
    BY <1>4, <2>1, <2>3 DEF areaVars, FrameInv
<1> QED
  BY <1>5, <1>6, <1>7, <1>8, <1>9, <1>10 DEF RcData, RcCmd

\* What the DMA adds to a log, and that receiving takes nothing from it.
LEMMA DmaLog ==
  ASSUME TypeOK, NEW e \in EPs, Dma(e)
  PROVE  /\ [head |-> myHead[e], payload |-> area] \in Entries
         /\ Log(e)' = Append(Log(e), [head |-> myHead[e], payload |-> area])
<1> DEFINE entry == [head |-> myHead[e], payload |-> area]
<1>1. entry \in Entries
  BY DEF Entries, TypeOK, RcTypes, WorkerTypes
<1>2. dataFifo[e] \in Seq(Entries) /\ got[e] \in Seq(Entries)
  BY DEF TypeOK, FifoTypes
<1>3. dataFifo'[e] = Append(dataFifo[e], entry) /\ got' = got
  BY DEF TypeOK, FifoTypes, Dma
<1> HIDE DEF entry
<1>4. Log(e)' = Append(Log(e), entry)
  <2>1. \A s, t \in Seq(Entries) : \A x \in Entries : s \o Append(t, x) = Append(s \o t, x)
    BY AppendLog
  <2>2. got[e] \o Append(dataFifo[e], entry) = Append(got[e] \o dataFifo[e], entry)
    BY <1>1, <1>2, <2>1
  <2> QED
    BY <1>3, <2>2 DEF Log
<1> QED
  BY <1>1, <1>4 DEF entry

LEMMA RecvLog ==
  ASSUME TypeOK, NEW e \in EPs, RecvData(e)
  PROVE  Log(e)' = Log(e)
<1>1. dataFifo[e] # <<>> /\ dataFifo[e] \in Seq(Entries) /\ got[e] \in Seq(Entries)
  BY DEF TypeOK, FifoTypes, RecvData
<1>2. dataFifo'[e] = Tail(dataFifo[e]) /\ got'[e] = Append(got[e], Head(dataFifo[e]))
  BY DEF TypeOK, FifoTypes, RecvData
<1>3. Append(got[e], Head(dataFifo[e])) \o Tail(dataFifo[e]) = got[e] \o dataFifo[e]
  BY <1>1, HeadMoves
<1> QED
  BY <1>2, <1>3 DEF Log

\* What an endpoint's step does to what the endpoints have and still fetch.
LEMMA EpFrames ==
  ASSUME Calm, LinkAssumption, TypeOK, LinkInv, FrameInv, NEW e \in EPs,
         Worker(e) \/ RecvData(e) \/ RecvCmd(e)
  PROVE  FrameInv'
<1> USE DEF Goto, At
<1>1. EpInv(e) /\ LogInv(e)
  BY DEF LinkInv, FrameInv
<1>2. /\ cmd \in [EPs -> SUBSET Bits] /\ wpc \in [EPs -> Places] /\ myHead \in [EPs -> 0 .. MaxFrames]
      /\ dataFifo \in [EPs -> Seq(Entries)] /\ got \in [EPs -> Seq(Entries)]
  BY DEF TypeOK, WordTypes, WorkerTypes, FifoTypes
<1>3. UNCHANGED rcVars => UNCHANGED <<dpc, toTell, frame, area, head>>
  BY DEF rcVars, dataVars, areaVars
<1> DEFINE Others == \A x \in EPs \ {e} : /\ cmd'[x] = cmd[x] /\ wpc'[x] = wpc[x] /\ myHead'[x] = myHead[x]
                                         /\ dataFifo'[x] = dataFifo[x] /\ got'[x] = got[x]
<1>4. ASSUME UNCHANGED rcVars, Others, (wpc[e] = "look" => myHead[e] = frame)', LogInv(e)'
      PROVE  FrameInv'
  <2>1. ASSUME NEW x \in EPs \ {e} PROVE (wpc[x] = "look" => myHead[x] = frame)' /\ LogInv(x)'
    <3>1. LogInv(x) /\ (wpc[x] = "look" => myHead[x] = frame)
      BY DEF FrameInv
    <3>2. Log(x)' = Log(x) /\ (Fresh(x)' => Fresh(x))
      BY <1>3, <1>4 DEF Log, Fresh, Fetching
    <3> QED
      BY <1>3, <1>4, <3>1, <3>2, LogKept
  <2> QED
    BY <1>3, <1>4, <2>1 DEF FrameInv
<1>5. UNCHANGED rcVars /\ Others
  BY <1>2 DEF Worker, WorkStart, Scan, Clear, PutCmd, AckRead, AckWrite, CopyHead, Drop, Dma, LoopEnd,
     RecvData, RecvCmd, fifoVars, workerVars
<1>6. ASSUME wpc'[e] # "look", Log(e)' = Log(e), Fetching(e)' => Fetching(e)
      PROVE  FrameInv'
  <2>1. Fresh(e)' => Fresh(e)
    BY <1>3, <1>5, <1>6 DEF Fresh
  <2> QED
    BY <1>1, <1>3, <1>4, <1>5, <1>6, <2>1, LogKept
<1>7. CASE \/ WorkStart(e) \/ PutCmd(e) \/ Drop(e) \/ LoopEnd(e)
           \/ AckRead(e, "ackCmd", {"CMD_ACK"}, "ackCmdWrite")
           \/ AckRead(e, "ackData", {"DATA_ACK"}, "ackDataWrite")
           \/ AckRead(e, "ackErr", {"DATA_ACK", "DATA_ERR"}, "ackDataWrite")
           \/ AckWrite(e, "ackCmdWrite", "scanData") \/ AckWrite(e, "ackDataWrite", "loop")
  <2>1. Log(e)' = Log(e) /\ cmd' = cmd
    BY <1>7 DEF WorkStart, PutCmd, Drop, LoopEnd, AckRead, AckWrite, fifoVars, Log
  <2>2. wpc'[e] \in {"scanCmd", "ackCmd", "ackData", "idle", "ackCmdWrite", "ackDataWrite", "scanData", "loop"}
    BY <1>2, <1>7 DEF WorkStart, PutCmd, Drop, LoopEnd, AckRead, AckWrite
  <2> QED
    BY <1>6, <2>1, <2>2 DEF Fetching
<1>8. CASE \/ Scan(e, "scanCmd", "SEND_CMD", "clearCmd", "scanData")
           \/ Scan(e, "scanData", "SEND_DATA", "clearData", "loop")
  <2>1. Log(e)' = Log(e) /\ cmd' = cmd
    BY <1>8 DEF Scan, fifoVars, Log
  <2>2. wpc'[e] \in {"clearCmd", "scanData", "clearData", "loop"} /\ (wpc'[e] = "clearData" => "SEND_DATA" \in cmd[e])
    BY <1>2, <1>8 DEF Scan
  <2> QED
    BY <1>6, <2>1, <2>2 DEF Fetching
<1>9. CASE Clear(e, "clearCmd", "putCmd")
  <2>1. Log(e)' = Log(e) /\ cmd'[e] = tmp[e] /\ wpc[e] = "clearCmd" /\ wpc'[e] = "putCmd"
    BY <1>2, <1>9 DEF Clear, fifoVars, Log
  <2>2. Fetching(e)' => Fetching(e)
    BY <1>1, <2>1 DEF Fetching, EpInv, Undisturbed
  <2> QED
    BY <1>6, <2>1, <2>2
<1>10. CASE Clear(e, "clearData", "putData")
  <2>1. Log(e)' = Log(e) /\ wpc[e] = "clearData" /\ wpc'[e] = "putData"
    BY <1>2, <1>10 DEF Clear, fifoVars, Log
  <2> QED
    BY <1>6, <2>1 DEF Fetching
<1>11. CASE CopyHead(e)
  <2>1. /\ Log(e)' = Log(e) /\ cmd' = cmd /\ wpc[e] = "putData" /\ wpc'[e] = "look"
        /\ myHead'[e] = head
    BY <1>2, <1>11 DEF CopyHead, fifoVars, Log
  <2>2. head = frame
    BY <1>1, <2>1 DEF EpInv, DataToken, DataAt, Owed, FrameInv
  <2>3. Fresh(e)' => Fresh(e)
    BY <1>3, <1>5, <2>1 DEF Fresh, Fetching
  <2> QED
    BY <1>1, <1>3, <1>4, <1>5, <2>1, <2>2, <2>3, LogKept
<1>12. CASE Dma(e)
  <2> DEFINE entry == [head |-> myHead[e], payload |-> area]
  <2>1. wpc[e] = "look" /\ wpc'[e] = "ackData" /\ UNCHANGED <<cmd, myHead, got>>
    BY <1>2, <1>12 DEF Dma
  <2>3. Owed(e) /\ "SEND_DATA" \notin cmd[e]
    BY <1>1, <2>1 DEF EpInv, DataToken, DataAt
  <2>4. myHead[e] = frame /\ area = frame
    BY <2>1, <2>3 DEF FrameInv, Owed
  <2>5. entry.head = frame /\ entry.payload = frame
    BY <2>4
  <2>6. entry \in Entries /\ Log(e)' = Append(Log(e), entry)
    BY <1>12, DmaLog
  <2> HIDE DEF entry
  <2>7. ~Fresh(e)' /\ Fresh(e)
    BY <1>3, <1>5, <2>1, <2>3 DEF Fresh, Fetching, Owed
  <2>8. frame \in Nat /\ frame' = frame
    BY <1>3, <1>5, LinkAssumption DEF TypeOK, RcTypes, LinkAssumption
  <2>9. LogInv(e)'
    <3>1. /\ Len(Append(Log(e), entry)) = Len(Log(e)) + 1
          /\ \A i \in 1 .. Len(Log(e)) : Append(Log(e), entry)[i] = Log(e)[i]
          /\ Append(Log(e), entry)[Len(Log(e)) + 1] = entry
          /\ DOMAIN Append(Log(e), entry) = 1 .. Len(Append(Log(e), entry))
          /\ DOMAIN Log(e) = 1 .. Len(Log(e)) /\ Len(Log(e)) \in Nat
      BY <2>6, LogType, AppendProperties, LenProperties
    <3>2. \A i \in 1 .. Len(Log(e)) : /\ Log(e)[i].payload = Log(e)[i].head
                                     /\ Log(e)[i].head \in Nat /\ Log(e)[i].head < frame
      BY <1>1, <2>7, <3>1, LogType DEF LogInv
    <3>3. \A i, j \in 1 .. Len(Log(e)) : i < j => Log(e)[i].head < Log(e)[j].head
      BY <1>1, <3>1 DEF LogInv
    <3> DEFINE new == Append(Log(e), entry)
    <3>4. ASSUME NEW i \in DOMAIN new
          PROVE  new[i].payload = new[i].head /\ new[i].head <= frame
      <4>1. i \in 1 .. Len(Log(e)) \/ i = Len(Log(e)) + 1
        BY <3>1, <3>4
      <4> QED
        BY <2>5, <2>8, <3>1, <3>2, <4>1
    <3>5. ASSUME NEW i \in DOMAIN new, NEW j \in DOMAIN new, i < j
          PROVE  new[i].head < new[j].head
      <4>1. i \in 1 .. Len(Log(e)) /\ (j \in 1 .. Len(Log(e)) \/ j = Len(Log(e)) + 1)
        BY <3>1, <3>5
      <4> QED
        BY <2>5, <3>1, <3>2, <3>3, <3>5, <4>1
    <3> HIDE DEF new
    <3>6. Log(e)' = new
      BY <2>6 DEF new
    <3> QED
      BY <2>7, <2>8, <3>4, <3>5, <3>6 DEF LogInv
  <2> QED
    BY <1>4, <1>5, <2>1, <2>9
<1>13. CASE RecvData(e)
  <2>2. Log(e)' = Log(e)
    BY <1>13, RecvLog
  <2>3. UNCHANGED <<cmd, wpc, myHead>>
    BY <1>13 DEF RecvData, workerVars
  <2>4. Fresh(e)' => Fresh(e)
    BY <1>3, <1>5, <2>3 DEF Fresh, Fetching
  <2>5. (wpc[e] = "look" => myHead[e] = frame)'
    BY <1>3, <1>5, <2>3 DEF FrameInv
  <2> QED
    BY <1>1, <1>3, <1>4, <1>5, <2>2, <2>4, <2>5, LogKept
<1>14. CASE RecvCmd(e)
  <2>1. UNCHANGED <<cmd, wpc, myHead, dataFifo, got>>
    BY <1>14 DEF RecvCmd, workerVars
  <2>2. Log(e)' = Log(e) /\ (Fresh(e)' => Fresh(e))
    BY <1>3, <1>5, <2>1 DEF Fresh, Fetching, Log
  <2>3. (wpc[e] = "look" => myHead[e] = frame)'
    BY <1>3, <1>5, <2>1 DEF FrameInv
  <2> QED
    BY <1>1, <1>3, <1>4, <1>5, <2>2, <2>3, LogKept
<1> QED
  BY <1>7, <1>8, <1>9, <1>10, <1>11, <1>12, <1>13, <1>14 DEF Worker

\* Without faults no step but these is possible.
LEMMA CalmSteps ==
  ASSUME Calm, LinkInv, Next
  PROVE  \/ (\E D \in Targets : DataCopy(D)) \/ RcData \/ (\E e \in EPs : CmdCopy(e)) \/ RcCmd
         \/ \E e \in EPs : Worker(e) \/ RecvData(e) \/ RecvCmd(e)
<1>1. /\ ~DataTellFails /\ ~DataTimeout /\ ~CmdTimeout /\ ~CmdTellFails
      /\ \A e \in EPs : ~DmaError(e)
      /\ ~Restart /\ ~RcInit
  BY DEF Calm, DataTellFails, DataTimeout, CmdTellFails, CmdTimeout, DmaError, Restart, RcInit, ClearArea, InitDone,
     LinkInv, RcShape, Starting
<1> QED
  BY <1>1 DEF Next

LEMMA FrameInvInit == Init => FrameInv
<1> SUFFICES ASSUME Init PROVE FrameInv
  OBVIOUS
<1>1. \A e \in EPs : Log(e) = <<>> /\ wpc[e] = "idle"
  BY DEF Init, Log
<1>2. \A e \in EPs : LogInv(e)
  BY <1>1 DEF LogInv
<1> QED
  BY <1>1, <1>2 DEF Init, FrameInv

LEMMA FrameInvStep ==
  ASSUME LinkAssumption, Calm, TypeOK, LinkInv, FrameInv, [Next]_vars
  PROVE  FrameInv'
<1>1. CASE Next
  BY <1>1, CalmSteps, RcFrames, EpFrames
<1>2. CASE UNCHANGED vars
  <2>1. UNCHANGED <<dpc, toTell, frame, area, head, cmd, wpc, myHead, dataFifo, got>>
    BY <1>2 DEF vars, dataVars, areaVars, workerVars, fifoVars
  <2>2. \A e \in EPs : Log(e)' = Log(e) /\ (Fresh(e)' => Fresh(e)) /\ LogInv(e)
    BY <2>1 DEF Log, Fresh, Fetching, FrameInv
  <2> QED
    BY <2>1, <2>2, LogKept DEF FrameInv
<1> QED
  BY <1>1, <1>2

\* As long as nothing fails and one thread sends, no endpoint ever gets a payload that
\* is not its head's, nor a frame twice or out of order, however slow the endpoints
\* and their applications are.
THEOREM LinkIntact ==
  ASSUME Calm
  PROVE  Spec => []Intact
<1>1. FrameInv => Intact
  BY DEF FrameInv, LogInv, Intact
<1> QED
  BY <1>1, LinkAssumption, LinkType, LinkInvInit, LinkInvStep, FrameInvInit, FrameInvStep, PTL DEF Spec

-----------------------------------------------------------------------------
(* What the return values are worth.                                       *)

Handled(e) == Has(e, frame) \/ frame \in dropped[e]

\* An acknowledgement, on its way or there, is that of a handled frame; so is one
\* the running send has taken.
AckInv ==
  /\ \A e \in EPs :
       wpc[e] \in {"ackData", "ackDataWrite"} \/ "DATA_ACK" \in flag[e] => Handled(e)
  /\ dpc = "wait" => \A e \in dest \ toWait : Handled(e)

OkInv ==
  /\ \A f \in Frames : f > frame => result[f] = "none"
  /\ frame \in Frames /\ result[frame] = "ok" => \A e \in dest : Handled(e)

\* A frame that is in the log, or was dropped, stays so.
LEMMA HandledStays ==
  ASSUME NEW e \in EPs, Log(e)' = Log(e), dropped[e] \subseteq dropped'[e], frame' = frame
  PROVE  Handled(e) => Handled(e)'
  BY DEF Handled, Has

LEMMA RcOk ==
  ASSUME Calm, LinkAssumption, TypeOK, LinkInv, AckInv, OkInv,
         (\E D \in Targets : DataCopy(D)) \/ RcData \/ (\E e \in EPs : CmdCopy(e)) \/ RcCmd
  PROVE  AckInv' /\ OkInv'
<1>1. RcShape /\ (\A e \in EPs : EpInv(e)) /\ RcTypes /\ flag \in [EPs -> SUBSET Acks]
  BY DEF LinkInv, TypeOK, WordTypes
<1>2. UNCHANGED <<wpc, dropped>> /\ \A e \in EPs : Log(e)' = Log(e)
  BY DEF DataCopy, RcData, DataHead, DataTell, DataAcked, CmdCopy, RcCmd, CmdTell, CmdAcked,
     workerVars, fifoVars, Log
<1>3. frame' = frame => \A e \in EPs : Handled(e) => Handled(e)'
  BY <1>2, HandledStays
<1>4. ASSUME UNCHANGED <<frame, dest, toWait, result>>, dpc' = dpc \/ dpc' # "wait",
             \A e \in EPs : "DATA_ACK" \in flag'[e] => "DATA_ACK" \in flag[e]
      PROVE  AckInv' /\ OkInv'
  <2>1. dest \subseteq EPs
    BY <1>1 DEF RcTypes
  <2> QED
    BY <1>2, <1>3, <1>4, <2>1 DEF AckInv, OkInv
<1>5. CASE \E D \in Targets : DataCopy(D)
  <2>1. /\ dpc = "idle" /\ dpc' = "head" /\ frame' = frame + 1 /\ frame < MaxFrames
        /\ UNCHANGED <<flag, result>>
    BY <1>5 DEF DataCopy
  <2>2. \A e \in EPs : wpc[e] \notin {"ackData", "ackDataWrite"} /\ "DATA_ACK" \notin flag[e]
    BY <1>1, <2>1 DEF EpInv, DataToken, DataAt, Owed
  <2>3. AckInv'
    BY <1>2, <2>1, <2>2 DEF AckInv
  <2>4. result[frame + 1] = "none" /\ \A f \in Frames : f > frame + 1 => result[f] = "none"
    BY <1>1, <2>1, LinkAssumption DEF OkInv, RcTypes, Frames, LinkAssumption
  <2>5. OkInv'
    BY <2>1, <2>4 DEF OkInv
  <2> QED
    BY <2>3, <2>5
<1>6. CASE DataHead
  BY <1>4, <1>6 DEF DataHead
<1>7. CASE DataTell
  <2>1. UNCHANGED <<frame, dest, toWait, result, flag>> /\ dpc = "tell" /\ toWait = dest
    BY <1>1, <1>7 DEF DataTell, RcShape
  <2>2. AckInv'
    BY <1>2, <1>3, <2>1 DEF AckInv
  <2>3. OkInv'
    BY <1>1, <1>3, <2>1 DEF OkInv, RcTypes
  <2> QED
    BY <2>2, <2>3
<1>8. CASE DataAcked
  <2>1. PICK t \in First(toWait) :
          /\ "DATA_ACK" \in flag[t]
          /\ TakeAck(t, {"DATA_ACK", "DATA_ERR"})
          /\ toWait' = toWait \ {t}
          /\ IF "DATA_ERR" \in flag[t] THEN DataReturn("error")
             ELSE IF toWait' = {} THEN DataReturn("ok")
             ELSE UNCHANGED <<dpc, result>>
    BY <1>8 DEF DataAcked
  <2>2. t \in toWait /\ t \in EPs /\ dest \subseteq EPs /\ toWait \subseteq dest
    BY <1>1 DEF First, RcTypes
  <2>3. "DATA_ERR" \notin flag[t] /\ Handled(t)
    BY <1>1, <2>1, <2>2 DEF EpInv, NoError, AckInv
  <2>4. dpc = "wait" /\ UNCHANGED <<frame, dest>>
    BY <1>8 DEF DataAcked
  <2>5. \A e \in dest \ toWait' : Handled(e)
    BY <2>1, <2>3, <2>4 DEF AckInv
  <2>6. \A e \in EPs : "DATA_ACK" \in flag'[e] => "DATA_ACK" \in flag[e]
    BY <1>1, <2>1 DEF TakeAck
  <2>7. AckInv'
    BY <1>2, <1>3, <2>2, <2>4, <2>5, <2>6 DEF AckInv
  <2>8. \/ toWait' = {} /\ result' = [result EXCEPT ![frame] = "ok"]
        \/ result' = result
    BY <2>1, <2>3 DEF DataReturn
  <2>9. OkInv'
    <3>1. CASE result' = result
      BY <1>1, <1>3, <2>4, <3>1 DEF OkInv, RcTypes
    <3>2. CASE toWait' = {} /\ result' = [result EXCEPT ![frame] = "ok"]
      <4>1. \A e \in dest : Handled(e)'
        BY <1>3, <2>2, <2>4, <2>5, <3>2
      <4>2. \A f \in Frames : f > frame => result'[f] = result[f]
        BY <1>1, <3>2, LinkAssumption DEF RcTypes, Frames, LinkAssumption
      <4> QED
        BY <2>4, <4>1, <4>2 DEF OkInv
    <3> QED
      BY <2>8, <3>1, <3>2
  <2> QED
    BY <2>7, <2>9
<1>9. CASE (\E e \in EPs : CmdCopy(e)) \/ CmdTell
  BY <1>4, <1>9 DEF CmdCopy, CmdTell, dataVars
<1>10. CASE CmdAcked
  <2>1. \A e \in EPs : "DATA_ACK" \in flag'[e] => "DATA_ACK" \in flag[e]
    BY <1>1, <1>10 DEF CmdAcked, TakeAck
  <2> QED
    BY <1>4, <1>10, <2>1 DEF CmdAcked, dataVars
<1> QED
  BY <1>5, <1>6, <1>7, <1>8, <1>9, <1>10 DEF RcData, RcCmd

\* A step that puts x at the end of a log keeps what is there.
LEMMA AppendHas ==
  ASSUME NEW S, NEW s \in Seq(S), NEW x \in S
  PROVE  /\ \A i \in DOMAIN s : i \in DOMAIN Append(s, x) /\ Append(s, x)[i] = s[i]
         /\ Len(s) + 1 \in DOMAIN Append(s, x) /\ Append(s, x)[Len(s) + 1] = x
         /\ \A i \in DOMAIN Append(s, x) : i \in DOMAIN s \/ i = Len(s) + 1
         /\ \A i \in DOMAIN s : i \in Nat /\ i < Len(s) + 1
OBVIOUS

LEMMA EpOk ==
  ASSUME Calm, LinkAssumption, TypeOK, LinkInv, FrameInv, AckInv, OkInv, NEW e \in EPs,
         Worker(e) \/ RecvData(e) \/ RecvCmd(e)
  PROVE  AckInv' /\ OkInv'
<1> USE DEF Goto, At
<1>1. EpInv(e) /\ (wpc[e] = "look" => myHead[e] = frame) /\ dest \subseteq EPs
  BY DEF LinkInv, FrameInv, TypeOK, RcTypes
<1>2. /\ flag \in [EPs -> SUBSET Acks] /\ wpc \in [EPs -> Places]
      /\ dropped \in [EPs -> SUBSET (0 .. MaxFrames)]
      /\ dataFifo \in [EPs -> Seq(Entries)] /\ got \in [EPs -> Seq(Entries)]
  BY DEF TypeOK, WordTypes, WorkerTypes, FifoTypes
<1>3. UNCHANGED <<dpc, frame, dest, toWait, result>>
  BY DEF Worker, WorkStart, Scan, Clear, PutCmd, AckRead, AckWrite, CopyHead, Drop, Dma, LoopEnd,
     RecvData, RecvCmd, rcVars, dataVars
<1>4. \A x \in EPs \ {e} : /\ flag'[x] = flag[x] /\ wpc'[x] = wpc[x] /\ dropped'[x] = dropped[x]
                           /\ Log(x)' = Log(x)
  BY <1>2 DEF Worker, WorkStart, Scan, Clear, PutCmd, AckRead, AckWrite, CopyHead, Drop, Dma, LoopEnd,
     RecvData, RecvCmd, fifoVars, workerVars, Log
<1>5. \A x \in EPs \ {e} : Handled(x) => Handled(x)'
  BY <1>3, <1>4, HandledStays
<1>6. ASSUME Handled(e) => Handled(e)',
             wpc'[e] \in {"ackData", "ackDataWrite"} \/ "DATA_ACK" \in flag'[e] => Handled(e)'
      PROVE  AckInv' /\ OkInv'
  BY <1>1, <1>3, <1>4, <1>5, <1>6 DEF AckInv, OkInv
<1>7. CASE Drop(e)
  <2>1. wpc[e] = "look" /\ dropped'[e] = dropped[e] \cup {frame}
    BY <1>1, <1>2, <1>7 DEF Drop
  <2> QED
    BY <1>3, <1>6, <2>1 DEF Handled
<1>8. CASE Dma(e)
  <2> DEFINE entry == [head |-> myHead[e], payload |-> area]
  <2>1. entry \in Entries /\ Log(e)' = Append(Log(e), entry) /\ entry.head = frame
    BY <1>1, <1>8, DmaLog DEF Dma
  <2> HIDE DEF entry
  <2>2. Log(e) \in Seq(Entries)
    BY LogType
  <2>3. Has(e, frame)'
    BY <1>3, <2>1, <2>2, AppendHas DEF Has
  <2> QED
    BY <1>6, <2>3 DEF Handled
<1>9. ASSUME Log(e)' = Log(e), dropped'[e] = dropped[e],
             wpc'[e] \in {"ackData", "ackDataWrite"} \/ "DATA_ACK" \in flag'[e]
               => wpc[e] \in {"ackData", "ackDataWrite"} \/ "DATA_ACK" \in flag[e]
      PROVE  AckInv' /\ OkInv'
  <2>1. Handled(e) => Handled(e)'
    BY <1>3, <1>9, HandledStays
  <2> QED
    BY <1>6, <1>9, <2>1 DEF AckInv
<1>10. CASE \/ WorkStart(e) \/ PutCmd(e) \/ CopyHead(e) \/ LoopEnd(e)
            \/ Scan(e, "scanCmd", "SEND_CMD", "clearCmd", "scanData")
            \/ Scan(e, "scanData", "SEND_DATA", "clearData", "loop")
            \/ Clear(e, "clearCmd", "putCmd") \/ Clear(e, "clearData", "putData")
            \/ AckRead(e, "ackCmd", {"CMD_ACK"}, "ackCmdWrite")
  <2>1. UNCHANGED <<flag, dropped>> /\ Log(e)' = Log(e)
    BY <1>10 DEF WorkStart, PutCmd, CopyHead, LoopEnd, Scan, Clear, AckRead, fifoVars, Log
  <2>2. wpc'[e] \notin {"ackData", "ackDataWrite"}
    BY <1>2, <1>10 DEF WorkStart, PutCmd, CopyHead, LoopEnd, Scan, Clear, AckRead
  <2> QED
    BY <1>9, <2>1, <2>2
<1>11. CASE \/ AckRead(e, "ackData", {"DATA_ACK"}, "ackDataWrite")
            \/ AckRead(e, "ackErr", {"DATA_ACK", "DATA_ERR"}, "ackDataWrite")
  <2>1. UNCHANGED <<flag, dropped>> /\ Log(e)' = Log(e) /\ wpc[e] = "ackData"
    BY <1>1, <1>11 DEF AckRead, fifoVars, Log, EpInv, NoError
  <2> QED
    BY <1>9, <2>1
<1>12. CASE AckWrite(e, "ackCmdWrite", "scanData") \/ AckWrite(e, "ackDataWrite", "loop")
  <2>1. UNCHANGED dropped /\ Log(e)' = Log(e) /\ flag'[e] = tmp[e] /\ wpc[e] \in {"ackCmdWrite", "ackDataWrite"}
    BY <1>2, <1>12 DEF AckWrite, fifoVars, Log
  <2>2. wpc'[e] \in {"scanData", "loop"}
    BY <1>2, <1>12 DEF AckWrite
  <2>3. "DATA_ACK" \in flag'[e] => wpc[e] = "ackDataWrite" \/ "DATA_ACK" \in flag[e]
    BY <1>1, <2>1 DEF EpInv, Undisturbed
  <2> QED
    BY <1>9, <2>1, <2>2, <2>3
<1>13. CASE RecvData(e)
  <2>1. Log(e)' = Log(e) /\ UNCHANGED <<flag, wpc, dropped>>
    BY <1>13, RecvLog DEF RecvData, workerVars
  <2> QED
    BY <1>9, <2>1
<1>14. CASE RecvCmd(e)
  <2>1. Log(e)' = Log(e) /\ UNCHANGED <<flag, wpc, dropped>>
    BY <1>14 DEF RecvCmd, workerVars, Log
  <2> QED
    BY <1>9, <2>1
<1> QED
  BY <1>7, <1>8, <1>10, <1>11, <1>12, <1>13, <1>14 DEF Worker

\* A sendData that reports success has reached every destination, without faults and
\* with one sending thread: each has the frame, or its full FIFO refused it, however
\* the endpoints' acknowledgements and other steps interleave.
THEOREM LinkOkMeansHandled ==
  ASSUME Calm
  PROVE  Spec => []OkMeansHandled
<1>1. Init => AckInv /\ OkInv
  BY LinkAssumption DEF Init, AckInv, OkInv, Frames, LinkAssumption
<1>2. TypeOK /\ LinkInv /\ FrameInv /\ AckInv /\ OkInv /\ [Next]_vars => AckInv' /\ OkInv'
  <2> SUFFICES ASSUME TypeOK, LinkInv, FrameInv, AckInv, OkInv, [Next]_vars PROVE AckInv' /\ OkInv'
    OBVIOUS
  <2>1. CASE Next
    BY <2>1, Calm, LinkAssumption, CalmSteps, RcOk, EpOk
  <2>2. CASE UNCHANGED vars
    <3>1. UNCHANGED <<dpc, frame, dest, toWait, result, wpc, flag, dropped, got, dataFifo>>
      BY <2>2 DEF vars, dataVars, workerVars, fifoVars
    <3> QED
      BY <3>1 DEF AckInv, OkInv, Handled, Has, Log
  <2> QED
    BY <2>1, <2>2
<1>3. OkInv => OkMeansHandled
  BY DEF OkInv, OkMeansHandled, Handled
<1> QED
  BY <1>1, <1>2, <1>3, LinkAssumption, Calm, LinkType, LinkInvInit, LinkInvStep, FrameInvInit,
     FrameInvStep, PTL DEF Spec

-----------------------------------------------------------------------------
(* Commands: each reaches its endpoint once, in the order sent.            *)

\* The endpoint has yet to take the running command from its slot.
Commanded(e) == "SEND_CMD" \in cmd[e] \/ wpc[e] \in {"clearCmd", "putCmd"}
CmdFresh(e) == (cpc = "tell" /\ cmdTo = e) \/ Commanded(e)

CmdHere(e) == \E i \in DOMAIN CmdLog(e) : CmdLog(e)[i] = cmdNo

CmdLogInv(e) ==
  /\ \A i \in DOMAIN CmdLog(e) : /\ CmdLog(e)[i] <= cmdNo
                                 /\ CmdFresh(e) => CmdLog(e)[i] < cmdNo
  /\ \A i, j \in DOMAIN CmdLog(e) : i < j => CmdLog(e)[i] < CmdLog(e)[j]
  /\ wpc[e] \in {"ackCmd", "ackCmdWrite"} \/ "CMD_ACK" \in flag[e] => CmdHere(e)
  /\ cpc = "idle" /\ cmdTo = e /\ cmdResult[cmdNo] = "ok" => CmdHere(e)

CmdInv ==
  /\ cpc # "idle" => cmdTo \in EPs /\ cmdNo \in Cmds /\ cmdSlot[cmdTo] = cmdNo
  /\ \A e \in EPs : CmdLogInv(e)

LEMMA CmdLogType ==
  ASSUME LinkAssumption, TypeOK, NEW e \in EPs
  PROVE  CmdLog(e) \in Seq(0 .. MaxCmds) /\ \A i \in DOMAIN CmdLog(e) : CmdLog(e)[i] \in Nat
<1>1. CmdLog(e) \in Seq(0 .. MaxCmds)
  BY DEF TypeOK, FifoTypes, CmdLog
<1>2. ASSUME NEW i \in DOMAIN CmdLog(e) PROVE CmdLog(e)[i] \in Nat
  <2>1. CmdLog(e)[i] \in 0 .. MaxCmds
    BY <1>1, <1>2, ElementOfSeq, LenProperties
  <2> QED
    BY <2>1, LinkAssumption DEF LinkAssumption
<1> QED
  BY <1>1, <1>2

\* A step that neither adds to the log of commands nor reports one.
LEMMA CmdLogKept ==
  ASSUME NEW e \in EPs, CmdLogInv(e), CmdLog(e)' = CmdLog(e), UNCHANGED <<cmdNo, cmdTo, cmdResult>>,
         CmdFresh(e)' => CmdFresh(e), cpc' = "idle" => cpc = "idle",
         wpc'[e] \in {"ackCmd", "ackCmdWrite"} \/ "CMD_ACK" \in flag'[e]
           => wpc[e] \in {"ackCmd", "ackCmdWrite"} \/ "CMD_ACK" \in flag[e]
  PROVE  CmdLogInv(e)'
  BY DEF CmdLogInv, CmdHere

LEMMA RcCmds ==
  ASSUME Calm, LinkAssumption, TypeOK, LinkInv, CmdInv,
         (\E D \in Targets : DataCopy(D)) \/ RcData \/ (\E e \in EPs : CmdCopy(e)) \/ RcCmd
  PROVE  CmdInv'
<1>1. RcShape /\ (\A e \in EPs : EpInv(e)) /\ (\A e \in EPs : CmdLogInv(e))
  BY DEF LinkInv, CmdInv
<1>2. cmd \in [EPs -> SUBSET Bits] /\ flag \in [EPs -> SUBSET Acks] /\ RcTypes
  BY DEF TypeOK, WordTypes
<1>3. wpc' = wpc /\ \A e \in EPs : CmdLog(e)' = CmdLog(e)
  BY DEF DataCopy, RcData, DataHead, DataTell, DataAcked, CmdCopy, RcCmd, CmdTell, CmdAcked,
     workerVars, fifoVars, CmdLog
<1>4. CASE (\E D \in Targets : DataCopy(D)) \/ RcData
  <2>1. UNCHANGED <<cpc, cmdNo, cmdTo, cmdResult, cmdSlot>>
    BY <1>4 DEF DataCopy, RcData, DataHead, DataTell, DataAcked, cmdVars
  <2>2. \A e \in EPs : /\ "SEND_CMD" \in cmd'[e] => "SEND_CMD" \in cmd[e]
                       /\ "CMD_ACK" \in flag'[e] => "CMD_ACK" \in flag[e]
    BY <1>2, <1>4 DEF DataCopy, RcData, DataHead, DataTell, DataAcked, SendAck, TakeAck
  <2>3. \A e \in EPs : CmdLogInv(e)'
    BY <1>1, <1>3, <2>1, <2>2, CmdLogKept DEF CmdFresh, Commanded
  <2> QED
    BY <2>1, <2>3 DEF CmdInv
<1>5. ASSUME NEW t \in EPs, CmdCopy(t)
      PROVE  CmdInv'
  <2>1. /\ cpc = "idle" /\ cpc' = "tell" /\ cmdTo' = t /\ cmdNo' = cmdNo + 1 /\ cmdNo < MaxCmds
        /\ UNCHANGED <<cmd, flag>> /\ cmdSlot' = [cmdSlot EXCEPT ![t] = cmdNo + 1]
    BY <1>5 DEF CmdCopy
  <2>2. cmdNo \in Nat /\ cmdNo' \in Cmds /\ cmdSlot'[t] = cmdNo'
    BY <1>2, <2>1, LinkAssumption DEF RcTypes, Cmds, LinkAssumption
  <2>3. ASSUME NEW e \in EPs PROVE CmdLogInv(e)'
    <3>1. wpc[e] \notin {"ackCmd", "ackCmdWrite"} /\ "CMD_ACK" \notin flag[e]
      BY <1>1, <2>1 DEF EpInv, CmdToken, CmdAt, CmdOwed
    <3>2. \A i \in DOMAIN CmdLog(e) : CmdLog(e)[i] \in Nat /\ CmdLog(e)[i] <= cmdNo
      BY <1>1, CmdLogType DEF CmdLogInv
    <3>3. \A i \in DOMAIN CmdLog(e) : CmdLog(e)[i] < cmdNo + 1
      BY <2>2, <3>2
    <3>4. \A i \in DOMAIN CmdLog(e) : CmdLog(e)[i] <= cmdNo + 1
      BY <2>2, <3>2
    <3> QED
      BY <1>1, <1>3, <2>1, <3>1, <3>3, <3>4 DEF CmdLogInv
  <2> QED
    BY <2>1, <2>2, <2>3 DEF CmdInv
<1>6. CASE CmdTell
  <2>1. /\ cpc = "tell" /\ cpc' = "wait" /\ UNCHANGED <<cmdNo, cmdTo, cmdResult, cmdSlot, flag>>
        /\ cmd' = [cmd EXCEPT ![cmdTo] = @ \cup {"SEND_CMD"}]
    BY <1>6 DEF CmdTell, SendAck
  <2>2. \A e \in EPs : CmdFresh(e)' => CmdFresh(e)
    BY <1>2, <1>3, <2>1 DEF CmdFresh, Commanded
  <2>3. \A e \in EPs : CmdLogInv(e)'
    BY <1>1, <1>3, <2>1, <2>2, CmdLogKept
  <2> QED
    BY <2>1, <2>3 DEF CmdInv
<1>7. CASE CmdAcked
  <2>1. /\ cpc = "wait" /\ cpc' = "idle" /\ "CMD_ACK" \in flag[cmdTo] /\ cmdTo \in EPs
        /\ UNCHANGED <<cmd, cmdNo, cmdTo>>
    BY <1>7 DEF CmdAcked, CmdReturn, CmdInv
  <2>2. ASSUME NEW e \in EPs PROVE CmdLogInv(e)'
    <3>1. CmdFresh(e)' => CmdFresh(e)
      BY <1>3, <2>1 DEF CmdFresh, Commanded
    <3>2. "CMD_ACK" \in flag'[e] => "CMD_ACK" \in flag[e]
      BY <1>2, <1>7 DEF CmdAcked, TakeAck
    <3>3. cmdTo = e => CmdHere(e)
      BY <1>1, <2>1 DEF CmdLogInv
    <3>4. CmdHere(e)' <=> CmdHere(e)
      BY <1>3, <2>1 DEF CmdHere
    <3> QED
      BY <1>1, <1>3, <2>1, <3>1, <3>2, <3>3, <3>4 DEF CmdLogInv
  <2> QED
    BY <2>1, <2>2 DEF CmdInv
<1> QED
  BY <1>4, <1>5, <1>6, <1>7 DEF RcCmd

\* What an endpoint takes from its slot goes to the end of its log; receiving
\* takes nothing from the log.
LEMMA PutCmdLog ==
  ASSUME TypeOK, NEW e \in EPs, PutCmd(e)
  PROVE  cmdSlot[e] \in 0 .. MaxCmds /\ CmdLog(e)' = Append(CmdLog(e), cmdSlot[e])
<1> DEFINE S == 0 .. MaxCmds
<1>1. cmdSlot[e] \in S /\ cmdFifo[e] \in Seq(S) /\ gotCmd[e] \in Seq(S)
  BY DEF TypeOK, RcTypes, FifoTypes
<1>2. cmdFifo'[e] = Append(cmdFifo[e], cmdSlot[e]) /\ gotCmd' = gotCmd
  BY DEF TypeOK, FifoTypes, PutCmd
<1> HIDE DEF S
<1>3. \A s, t \in Seq(S) : \A x \in S : s \o Append(t, x) = Append(s \o t, x)
  BY AppendLog
<1>4. gotCmd[e] \o Append(cmdFifo[e], cmdSlot[e]) = Append(gotCmd[e] \o cmdFifo[e], cmdSlot[e])
  BY <1>1, <1>3
<1> QED
  BY <1>1, <1>2, <1>4 DEF CmdLog, S

LEMMA RecvCmdLog ==
  ASSUME TypeOK, NEW e \in EPs, RecvCmd(e)
  PROVE  CmdLog(e)' = CmdLog(e)
<1>1. cmdFifo[e] # <<>> /\ cmdFifo[e] \in Seq(0 .. MaxCmds) /\ gotCmd[e] \in Seq(0 .. MaxCmds)
  BY DEF TypeOK, FifoTypes, RecvCmd
<1>2. cmdFifo'[e] = Tail(cmdFifo[e]) /\ gotCmd'[e] = Append(gotCmd[e], Head(cmdFifo[e]))
  BY DEF TypeOK, FifoTypes, RecvCmd
<1>3. Append(gotCmd[e], Head(cmdFifo[e])) \o Tail(cmdFifo[e]) = gotCmd[e] \o cmdFifo[e]
  BY <1>1, HeadMoves
<1> QED
  BY <1>2, <1>3 DEF CmdLog

LEMMA EpCmds ==
  ASSUME Calm, LinkAssumption, TypeOK, LinkInv, CmdInv, NEW e \in EPs,
         Worker(e) \/ RecvData(e) \/ RecvCmd(e)
  PROVE  CmdInv'
<1> USE DEF Goto, At
<1>1. EpInv(e) /\ CmdLogInv(e)
  BY DEF LinkInv, CmdInv
<1>2. /\ cmd \in [EPs -> SUBSET Bits] /\ flag \in [EPs -> SUBSET Acks] /\ wpc \in [EPs -> Places]
      /\ cmdFifo \in [EPs -> Seq(0 .. MaxCmds)] /\ gotCmd \in [EPs -> Seq(0 .. MaxCmds)]
  BY DEF TypeOK, WordTypes, WorkerTypes, FifoTypes
<1>3. UNCHANGED <<cpc, cmdNo, cmdTo, cmdResult, cmdSlot>>
  BY DEF Worker, WorkStart, Scan, Clear, PutCmd, AckRead, AckWrite, CopyHead, Drop, Dma, LoopEnd,
     RecvData, RecvCmd, rcVars, cmdVars
<1>4. \A x \in EPs \ {e} : /\ cmd'[x] = cmd[x] /\ flag'[x] = flag[x] /\ wpc'[x] = wpc[x]
                           /\ CmdLog(x)' = CmdLog(x)
  BY <1>2 DEF Worker, WorkStart, Scan, Clear, PutCmd, AckRead, AckWrite, CopyHead, Drop, Dma, LoopEnd,
     RecvData, RecvCmd, fifoVars, workerVars, CmdLog
<1>5. ASSUME CmdLogInv(e)' PROVE CmdInv'
  <2>1. ASSUME NEW x \in EPs \ {e} PROVE CmdLogInv(x)'
    <3>1. CmdLogInv(x)
      BY DEF CmdInv
    <3> QED
      BY <1>3, <1>4, <3>1, CmdLogKept DEF CmdFresh, Commanded
  <2> QED
    BY <1>3, <1>5, <2>1 DEF CmdInv
<1>6. ASSUME CmdLog(e)' = CmdLog(e), Commanded(e)' => Commanded(e),
             wpc'[e] \in {"ackCmd", "ackCmdWrite"} \/ "CMD_ACK" \in flag'[e]
               => wpc[e] \in {"ackCmd", "ackCmdWrite"} \/ "CMD_ACK" \in flag[e]
      PROVE  CmdInv'
  <2>1. CmdFresh(e)' => CmdFresh(e)
    BY <1>3, <1>6 DEF CmdFresh
  <2> QED
    BY <1>1, <1>3, <1>5, <1>6, <2>1, CmdLogKept
<1>7. CASE PutCmd(e)
  <2>1. wpc[e] = "putCmd" /\ wpc'[e] = "ackCmd" /\ UNCHANGED <<cmd, flag>>
    BY <1>2, <1>7 DEF PutCmd
  <2>2. cpc = "wait" /\ e = cmdTo /\ "SEND_CMD" \notin cmd[e]
    BY <1>1, <2>1 DEF EpInv, CmdToken, CmdAt, CmdOwed
  <2>3. cmdSlot[e] = cmdNo /\ cmdNo \in 0 .. MaxCmds /\ cmdNo \in Nat
    BY <2>2, LinkAssumption DEF CmdInv, Cmds, LinkAssumption
  <2>4. CmdLog(e)' = Append(CmdLog(e), cmdNo) /\ CmdLog(e) \in Seq(0 .. MaxCmds)
    BY <1>7, <2>3, PutCmdLog, CmdLogType
  <2>5. ~CmdFresh(e)'
    BY <1>3, <2>1, <2>2 DEF CmdFresh, Commanded
  <2>6. \A i \in DOMAIN CmdLog(e) : CmdLog(e)[i] \in Nat /\ CmdLog(e)[i] < cmdNo
    BY <1>1, <2>1, CmdLogType DEF CmdLogInv, CmdFresh, Commanded
  <2> DEFINE new == Append(CmdLog(e), cmdNo)
  <2>7. /\ \A i \in DOMAIN CmdLog(e) : new[i] = CmdLog(e)[i] /\ i \in Nat /\ i < Len(CmdLog(e)) + 1
        /\ Len(CmdLog(e)) + 1 \in DOMAIN new /\ new[Len(CmdLog(e)) + 1] = cmdNo
        /\ \A i \in DOMAIN new : i \in DOMAIN CmdLog(e) \/ i = Len(CmdLog(e)) + 1
        /\ Len(CmdLog(e)) \in Nat
    BY <2>3, <2>4, AppendHas
  <2> HIDE DEF new
  <2>8. \A i \in DOMAIN new : new[i] <= cmdNo
    BY <2>3, <2>6, <2>7
  <2>9. ASSUME NEW i \in DOMAIN new, NEW j \in DOMAIN new, i < j
        PROVE  new[i] < new[j]
    <3>1. i \in DOMAIN CmdLog(e)
      BY <2>7, <2>9
    <3>2. CASE j \in DOMAIN CmdLog(e)
      BY <1>1, <2>7, <2>9, <3>1, <3>2 DEF CmdLogInv
    <3>3. CASE j = Len(CmdLog(e)) + 1
      BY <2>6, <2>7, <3>1, <3>3
    <3> QED
      BY <2>7, <3>2, <3>3
  <2>10. CmdHere(e)'
    BY <1>3, <2>4, <2>7 DEF CmdHere, new
  <2>11. CmdLog(e)' = new
    BY <2>4 DEF new
  <2>12. CmdLogInv(e)'
    BY <1>3, <2>5, <2>8, <2>9, <2>10, <2>11 DEF CmdLogInv
  <2> QED
    BY <1>5, <2>12
<1>8. CASE \/ WorkStart(e) \/ CopyHead(e) \/ Drop(e) \/ Dma(e) \/ LoopEnd(e)
           \/ AckRead(e, "ackCmd", {"CMD_ACK"}, "ackCmdWrite")
           \/ AckRead(e, "ackData", {"DATA_ACK"}, "ackDataWrite")
           \/ AckRead(e, "ackErr", {"DATA_ACK", "DATA_ERR"}, "ackDataWrite")
  <2>1. UNCHANGED <<cmd, flag>> /\ CmdLog(e)' = CmdLog(e)
    BY <1>8 DEF WorkStart, CopyHead, Drop, Dma, LoopEnd, AckRead, fifoVars, CmdLog
  <2>2. \/ wpc'[e] \in {"scanCmd", "look", "ackData", "idle", "ackDataWrite"}
        \/ wpc'[e] = "ackCmdWrite" /\ wpc[e] = "ackCmd"
    BY <1>2, <1>8 DEF WorkStart, CopyHead, Drop, Dma, LoopEnd, AckRead
  <2> QED
    BY <1>6, <2>1, <2>2 DEF Commanded
<1>9. CASE \/ Scan(e, "scanCmd", "SEND_CMD", "clearCmd", "scanData")
           \/ Scan(e, "scanData", "SEND_DATA", "clearData", "loop")
  <2>1. UNCHANGED <<cmd, flag>> /\ CmdLog(e)' = CmdLog(e)
    BY <1>9 DEF Scan, fifoVars, CmdLog
  <2>2. /\ wpc'[e] \in {"clearCmd", "scanData", "clearData", "loop"}
        /\ wpc'[e] = "clearCmd" => "SEND_CMD" \in cmd[e]
    BY <1>2, <1>9 DEF Scan
  <2> QED
    BY <1>6, <2>1, <2>2 DEF Commanded
<1>10. CASE Clear(e, "clearCmd", "putCmd") \/ Clear(e, "clearData", "putData")
  <2>1. UNCHANGED flag /\ CmdLog(e)' = CmdLog(e) /\ cmd'[e] = tmp[e]
    BY <1>2, <1>10 DEF Clear, fifoVars, CmdLog
  <2>2. \/ wpc[e] = "clearCmd" /\ wpc'[e] = "putCmd"
        \/ wpc[e] = "clearData" /\ wpc'[e] = "putData" /\ tmp[e] = cmd[e] \ {"SEND_DATA"}
    BY <1>1, <1>2, <1>10 DEF Clear, EpInv, Undisturbed
  <2> QED
    BY <1>6, <2>1, <2>2 DEF Commanded
<1>11. CASE AckWrite(e, "ackCmdWrite", "scanData") \/ AckWrite(e, "ackDataWrite", "loop")
  <2>1. UNCHANGED cmd /\ CmdLog(e)' = CmdLog(e) /\ flag'[e] = tmp[e]
    BY <1>2, <1>11 DEF AckWrite, fifoVars, CmdLog
  <2>2. /\ wpc'[e] \in {"scanData", "loop"}
        /\ wpc[e] = "ackCmdWrite" \/ tmp[e] = flag[e] \cup {"DATA_ACK"}
    BY <1>1, <1>2, <1>11 DEF AckWrite, EpInv, Undisturbed
  <2> QED
    BY <1>6, <2>1, <2>2 DEF Commanded
<1>12. CASE RecvData(e)
  <2>1. UNCHANGED <<cmd, flag, wpc>> /\ CmdLog(e)' = CmdLog(e)
    BY <1>12 DEF RecvData, workerVars, CmdLog
  <2> QED
    BY <1>6, <2>1 DEF Commanded
<1>13. CASE RecvCmd(e)
  <2>1. UNCHANGED <<cmd, flag, wpc>> /\ CmdLog(e)' = CmdLog(e)
    BY <1>13, RecvCmdLog DEF RecvCmd, workerVars
  <2> QED
    BY <1>6, <2>1 DEF Commanded
<1> QED
  BY <1>7, <1>8, <1>9, <1>10, <1>11, <1>12, <1>13 DEF Worker

\* Without faults and with one sending thread no endpoint gets a command twice or
\* after a later one, and one that sendCmd reports as sent is there: the command
\* in the slot is not overwritten before the worker has taken it.
THEOREM LinkCmdsInOrder ==
  ASSUME Calm
  PROVE  Spec => []CmdsInOrder
<1>1. Init => CmdInv
  <2> SUFFICES ASSUME Init PROVE CmdInv
    OBVIOUS
  <2>1. \A e \in EPs : CmdLog(e) = <<>> /\ e # 0
    BY LinkAssumption DEF Init, CmdLog, LinkAssumption
  <2> QED
    BY <2>1 DEF Init, CmdInv, CmdLogInv
<1>2. TypeOK /\ LinkInv /\ CmdInv /\ [Next]_vars => CmdInv'
  <2> SUFFICES ASSUME TypeOK, LinkInv, CmdInv, [Next]_vars PROVE CmdInv'
    OBVIOUS
  <2>1. CASE Next
    BY <2>1, Calm, LinkAssumption, CalmSteps, RcCmds, EpCmds
  <2>2. CASE UNCHANGED vars
    <3>1. UNCHANGED <<cpc, cmdNo, cmdTo, cmdResult, cmdSlot, cmd, flag, wpc, gotCmd, cmdFifo>>
      BY <2>2 DEF vars, cmdVars, workerVars, fifoVars
    <3> QED
      BY <3>1 DEF CmdInv, CmdLogInv, CmdHere, CmdFresh, Commanded, CmdLog
  <2> QED
    BY <2>1, <2>2
<1>3. CmdInv => CmdsInOrder
  BY DEF CmdInv, CmdLogInv, CmdHere, CmdsInOrder
<1> QED
  BY <1>1, <1>2, <1>3, LinkAssumption, Calm, LinkType, LinkInvInit, LinkInvStep, PTL DEF Spec
=============================================================================
