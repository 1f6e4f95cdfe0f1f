-------------------------- MODULE UdpFrames_proofs --------------------------
(***************************************************************************)
(* What the frame server and its client keep whatever is lost or fails:    *)
(* types, the lead of the server over the file, the frame counters, that a *)
(* frame the client takes for finished is whole, and that the two sides do *)
(* not wait for each other.                                                *)
(*                                                                         *)
(* The first argument looks at the newest packet. While the server waits   *)
(* for its acknowledgement it is on the wire, lost, or in the client's     *)
(* hand, and there is nothing else on the way; in every other place of the *)
(* server the client has acknowledged it.                                  *)
(*                                                                         *)
(* The second looks at all packets sent: each follows the one before it    *)
(* (LinkInv), each was cut from its frame where that one ended (CutInv,    *)
(* RestInv), and a frame followed by another in the file has its last      *)
(* packet there (EndInv).                                                  *)
(*                                                                         *)
(* The third says where, as long as nothing unlucky happens, the packet or *)
(* command is that somebody waits for (MovesInv).                          *)
(***************************************************************************)
EXTENDS UdpFrames, Numbers_proofs, SequenceTheorems

Newest == sent[Len(sent)]
Owed == Len(sent) - Len(file)
Idle == {"loop", "wait", "exit", "done"}

\* The newest packet is not acknowledged yet; it is, and the server has not
\* read that; the client's counter is that of the server's frame.
Waiting == spc = "ack" /\ toServer = <<>>
Acked == spc = "ack" /\ toServer = <<Expected>>
Current == frameNum = Len(sizes)

\* The file does not end while the server goes on reading it; the client has a
\* packet in its hand; nothing is sent after the last packet.
FileInv ==
  /\ Len(sizes) >= MaxFrames => eof
  /\ eof => spc \notin {"loop", "wait", "read"}
  /\ spc \in {"send", "ack", "end"} => sizes # <<>>
  /\ spc = "send" => ~done
  /\ cpc \in {"ack", "write"} => msg \in Packets

\* One command at a time on the connection, and which.
TcpInv ==
  /\ spc \in {"read", "send", "end"} => toServer = <<>>
  /\ spc = "ack" => toServer \in {<<>>, <<Expected>>}
  /\ spc \in Idle => toServer \in {<<>>, <<NextFrame>>}
  /\ toClient # <<>> => toClient = <<FrameEnd>> /\ spc \in Idle /\ toServer = <<>>
  /\ spc = "read" \/ toServer = <<NextFrame>> => cpc = "recv" /\ Current

\* The file is a beginning of what was sent, the client's hand the next of it,
\* and the wire the newest.
CopyInv ==
  /\ Len(file) <= Len(sent)
  /\ \A k \in 1 .. Len(file) : file[k] = sent[k]
  /\ cpc \in {"ack", "write"} => Owed > 0 /\ msg = sent[Len(file) + 1]
  /\ udp # <<>> => sent # <<>> /\ udp = <<Newest>>
  /\ spc = "ack" => sent # <<>> /\ Newest.num = i /\ Newest.last = done

\* How far the server is ahead in each place of the client.
LeadInv ==
  /\ cpc = "recv" => IF Waiting THEN Owed = 1 ELSE Owed = 0 /\ udp = <<>>
  /\ cpc = "ack" => Waiting /\ Owed = 1 /\ udp = <<>>
  /\ cpc = "write" => IF Waiting THEN Owed = 2 /\ ~msg.last ELSE Owed = 1 /\ udp = <<>>
  /\ cpc = "endwait" => ~Waiting /\ Owed = 0 /\ udp = <<>>
  /\ cpc = "done" => Owed <= 2 /\ (spc = "send" \/ Acked => Owed <= 1 /\ udp = <<>>)

\* The client's frame counter: behind until the first packet of the frame.
CountInv ==
  /\ cpc # "done" /\ (spc = "send" \/ (Waiting /\ cpc # "ack")) =>
       frameNum = IF i = 0 THEN Len(sizes) - 1 ELSE Len(sizes)
  /\ cpc = "ack" \/ (Acked /\ cpc # "done") => Current
  /\ cpc = "endwait" \/ (cpc = "write" /\ msg.last) =>
       /\ Current
       /\ spc \notin {"send", "read"}
       /\ spc = "ack" => done

UdpInv == TypeOK /\ FileInv /\ TcpInv /\ CopyInv /\ LeadInv /\ CountInv

-----------------------------------------------------------------------------
(* Types.                                                                  *)

\* What is taken from a sequence that is not empty, and what is left.
LEMMA Ends ==
  ASSUME NEW S, NEW s \in Seq(S), s # <<>>
  PROVE  Head(s) \in S /\ Tail(s) \in Seq(S)
BY HeadTailProperties, EmptySeq

LEMMA Longer ==
  ASSUME NEW S, NEW s \in Seq(S), NEW x \in S
  PROVE  Append(s, x) \in Seq(S) /\ Len(Append(s, x)) = Len(s) + 1
BY AppendProperties

\* Each action of the server and of the client keeps the types.
LEMMA TypeServer ==
  ASSUME TypeOK, FileInv, Server \/ ReadFails \/ SendFails
  PROVE  TypeOK'
<1> USE UdpAssumption DEF TypeOK, ServerPlaces, ClientPlaces
<1> USE DEF serverVars, clientVars, tcpVars, sendVars
<1>1. CASE Loop
  BY <1>1 DEF Loop
<1>2. CASE WaitNext
  <2>1. toServer' \in Seq(Commands)
    BY <1>2, Ends DEF WaitNext
  <2> QED
    BY <1>2, <2>1 DEF WaitNext
<1>3. CASE ReadFrame
  <2>1. PICK s \in Sizes, e \in BOOLEAN :
           sizes' = Append(sizes, s) /\ eof' = e /\ left' = s /\ clean' = (clean /\ HasMark(s))
    BY <1>3 DEF ReadFrame
  <2>2. spc = "read" /\ Len(sizes) < MaxFrames
    BY <1>3 DEF ReadFrame, FileInv
  <2>3. sizes' \in Seq(Sizes) /\ Len(sizes') <= MaxFrames
    BY <2>1, <2>2
  <2>4. left' \in Nat /\ clean' \in BOOLEAN /\ eof' \in BOOLEAN
    BY <2>1 DEF HasMark
  <2> QED
    BY <1>3, <2>3, <2>4 DEF ReadFrame
<1>4. CASE SendPacket
  <2>1. \A s \in Nat, l, ff \in BOOLEAN : Packet(s, l, ff) \in Packets
    <3>1. Len(sizes) \in 1 .. MaxFrames
      BY <1>4 DEF FileInv, SendPacket
    <3> QED
      BY <3>1 DEF Packet, Packets
  <2>2. PICK p \in Packets : Transmit(p)
    BY <1>4, <2>1 DEF SendPacket
  <2>3. udp' \in Seq(Packets) /\ sent' \in Seq(Packets) /\ spc' = "ack"
    BY <2>2 DEF Transmit
  <2>4. left' \in Nat
    <3>1. left' = left \/ (left > PacketSize /\ left' = left - PacketSize)
      BY <1>4, Zenon DEF SendPacket
    <3> QED
      BY <3>1
  <2>5. done' \in BOOLEAN
    BY <1>4, Zenon DEF SendPacket
  <2> QED
    BY <1>4, <2>3, <2>4, <2>5 DEF SendPacket
<1>5. CASE SendBreaks
  BY <1>5 DEF SendBreaks, AfterSend
<1>6. CASE ReadAck
  <2>1. toServer' \in Seq(Commands)
    BY <1>6, Ends DEF ReadAck
  <2>2. i' \in Nat /\ spc' \in ServerPlaces
    BY <1>6 DEF ReadAck, AfterSend
  <2> QED
    BY <1>6, <2>1, <2>2 DEF ReadAck
<1>7. CASE EndFrame
  BY <1>7 DEF EndFrame, AfterSend
<1>8. CASE Exit
  BY <1>8 DEF Exit
<1>9. CASE ReadFails \/ SendFails
  BY <1>9 DEF ReadFails, SendFails, AfterSend
<1> QED
  BY <1>1, <1>2, <1>3, <1>4, <1>5, <1>6, <1>7, <1>8, <1>9 DEF Server

LEMMA TypeOthers ==
  ASSUME TypeOK, FileInv, Client \/ WriteFails \/ Lose \/ ServerSignal \/ ClientSignal
  PROVE  TypeOK'
<1> USE DEF TypeOK, ServerPlaces, ClientPlaces, serverVars, clientVars, tcpVars, sendVars
<1>1. CASE Receive
  <2>1. Head(udp) \in Packets /\ Tail(udp) \in Seq(Packets)
    BY <1>1, Ends DEF Receive
  <2>2. frameNum' \in Nat /\ cpc' \in ClientPlaces
    BY <1>1 DEF Receive
  <2>3. clean' \in BOOLEAN
    BY <1>1, Zenon DEF Receive
  <2> QED
    BY <1>1, <2>1, <2>2, <2>3 DEF Receive
<1>2. CASE SendAck
  <2>1. Ack(frameNum, msg.num, msg.size) \in Commands
    BY DEF Ack, Commands, Packets, NoPacket
  <2> QED
    BY <1>2, <2>1 DEF SendAck
<1>3. CASE Write
  <2>1. msg \in Packets
    BY <1>3 DEF FileInv, Write
  <2>2. file' \in Seq(Packets)
    BY <1>3, <2>1 DEF Write
  <2>3. cpc' \in ClientPlaces
    BY <1>3 DEF Write
  <2> QED
    BY <1>3, <2>2, <2>3 DEF Write
<1>4. CASE AskNext
  <2>1. NextFrame \in Commands
    BY DEF NextFrame, Commands
  <2>2. toClient' \in Seq({FrameEnd})
    BY <1>4, Ends DEF AskNext
  <2>3. toServer' = toServer \/ toServer' = Append(toServer, NextFrame)
    BY <1>4, Zenon DEF AskNext
  <2>4. toServer' \in Seq(Commands)
    BY <2>1, <2>3, Longer
  <2>5. cpc' \in ClientPlaces
    BY <1>4 DEF AskNext
  <2> QED
    BY <1>4, <2>2, <2>4, <2>5 DEF AskNext
<1>5. CASE WriteFails
  BY <1>5 DEF WriteFails
<1>6. CASE Lose
  <2>1. udp' \in Seq(Packets)
    BY <1>6, Ends DEF Lose
  <2> QED
    BY <1>6, <2>1, ZenonT(30) DEF Lose
<1>7. CASE ServerSignal
  BY <1>7 DEF ServerSignal
<1>8. CASE ClientSignal
  BY <1>8 DEF ClientSignal
<1> QED
  BY <1>1, <1>2, <1>3, <1>4, <1>5, <1>6, <1>7, <1>8 DEF Client

LEMMA FileKept ==
  ASSUME TypeOK, FileInv, [Next]_vars
  PROVE  FileInv'
<1> USE DEF FileInv, TypeOK, serverVars, clientVars, tcpVars, sendVars
<1>1. CASE Loop
  BY <1>1 DEF Loop
<1>2. CASE WaitNext
  BY <1>2 DEF WaitNext
<1>3. CASE ReadFrame
  <2>1. PICK t \in Sizes, e \in BOOLEAN :
           /\ Len(sizes) + 1 >= MaxFrames => e
           /\ sizes' = Append(sizes, t)
           /\ eof' = e
    BY <1>3 DEF ReadFrame
  <2>2. Len(sizes') = Len(sizes) + 1 /\ sizes' # <<>>
    <3>1. Len(sizes') = Len(sizes) + 1 /\ Len(sizes) \in Nat
      BY <2>1, Longer
    <3> QED
      BY <3>1
  <2>3. Len(sizes') >= MaxFrames => e
    BY <2>1, <2>2
  <2> QED
    BY <1>3, <2>1, <2>2, <2>3 DEF ReadFrame
<1>4. CASE SendPacket
  BY <1>4 DEF SendPacket, Transmit
<1>5. CASE SendBreaks
  BY <1>5 DEF SendBreaks, AfterSend
<1>6. CASE ReadAck
  BY <1>6 DEF ReadAck, AfterSend
<1>7. CASE EndFrame
  BY <1>7 DEF EndFrame, AfterSend
<1>8. CASE Exit
  BY <1>8 DEF Exit
<1>9. CASE ReadFails \/ SendFails
  BY <1>9 DEF ReadFails, SendFails, AfterSend
<1>10. CASE Receive
  <2>1. msg' \in Packets
    BY <1>10, Ends DEF Receive
  <2> QED
    BY <1>10, <2>1 DEF Receive
<1>11. CASE SendAck \/ Write \/ AskNext \/ WriteFails
  BY <1>11 DEF SendAck, Write, AskNext, WriteFails
<1>12. CASE UNCHANGED <<spc, sizes, done, eof, cpc, msg>>
  BY <1>12, Zenon
<1> QED
  BY <1>1, <1>2, <1>3, <1>4, <1>5, <1>6, <1>7, <1>8, <1>9, <1>10, <1>11, <1>12
     DEF Next, Server, Client, Lose, ServerSignal, ClientSignal, vars

LEMMA UdpTypesInit == Init => TypeOK /\ FileInv
<1>1. <<NextFrame>> \in Seq(Commands)
  BY DEF NextFrame, Commands
<1>2. \A S : <<>> \in Seq(S) /\ Len(<<>>) = 0
  OBVIOUS
<1> SUFFICES ASSUME Init PROVE TypeOK /\ FileInv
  OBVIOUS
<1>3. TypeOK
  <2>1. Len(sizes) <= MaxFrames /\ sizes \in Seq(Sizes)
    BY <1>2, UdpAssumption DEF Init
  <2>2. spc \in ServerPlaces /\ cpc \in ClientPlaces /\ i \in Nat /\ left \in Nat /\ frameNum \in Nat
    BY DEF Init, ServerPlaces, ClientPlaces
  <2>3. udp \in Seq(Packets) /\ toServer \in Seq(Commands) /\ toClient \in Seq({FrameEnd})
    BY <1>1, <1>2 DEF Init
  <2>4. file \in Seq(Packets) /\ sent \in Seq(Packets) /\ msg \in Packets \cup {NoPacket}
    BY <1>2 DEF Init
  <2>5. {done, eof, gDone, quit, clean} \subseteq BOOLEAN
    BY Zenon DEF Init
  <2> QED
    BY <2>1, <2>2, <2>3, <2>4, <2>5, Zenon DEF TypeOK
<1>4. FileInv
  BY <1>2, UdpAssumption DEF Init, FileInv
<1> QED
  BY <1>3, <1>4

LEMMA UdpTypesNext == TypeOK /\ FileInv /\ [Next]_vars => TypeOK' /\ FileInv'
<1> SUFFICES ASSUME TypeOK, FileInv, [Next]_vars
             PROVE  TypeOK' /\ FileInv'
  OBVIOUS
<1>1. FileInv'
  BY FileKept
<1>2. CASE UNCHANGED vars
  <2>1. /\ spc' = spc /\ sizes' = sizes /\ i' = i /\ left' = left /\ done' = done
        /\ eof' = eof /\ gDone' = gDone /\ udp' = udp /\ toServer' = toServer
        /\ toClient' = toClient /\ cpc' = cpc /\ msg' = msg /\ frameNum' = frameNum
        /\ quit' = quit /\ file' = file /\ sent' = sent /\ clean' = clean
    BY <1>2, Zenon DEF vars, serverVars, clientVars, tcpVars, sendVars
  <2> QED
    BY <1>1, <2>1, Zenon DEF TypeOK
<1> QED
  BY <1>1, <1>2, TypeServer, TypeOthers DEF Next

\* Types: the server never reads past the end of the file, so that a packet
\* belongs to one of its frames.
THEOREM UdpTypes == Spec => []TypeOK
BY UdpTypesInit, UdpTypesNext, PTL DEF Spec

-----------------------------------------------------------------------------
(* The copy.                                                               *)

LEMMA AckIsNotNext ==
  ASSUME NEW f, NEW n, NEW z
  PROVE  <<Ack(f, n, z)>> # <<NextFrame>>
<1>1. Ack(f, n, z).kind = "ack" /\ NextFrame.kind = "NEXT_FRAME_CMD"
  BY DEF Ack, NextFrame
<1>2. <<Ack(f, n, z)>>[1] = Ack(f, n, z) /\ <<NextFrame>>[1] = NextFrame
  OBVIOUS
<1> QED
  BY <1>1, <1>2

LEMMA Single ==
  ASSUME NEW x
  PROVE  /\ <<x>> # <<>> /\ Len(<<x>>) = 1 /\ <<x>>[1] = x
         /\ Head(<<x>>) = x /\ Tail(<<x>>) = <<>>
         /\ Append(<<>>, x) = <<x>>
OBVIOUS

LEMMA ServerKeeps ==
  ASSUME UdpInv, TypeOK', FileInv', Server \/ ReadFails \/ SendFails
  PROVE  TcpInv' /\ CopyInv' /\ LeadInv' /\ CountInv'
<1> USE AckIsNotNext DEF UdpInv, TypeOK, serverVars, clientVars, tcpVars, sendVars, Idle, Waiting, Acked, Current, Owed, Newest, Expected
<1>1. CASE Loop
  <2>1. TcpInv'
    BY <1>1 DEF Loop, TcpInv, CopyInv, LeadInv, CountInv
  <2>2. CopyInv'
    BY <1>1 DEF Loop, TcpInv, CopyInv, LeadInv, CountInv
  <2>3. LeadInv'
    BY <1>1 DEF Loop, TcpInv, CopyInv, LeadInv, CountInv
  <2>4. CountInv'
    BY <1>1 DEF Loop, TcpInv, CopyInv, LeadInv, CountInv
  <2> QED
    BY <2>1, <2>2, <2>3, <2>4
<1>2. CASE WaitNext
  <2>1. TcpInv'
    <3>1. CASE toServer = <<NextFrame>>
      <4>1. toServer' = <<>> /\ spc' \in {"exit", "read"} /\ cpc = "recv" /\ Current
        BY <1>2, <3>1, Single DEF WaitNext, TcpInv
      <4> QED
        BY <1>2, <3>1, <4>1 DEF WaitNext, TcpInv
    <3>2. CASE toServer = <<>>
      BY <1>2, <3>2 DEF WaitNext, TcpInv
    <3> QED
      BY <1>2, <3>1, <3>2 DEF WaitNext, TcpInv
  <2>2. CopyInv'
    BY <1>2 DEF WaitNext, TcpInv, CopyInv, LeadInv, CountInv
  <2>3. LeadInv'
    BY <1>2 DEF WaitNext, TcpInv, CopyInv, LeadInv, CountInv
  <2>4. CountInv'
    BY <1>2 DEF WaitNext, TcpInv, CopyInv, LeadInv, CountInv
  <2> QED
    BY <2>1, <2>2, <2>3, <2>4
<1>3. CASE ReadFrame
  <2>1. TcpInv'
    BY <1>3 DEF ReadFrame, TcpInv, CopyInv, LeadInv, CountInv
  <2>2. CopyInv'
    BY <1>3 DEF ReadFrame, TcpInv, CopyInv, LeadInv, CountInv
  <2>3. LeadInv'
    BY <1>3 DEF ReadFrame, TcpInv, CopyInv, LeadInv, CountInv
  <2>4. CountInv'
    BY <1>3 DEF ReadFrame, TcpInv, CopyInv, LeadInv, CountInv
  <2> QED
    BY <2>1, <2>2, <2>3, <2>4
<1>4. CASE SendPacket
  <2>5. PICK p \in Packets : Transmit(p) /\ p.num = i /\ p.last = done'
    <3>1. Len(sizes) \in 1 .. MaxFrames
      BY <1>4 DEF FileInv, SendPacket
    <3>2. \A z \in Nat, l, ff \in BOOLEAN :
            Packet(z, l, ff) \in Packets /\ Packet(z, l, ff).num = i /\ Packet(z, l, ff).last = l
      BY <3>1 DEF Packet, Packets
    <3>3. CASE left < PacketSize
      <4>0. ~(left > PacketSize)
        BY <3>3, UdpAssumption
      <4>1. PICK ff \in BOOLEAN : Transmit(Packet(left, TRUE, ff)) /\ done' = TRUE
        BY <1>4, <4>0, Zenon DEF SendPacket
      <4> QED
        BY <3>2, <4>1
    <3>4. CASE left > PacketSize
      <4>0. ~(left < PacketSize)
        BY <3>4, UdpAssumption
      <4>1. Transmit(Packet(PacketSize, FALSE, FALSE)) /\ done' = done
        BY <1>4, <4>0, Zenon DEF SendPacket
      <4>2. done = FALSE
        BY <1>4, Zenon DEF SendPacket, FileInv
      <4> QED
        BY <3>2, <4>1, <4>2, UdpAssumption
    <3> QED
      BY <1>4, <3>3, <3>4 DEF SendPacket
  <2>6. /\ sent' \in Seq(Packets) /\ Len(sent') = Len(sent) + 1
        /\ \A k \in 1 .. Len(sent) : sent'[k] = sent[k]
        /\ sent'[Len(sent')] = p
    BY <2>5, AppendProperties DEF Transmit
  <2>7. udp = <<>> /\ udp' = Append(udp, p) /\ udp' = <<p>> /\ spc' = "ack" /\ toServer' = <<>>
    BY <1>4, <2>5, Single DEF SendPacket, Transmit, TcpInv, LeadInv, ClientPlaces
  <2>1. TcpInv'
    BY <1>4 DEF SendPacket, Transmit, TcpInv
  <2>2. CopyInv'
    <3>1. UNCHANGED <<cpc, msg, file, i>> /\ Len(file) \in Nat /\ Len(sent) \in Nat
      BY <1>4 DEF SendPacket
    <3>2. ASSUME NEW k \in 1 .. Len(file)
          PROVE  file'[k] = sent'[k]
      <4>1. k \in 1 .. Len(sent) /\ file[k] = sent[k] /\ file' = file
        BY <3>1 DEF CopyInv
      <4> QED
        BY <2>6, <4>1
    <3>3. ASSUME cpc \in {"ack", "write"}
          PROVE  Owed' > 0 /\ msg = sent'[Len(file) + 1]
      <4>1. Len(file) + 1 \in 1 .. Len(sent) /\ msg = sent[Len(file) + 1] /\ file' = file
        BY <3>1, <3>3, SMTT(30) DEF CopyInv
      <4>2. sent'[Len(file) + 1] = sent[Len(file) + 1]
        BY <2>6, <4>1
      <4> QED
        BY <2>6, <3>1, <4>1, <4>2
    <3>4. sent' # <<>> /\ udp' = <<Newest'>>
      BY <2>6, <2>7
    <3> QED
      BY <2>5, <2>6, <3>1, <3>2, <3>3, <3>4 DEF CopyInv
  <2>3. LeadInv'
    BY <1>4, <2>5, <2>6, <2>7 DEF SendPacket, TcpInv, CopyInv, LeadInv, CountInv
  <2>4. CountInv'
    BY <1>4 DEF SendPacket, Transmit, Packet, TcpInv, CopyInv, LeadInv, CountInv
  <2> QED
    BY <2>1, <2>2, <2>3, <2>4
<1>5. CASE SendBreaks
  <2>1. TcpInv'
    BY <1>5 DEF SendBreaks, AfterSend, TcpInv, CopyInv, LeadInv, CountInv
  <2>2. CopyInv'
    BY <1>5 DEF SendBreaks, AfterSend, TcpInv, CopyInv, LeadInv, CountInv
  <2>3. LeadInv'
    BY <1>5 DEF SendBreaks, AfterSend, TcpInv, CopyInv, LeadInv, CountInv
  <2>4. CountInv'
    BY <1>5 DEF SendBreaks, AfterSend, TcpInv, CopyInv, LeadInv, CountInv
  <2> QED
    BY <2>1, <2>2, <2>3, <2>4
<1>6. CASE ReadAck
  <2>1. TcpInv'
    <3>1. toServer' = <<>> /\ toServer # <<NextFrame>>
      <4>1. CASE toServer = <<>>
        BY <1>6, <4>1, Single DEF ReadAck
      <4>2. CASE toServer = <<Expected>>
        <5>1. toServer' = Tail(toServer)
          BY <1>6, <4>2, Single DEF ReadAck
        <5> QED
          BY <4>2, <5>1, Single, AckIsNotNext
      <4> QED
        BY <1>6, <4>1, <4>2 DEF ReadAck, TcpInv
    <3>2. spc' \in {"end", "send", "exit", "loop"} /\ toClient' = <<>>
      BY <1>6 DEF ReadAck, AfterSend, TcpInv
    <3> QED
      BY <1>6, <3>1, <3>2, Single DEF TcpInv
  <2>2. CopyInv'
    BY <1>6 DEF ReadAck, AfterSend, TcpInv, CopyInv, LeadInv, CountInv
  <2>3. LeadInv'
    BY <1>6 DEF ReadAck, AfterSend, TcpInv, CopyInv, LeadInv, CountInv
  <2>4. CountInv'
    BY <1>6 DEF ReadAck, AfterSend, TcpInv, CopyInv, LeadInv, CountInv
  <2> QED
    BY <2>1, <2>2, <2>3, <2>4
<1>7. CASE EndFrame
  <2>1. TcpInv'
    <3>1. toClient' = <<FrameEnd>> /\ toServer' = <<>> /\ spc' \in {"exit", "loop"}
      BY <1>7, Single DEF EndFrame, AfterSend, TcpInv
    <3> QED
      BY <3>1, Single DEF TcpInv
  <2>2. CopyInv'
    BY <1>7 DEF EndFrame, AfterSend, TcpInv, CopyInv, LeadInv, CountInv
  <2>3. LeadInv'
    BY <1>7 DEF EndFrame, AfterSend, TcpInv, CopyInv, LeadInv, CountInv
  <2>4. CountInv'
    BY <1>7 DEF EndFrame, AfterSend, TcpInv, CopyInv, LeadInv, CountInv
  <2> QED
    BY <2>1, <2>2, <2>3, <2>4
<1>8. CASE Exit
  <2>1. TcpInv'
    BY <1>8 DEF Exit, TcpInv, CopyInv, LeadInv, CountInv
  <2>2. CopyInv'
    BY <1>8 DEF Exit, TcpInv, CopyInv, LeadInv, CountInv
  <2>3. LeadInv'
    BY <1>8 DEF Exit, TcpInv, CopyInv, LeadInv, CountInv
  <2>4. CountInv'
    BY <1>8 DEF Exit, TcpInv, CopyInv, LeadInv, CountInv
  <2> QED
    BY <2>1, <2>2, <2>3, <2>4
<1>9. CASE ReadFails \/ SendFails
  <2>1. TcpInv'
    BY <1>9 DEF ReadFails, SendFails, AfterSend, TcpInv, CopyInv, LeadInv, CountInv
  <2>2. CopyInv'
    BY <1>9 DEF ReadFails, SendFails, AfterSend, TcpInv, CopyInv, LeadInv, CountInv
  <2>3. LeadInv'
    BY <1>9 DEF ReadFails, SendFails, AfterSend, TcpInv, CopyInv, LeadInv, CountInv
  <2>4. CountInv'
    BY <1>9 DEF ReadFails, SendFails, AfterSend, TcpInv, CopyInv, LeadInv, CountInv
  <2> QED
    BY <2>1, <2>2, <2>3, <2>4
<1> QED
  BY <1>1, <1>2, <1>3, <1>4, <1>5, <1>6, <1>7, <1>8, <1>9 DEF Server

LEMMA OthersKeep ==
  ASSUME UdpInv, TypeOK', FileInv', Client \/ WriteFails \/ Lose \/ ServerSignal \/ ClientSignal
  PROVE  TcpInv' /\ CopyInv' /\ LeadInv' /\ CountInv'
<1> USE AckIsNotNext DEF UdpInv, TypeOK, serverVars, clientVars, tcpVars, sendVars, Idle, Waiting, Acked, Current, Owed, Newest, Expected
<1>1. CASE Receive
  <2>1. TcpInv'
    BY <1>1 DEF Receive, TcpInv, CopyInv, LeadInv, CountInv
  <2>2. CopyInv'
    BY <1>1, SMTT(30) DEF Receive, TcpInv, CopyInv, LeadInv, CountInv
  <2>3. LeadInv'
    <3>1. cpc = "recv" /\ udp' = <<>> /\ cpc' \in {"ack", "done"} /\ Waiting /\ Owed = 1
      <4>1. udp = <<Newest>> /\ udp # <<>> /\ udp' = Tail(udp)
        BY <1>1 DEF Receive, CopyInv
      <4>2. udp' = <<>>
        BY <4>1, Single
      <4>3. cpc = "recv" /\ cpc' \in {"ack", "done"}
        BY <1>1 DEF Receive
      <4> QED
        BY <4>1, <4>2, <4>3 DEF LeadInv
    <3>2. UNCHANGED <<spc, toServer, sent, file>> /\ Len(sent) \in Nat /\ Len(file) \in Nat
      BY <1>1 DEF Receive
    <3> QED
      BY <3>1, <3>2 DEF LeadInv
  <2>4. CountInv'
    BY <1>1, SMTT(30) DEF Receive, TcpInv, CopyInv, LeadInv, CountInv
  <2> QED
    BY <2>1, <2>2, <2>3, <2>4
<1>2. CASE SendAck
  <2>1. TcpInv'
    BY <1>2 DEF SendAck, TcpInv, CopyInv, LeadInv, CountInv
  <2>2. CopyInv'
    BY <1>2 DEF SendAck, TcpInv, CopyInv, LeadInv, CountInv
  <2>3. LeadInv'
    BY <1>2 DEF SendAck, TcpInv, CopyInv, LeadInv, CountInv
  <2>4. CountInv'
    <3>1. toServer' # <<>> /\ spc = "ack" /\ cpc = "ack" /\ Current
      BY <1>2, Single DEF SendAck, LeadInv, CountInv
    <3>2. msg = Newest
      BY <1>2 DEF SendAck, CopyInv, LeadInv
    <3>3. msg.last => done
      BY <3>1, <3>2, Zenon DEF CopyInv
    <3> QED
      BY <1>2, <3>1, <3>3 DEF SendAck, CountInv
  <2> QED
    BY <2>1, <2>2, <2>3, <2>4
<1>3. CASE Write
  <2>1. TcpInv'
    BY <1>3 DEF Write, TcpInv, CopyInv, LeadInv, CountInv
  <2>2. CopyInv'
    BY <1>3, SMTT(30) DEF Write, TcpInv, CopyInv, LeadInv, CountInv
  <2>3. LeadInv'
    BY <1>3 DEF Write, TcpInv, CopyInv, LeadInv, CountInv
  <2>4. CountInv'
    BY <1>3 DEF Write, TcpInv, CopyInv, LeadInv, CountInv
  <2> QED
    BY <2>1, <2>2, <2>3, <2>4
<1>4. CASE AskNext
  <2>1. TcpInv'
    BY <1>4 DEF AskNext, TcpInv, CopyInv, LeadInv, CountInv
  <2>2. CopyInv'
    BY <1>4 DEF AskNext, TcpInv, CopyInv, LeadInv, CountInv
  <2>3. LeadInv'
    BY <1>4 DEF AskNext, TcpInv, CopyInv, LeadInv, CountInv
  <2>4. CountInv'
    BY <1>4 DEF AskNext, TcpInv, CopyInv, LeadInv, CountInv
  <2> QED
    BY <2>1, <2>2, <2>3, <2>4
<1>5. CASE WriteFails
  <2>1. TcpInv'
    BY <1>5 DEF WriteFails, TcpInv, CopyInv, LeadInv, CountInv
  <2>2. CopyInv'
    BY <1>5 DEF WriteFails, TcpInv, CopyInv, LeadInv, CountInv
  <2>3. LeadInv'
    <3>1. Acked => ~Waiting
      BY Single
    <3> QED
      BY <1>5, <3>1 DEF WriteFails, LeadInv
  <2>4. CountInv'
    BY <1>5 DEF WriteFails, TcpInv, CopyInv, LeadInv, CountInv
  <2> QED
    BY <2>1, <2>2, <2>3, <2>4
<1>6. CASE Lose
  <2>1. TcpInv'
    BY <1>6 DEF Lose, TcpInv, CopyInv, LeadInv, CountInv
  <2>2. CopyInv'
    BY <1>6, SMTT(30) DEF Lose, TcpInv, CopyInv, LeadInv, CountInv
  <2>3. LeadInv'
    BY <1>6 DEF Lose, TcpInv, CopyInv, LeadInv, CountInv
  <2>4. CountInv'
    BY <1>6 DEF Lose, TcpInv, CopyInv, LeadInv, CountInv
  <2> QED
    BY <2>1, <2>2, <2>3, <2>4
<1>7. CASE ServerSignal
  <2>1. TcpInv'
    BY <1>7 DEF ServerSignal, TcpInv, CopyInv, LeadInv, CountInv
  <2>2. CopyInv'
    BY <1>7 DEF ServerSignal, TcpInv, CopyInv, LeadInv, CountInv
  <2>3. LeadInv'
    BY <1>7 DEF ServerSignal, TcpInv, CopyInv, LeadInv, CountInv
  <2>4. CountInv'
    BY <1>7 DEF ServerSignal, TcpInv, CopyInv, LeadInv, CountInv
  <2> QED
    BY <2>1, <2>2, <2>3, <2>4
<1>8. CASE ClientSignal
  <2>1. TcpInv'
    BY <1>8 DEF ClientSignal, TcpInv, CopyInv, LeadInv, CountInv
  <2>2. CopyInv'
    BY <1>8 DEF ClientSignal, TcpInv, CopyInv, LeadInv, CountInv
  <2>3. LeadInv'
    BY <1>8 DEF ClientSignal, TcpInv, CopyInv, LeadInv, CountInv
  <2>4. CountInv'
    BY <1>8 DEF ClientSignal, TcpInv, CopyInv, LeadInv, CountInv
  <2> QED
    BY <2>1, <2>2, <2>3, <2>4
<1> QED
  BY <1>1, <1>2, <1>3, <1>4, <1>5, <1>6, <1>7, <1>8 DEF Client

LEMMA UdpInvInit == Init => UdpInv
<1> SUFFICES ASSUME Init PROVE UdpInv
  OBVIOUS
<1>1. TypeOK /\ FileInv
  BY UdpTypesInit
<1>2. TcpInv
  BY Single DEF Init, TcpInv, Idle, Current
<1>3. CopyInv /\ LeadInv /\ CountInv
  BY Single DEF Init, CopyInv, LeadInv, CountInv, Idle, Current, Waiting, Acked, Owed
<1> QED
  BY <1>1, <1>2, <1>3 DEF UdpInv

LEMMA UdpInvNext == UdpInv /\ [Next]_vars => UdpInv'
<1> SUFFICES ASSUME UdpInv, [Next]_vars
             PROVE  UdpInv'
  OBVIOUS
<1>1. TypeOK' /\ FileInv'
  BY UdpTypesNext DEF UdpInv
<1>2. CASE Next
  BY <1>1, <1>2, ServerKeeps, OthersKeep DEF Next, UdpInv
<1>3. CASE UNCHANGED vars
  BY <1>1, <1>3 DEF UdpInv, TcpInv, CopyInv, LeadInv, CountInv, Idle, Current, Waiting,
     Acked, Owed, Newest, Expected, vars, serverVars, clientVars, tcpVars, sendVars
<1> QED
  BY <1>2, <1>3

LEMMA UdpInvariant == Spec => []UdpInv
BY UdpInvInit, UdpInvNext, PTL DEF Spec

\* Whatever is lost or fails, the file is a beginning of what was sent, and the
\* server is at most one packet ahead of what the client acknowledged.
THEOREM UdpOneAhead == Spec => []OneAhead
<1>1. UdpInv => OneAhead
  BY DEF UdpInv, TypeOK, CopyInv, LeadInv, OneAhead, ClientPlaces, Owed
<1> QED
  BY <1>1, UdpInvariant, PTL

\* No frame is ever given up for an acknowledgement with a wrong number, and no
\* two commands are ever on the connection.
THEOREM UdpAckMatches == Spec => []AckMatches
<1>1. UdpInv => AckMatches
  <2> SUFFICES ASSUME UdpInv PROVE AckMatches
    OBVIOUS
  <2>1. toServer = <<>> \/ toServer = <<NextFrame>> \/ (spc = "ack" /\ toServer = <<Expected>>)
    BY DEF UdpInv, TypeOK, ServerPlaces, TcpInv, Idle
  <2>2. NextFrame.kind # "ack"
    BY DEF NextFrame
  <2> QED
    <3>1. CASE toServer = <<>>
      BY <3>1 DEF AckMatches
    <3>2. CASE toServer = <<NextFrame>>
      BY <2>2, <3>2, Single DEF AckMatches
    <3>3. CASE spc = "ack" /\ toServer = <<Expected>>
      <4>1. Len(toServer) = 1 /\ toServer[1] = Expected
        BY <3>3, Single
      <4> QED
        BY <3>3, <4>1 DEF AckMatches
    <3> QED
      BY <2>1, <3>1, <3>2, <3>3
<1> QED
  BY <1>1, UdpInvariant, PTL

-----------------------------------------------------------------------------
(* Whole frames.                                                           *)
(*                                                                         *)
(* The packets sent are cut from their frames one after the other, and a   *)
(* frame is begun only when the last packet of the one before is in the    *)
(* file: its packets are then an unbroken stretch of the file, and the     *)
(* bytes of each begin where those of the one before it end.               *)

\* A packet of a frame follows the one with the number before, the first follows
\* the end of an earlier frame.
LinkInv ==
  \A k \in 1 .. Len(sent) :
    /\ sent[k].num = 0 => k = 1 \/ (sent[k - 1].last /\ sent[k - 1].frame < sent[k].frame)
    /\ sent[k].num > 0 => /\ k > 1 /\ ~sent[k - 1].last
                          /\ sent[k - 1].frame = sent[k].frame
                          /\ sent[k - 1].num = sent[k].num - 1

\* All packets of a frame are full but the last, which has the rest.
CutInv ==
  \A k \in 1 .. Len(sent) :
    /\ sent[k].frame \in 1 .. Len(sizes)
    /\ sent[k].last => /\ sent[k].size < PacketSize
                       /\ sent[k].num * PacketSize + sent[k].size = sizes[sent[k].frame]
    /\ ~sent[k].last => sent[k].size = PacketSize

\* What udp_send has still to send.
RestInv ==
  /\ spc = "send" =>
       /\ i * PacketSize + left = sizes[Len(sizes)]
       /\ i = 0 /\ sent # <<>> => Newest.last /\ Newest.frame < Len(sizes)
       /\ i # 0 => sent # <<>> /\ Newest.frame = Len(sizes) /\ Newest.num = i - 1 /\ ~Newest.last
  /\ spc = "ack" =>
       /\ Newest.frame = Len(sizes)
       /\ ~done => (i + 1) * PacketSize + left = sizes[Len(sizes)]

\* The next frame is asked for when the file has the last packet of this one.
Ended(f) == \E k \in 1 .. Len(file) : file[k].frame = f /\ file[k].last
EndInv ==
  /\ \A f \in 1 .. Len(sizes) - 1 : Ended(f)
  /\ spc = "read" \/ toServer = <<NextFrame>> =>
       /\ sizes = <<>> => sent = <<>>
       /\ sizes # <<>> => sent # <<>> /\ Newest.last /\ Newest.frame = Len(sizes)
  /\ cpc = "ack" \/ (cpc \in {"write", "endwait"} /\ msg.last) => msg.frame = Len(sizes)
  /\ cpc = "endwait" => file # <<>> /\ msg = file[Len(file)] /\ msg.last

WholeInv == LinkInv /\ CutInv /\ RestInv /\ EndInv

\* What SendPacket sends.
LEMMA PacketIs ==
  ASSUME TypeOK, FileInv, SendPacket
  PROVE  \E p \in Packets :
           /\ p.frame = Len(sizes) /\ p.num = i /\ Len(sizes) \in Nat \ {0}
           /\ sent' = Append(sent, p) /\ spc' = "ack" /\ UNCHANGED <<sizes, i>>
           /\ \/ p.last /\ p.size = left /\ left < PacketSize /\ left' = left /\ done'
              \/ /\ ~p.last /\ p.size = PacketSize
                 /\ left > PacketSize /\ left' = left - PacketSize /\ ~done'
<1>1. Len(sizes) \in 1 .. MaxFrames /\ ~done /\ i \in Nat /\ left \in Nat /\ PacketSize \in Nat
  BY UdpAssumption DEF FileInv, SendPacket, TypeOK
<1>2. \A s \in Nat, l, ff \in BOOLEAN :
        /\ Packet(s, l, ff) \in Packets
        /\ Packet(s, l, ff).frame = Len(sizes) /\ Packet(s, l, ff).num = i
        /\ Packet(s, l, ff).last = l /\ Packet(s, l, ff).size = s
  BY <1>1 DEF Packet, Packets
<1>3. UNCHANGED <<sizes, i>>
  BY DEF SendPacket
<1>4. CASE /\ left < PacketSize /\ done' = TRUE /\ left' = left
           /\ \E ff \in BOOLEAN : Transmit(Packet(left, TRUE, ff))
  <2>1. PICK ff \in BOOLEAN : Transmit(Packet(left, TRUE, ff))
    BY <1>4
  <2> DEFINE p == Packet(left, TRUE, ff)
  <2>2. /\ p \in Packets /\ p.frame = Len(sizes) /\ p.num = i /\ p.last = TRUE /\ p.size = left
        /\ sent' = Append(sent, p) /\ spc' = "ack"
    BY <1>1, <1>2, <2>1 DEF Transmit
  <2> HIDE DEF p
  <2> QED BY <1>1, <1>3, <1>4, <2>2
<1>5. CASE /\ left > PacketSize /\ left' = left - PacketSize /\ done' = done
           /\ Transmit(Packet(PacketSize, FALSE, FALSE))
  <2> DEFINE p == Packet(PacketSize, FALSE, FALSE)
  <2>2. /\ p \in Packets /\ p.frame = Len(sizes) /\ p.num = i /\ p.last = FALSE /\ p.size = PacketSize
        /\ sent' = Append(sent, p) /\ spc' = "ack"
    BY <1>1, <1>2, <1>5 DEF Transmit
  <2> HIDE DEF p
  <2> QED BY <1>1, <1>3, <1>5, <2>2
<1> QED BY <1>4, <1>5 DEF SendPacket

\* No other step sends, and only ReadFrame begins a frame.
LEMMA SentStays ==
  ASSUME [Next]_vars, ~SendPacket
  PROVE  sent' = sent
BY DEF Next, Server, Client, Loop, WaitNext, ReadFrame, SendBreaks, ReadFails, SendFails, ReadAck, EndFrame, Exit,
   Receive, SendAck, Write, AskNext, WriteFails, Lose, ServerSignal, ClientSignal, vars

LEMMA SizesStay ==
  ASSUME [Next]_vars, ~ReadFrame
  PROVE  sizes' = sizes
BY DEF Next, Server, Client, Loop, WaitNext, SendPacket, SendBreaks, ReadFails, SendFails, ReadAck, EndFrame, Exit,
   Receive, SendAck, Write, AskNext, WriteFails, Lose, ServerSignal, ClientSignal, vars, serverVars

LEMMA NewFrame ==
  ASSUME TypeOK, ReadFrame
  PROVE  /\ Len(sizes) \in Nat /\ Len(sizes') = Len(sizes) + 1
         /\ \A f \in 1 .. Len(sizes) : sizes'[f] = sizes[f]
         /\ sizes'[Len(sizes')] = left' /\ left' \in Nat
         /\ spc = "read" /\ spc' = "send" /\ i' = 0
         /\ UNCHANGED <<udp, toServer, toClient, cpc, msg, file, sent>>
<1>1. PICK s \in Sizes : sizes' = Append(sizes, s) /\ left' = s
  BY DEF ReadFrame
<1>2. sizes \in Seq(Sizes) /\ s \in Nat
  BY UdpAssumption DEF TypeOK
<1>3. /\ Len(sizes) \in Nat /\ Len(sizes') = Len(sizes) + 1
      /\ \A f \in 1 .. Len(sizes) : sizes'[f] = sizes[f]
      /\ sizes'[Len(sizes) + 1] = s
  BY <1>1, <1>2, AppendProperties
<1> QED BY <1>1, <1>2, <1>3 DEF ReadFrame, tcpVars, clientVars

LEMMA LinkNext == UdpInv /\ WholeInv /\ [Next]_vars => LinkInv'
<1> SUFFICES ASSUME UdpInv, WholeInv, [Next]_vars PROVE LinkInv'
  OBVIOUS
<1>1. CASE SendPacket
  <2>1. PICK p \in Packets : sent' = Append(sent, p) /\ p.frame = Len(sizes) /\ p.num = i
    BY <1>1, PacketIs DEF UdpInv
  <2>2. /\ sent \in Seq(Packets) /\ Len(sent) \in Nat /\ i \in Nat /\ spc = "send"
        /\ Len(sent') = Len(sent) + 1 /\ sent'[Len(sent) + 1] = p
        /\ \A k \in 1 .. Len(sent) : sent'[k] = sent[k]
    BY <1>1, <2>1, AppendProperties DEF UdpInv, TypeOK, SendPacket
  <2>3. ASSUME NEW k \in 1 .. Len(sent')
        PROVE  /\ sent'[k].num = 0 => k = 1 \/ (sent'[k - 1].last /\ sent'[k - 1].frame < sent'[k].frame)
               /\ sent'[k].num > 0 => /\ k > 1 /\ ~sent'[k - 1].last
                                      /\ sent'[k - 1].frame = sent'[k].frame
                                      /\ sent'[k - 1].num = sent'[k].num - 1
    <3>1. CASE k \in 1 .. Len(sent)
      <4>1. sent'[k] = sent[k] /\ (k = 1 \/ (k > 1 /\ sent'[k - 1] = sent[k - 1]))
        BY <2>2, <3>1
      <4> QED BY <3>1, <4>1 DEF WholeInv, LinkInv
    <3>2. CASE k = Len(sent) + 1
      <4>1. sent'[k] = p /\ (k = 1 \/ (k > 1 /\ sent'[k - 1] = Newest /\ sent # <<>>))
        BY <2>2, <3>2, EmptySeq DEF Newest
      <4>2. k = 1 => sent = <<>>
        BY <2>2, <3>2, EmptySeq
      <4>3. /\ i = 0 => k = 1 \/ (Newest.last /\ Newest.frame < p.frame)
            /\ i > 0 => k > 1 /\ Newest.frame = p.frame /\ Newest.num = i - 1 /\ ~Newest.last
        BY <2>1, <2>2, <4>1, <4>2 DEF WholeInv, RestInv
      <4> QED BY <2>1, <2>2, <4>1, <4>3
    <3> QED BY <2>2, <3>1, <3>2
  <2> QED BY <2>3 DEF LinkInv
<1>2. CASE ~SendPacket
  BY <1>2, SentStays DEF WholeInv, LinkInv
<1> QED BY <1>1, <1>2

LEMMA CutNext == UdpInv /\ WholeInv /\ [Next]_vars => CutInv'
<1> SUFFICES ASSUME UdpInv, WholeInv, [Next]_vars PROVE CutInv'
  OBVIOUS
<1> DEFINE CutOf(p, z) == /\ p.frame \in 1 .. Len(z)
                          /\ p.last => /\ p.size < PacketSize
                                       /\ p.num * PacketSize + p.size = z[p.frame]
                          /\ ~p.last => p.size = PacketSize
<1>0. \A k \in 1 .. Len(sent) : CutOf(sent[k], sizes)
  BY DEF WholeInv, CutInv
<1>1. SUFFICES \A k \in 1 .. Len(sent') : CutOf(sent'[k], sizes')
  BY DEF CutInv
<1>2. CASE SendPacket
  <2>1. PICK p \in Packets :
           /\ p.frame = Len(sizes) /\ p.num = i /\ Len(sizes) \in Nat \ {0}
           /\ sent' = Append(sent, p) /\ sizes' = sizes
           /\ \/ p.last /\ p.size = left /\ left < PacketSize
              \/ ~p.last /\ p.size = PacketSize
    BY <1>2, PacketIs DEF UdpInv
  <2>2. /\ sent \in Seq(Packets) /\ Len(sent) \in Nat
        /\ Len(sent') = Len(sent) + 1 /\ sent'[Len(sent) + 1] = p
        /\ \A k \in 1 .. Len(sent) : sent'[k] = sent[k]
    BY <2>1, AppendProperties DEF UdpInv, TypeOK
  <2>3. i * PacketSize + left = sizes[Len(sizes)]
    BY <1>2 DEF SendPacket, WholeInv, RestInv
  <2>4. CutOf(p, sizes)
    BY <2>1, <2>3
  <2> HIDE DEF CutOf
  <2>5. \A k \in 1 .. Len(sent') : k \in 1 .. Len(sent) \/ k = Len(sent) + 1
    BY <2>2
  <2> QED BY <1>0, <2>1, <2>2, <2>4, <2>5
<1>3. CASE ReadFrame
  <2>1. /\ sent' = sent /\ Len(sizes) \in Nat /\ Len(sizes') = Len(sizes) + 1
        /\ \A f \in 1 .. Len(sizes) : sizes'[f] = sizes[f]
    BY <1>3, NewFrame DEF UdpInv
  <2>2. \A k \in 1 .. Len(sent) : sent[k].frame \in 1 .. Len(sizes')
    BY <1>0, <2>1
  <2> QED BY <1>0, <2>1, <2>2
<1>4. CASE ~SendPacket /\ ~ReadFrame
  BY <1>0, <1>4, SentStays, SizesStay
<1> QED BY <1>2, <1>3, <1>4

LEMMA RestNext == UdpInv /\ UdpInv' /\ WholeInv /\ [Next]_vars => RestInv'
<1> SUFFICES ASSUME UdpInv, UdpInv', WholeInv, [Next]_vars PROVE RestInv'
  OBVIOUS
<1>0. i \in Nat /\ left \in Nat /\ PacketSize \in Nat
  BY UdpAssumption DEF UdpInv, TypeOK
<1>1. CASE SendPacket
  <2>1. PICK p \in Packets :
           /\ p.frame = Len(sizes) /\ sent' = Append(sent, p) /\ spc' = "ack"
           /\ UNCHANGED <<sizes, i>>
           /\ done' \/ left' = left - PacketSize
    BY <1>1, PacketIs DEF UdpInv
  <2>2. sent'[Len(sent')] = p
    BY <2>1, AppendProperties DEF UdpInv, TypeOK
  <2>3. i * PacketSize + left = sizes[Len(sizes)]
    BY <1>1 DEF SendPacket, WholeInv, RestInv
  <2>4. ~done' => (i + 1) * PacketSize + left' = sizes[Len(sizes)]
    <3>1. (i + 1) * PacketSize = i * PacketSize + PacketSize
      BY <1>0
    <3> DEFINE x == i * PacketSize  y == (i + 1) * PacketSize
    <3>2. x \in Nat
      BY <1>0
    <3> HIDE DEF x, y
    <3>3. x + left = sizes[Len(sizes)] /\ y = x + PacketSize
      BY <2>3, <3>1 DEF x, y
    <3>4. ~done' => y + left' = sizes[Len(sizes)]
      BY <1>0, <2>1, <3>2, <3>3
    <3> QED BY <3>4 DEF y
  <2> QED BY <2>1, <2>2, <2>4 DEF RestInv, Newest
<1>2. CASE ReadFrame
  <2>1. /\ Len(sizes) \in Nat /\ Len(sizes') = Len(sizes) + 1
        /\ sizes'[Len(sizes')] = left' /\ left' \in Nat
        /\ spc = "read" /\ spc' = "send" /\ i' = 0 /\ sent' = sent
    BY <1>2, NewFrame DEF UdpInv
  <2>2. sent # <<>> => Newest.last /\ Newest.frame < Len(sizes')
    <3>1. sizes = <<>> => sent = <<>>
      BY <2>1 DEF WholeInv, EndInv
    <3>2. sizes # <<>> => Newest.last /\ Newest.frame = Len(sizes)
      BY <2>1 DEF WholeInv, EndInv
    <3> QED BY <2>1, <3>1, <3>2
  <2>3. i' * PacketSize + left' = sizes'[Len(sizes')]
    <3> DEFINE x == i' * PacketSize  l == left'
    <3>1. x = 0 /\ l \in Nat
      BY <1>0, <2>1
    <3> HIDE DEF x, l
    <3>2. x + l = l
      BY <3>1
    <3> QED BY <2>1, <3>2 DEF x, l
  <2> QED BY <2>1, <2>2, <2>3 DEF RestInv, Newest
<1>3. CASE ReadAck
  <2>1. /\ sent' = sent /\ sizes' = sizes /\ UNCHANGED <<left, done>>
        /\ spc = "ack" /\ spc' # "ack"
        /\ spc' = "send" => i' = i + 1 /\ ~done
    BY <1>3 DEF ReadAck, AfterSend, sendVars
  <2>2. sent # <<>> /\ Newest.num = i /\ Newest.last = done
    BY <2>1 DEF UdpInv, CopyInv
  <2>3. Newest.frame = Len(sizes) /\ (~done => (i + 1) * PacketSize + left = sizes[Len(sizes)])
    BY <2>1 DEF WholeInv, RestInv
  <2>4. spc' = "send" => i' * PacketSize + left' = sizes'[Len(sizes')]
    <3> DEFINE x == i + 1
    <3> HIDE DEF x
    <3> QED BY <2>1, <2>3 DEF x
  <2>5. spc' = "send" => /\ sent' # <<>> /\ Newest' = Newest /\ Newest.frame = Len(sizes')
                         /\ Newest.num = i' - 1 /\ ~Newest.last /\ i' # 0
    BY <1>0, <2>1, <2>2, <2>3 DEF Newest
  <2> QED BY <2>1, <2>4, <2>5 DEF RestInv
<1>4. CASE ~SendPacket /\ ~ReadFrame /\ ~ReadAck
  <2>1. sent' = sent /\ sizes' = sizes
    BY <1>4, SentStays, SizesStay
  <2>2. spc' \in {"send", "ack"} => spc' = spc /\ UNCHANGED <<i, left, done>>
    BY <1>4 DEF Next, Server, Client, Loop, WaitNext, SendBreaks, ReadFails, SendFails, EndFrame, Exit, AfterSend,
       Receive, SendAck, Write, AskNext, WriteFails, Lose, ServerSignal, ClientSignal,
       vars, serverVars, sendVars
  <2> QED BY <2>1, <2>2 DEF WholeInv, RestInv, Newest
<1> QED BY <1>1, <1>2, <1>3, <1>4

\* The file only grows.
LEMMA FileGrows ==
  ASSUME TypeOK, FileInv, [Next]_vars
  PROVE  \/ file' = file
         \/ /\ Write /\ msg \in Packets /\ Len(file) \in Nat /\ Len(file') = Len(file) + 1
            /\ file'[Len(file')] = msg /\ \A k \in 1 .. Len(file) : file'[k] = file[k]
<1>1. CASE Write
  <2>1. file' = Append(file, msg) /\ msg \in Packets /\ file \in Seq(Packets)
    BY <1>1 DEF Write, FileInv, TypeOK
  <2> QED BY <1>1, <2>1, AppendProperties
<1>2. CASE ~Write
  BY <1>2 DEF Next, Server, Client, Loop, WaitNext, ReadFrame, SendPacket, SendBreaks, ReadFails, SendFails, ReadAck,
     EndFrame, Exit, Receive, SendAck, AskNext, WriteFails, Lose, ServerSignal, ClientSignal, vars, clientVars
<1> QED BY <1>1, <1>2

LEMMA EndedStays ==
  ASSUME TypeOK, FileInv, [Next]_vars, NEW f, Ended(f)
  PROVE  \E k \in 1 .. Len(file') : file'[k].frame = f /\ file'[k].last
<1>1. PICK k \in 1 .. Len(file) : file[k].frame = f /\ file[k].last
  BY DEF Ended
<1>2. k \in 1 .. Len(file') /\ file'[k] = file[k]
  BY FileGrows
<1> QED BY <1>1, <1>2

LEMMA EndNext == UdpInv /\ UdpInv' /\ WholeInv /\ [Next]_vars => EndInv'
<1> SUFFICES ASSUME UdpInv, UdpInv', WholeInv, [Next]_vars PROVE EndInv'
  OBVIOUS
<1> DEFINE Before == \A f \in 1 .. Len(sizes) - 1 : Ended(f)
           Asked == spc = "read" \/ toServer = <<NextFrame>> =>
                      /\ sizes = <<>> => sent = <<>>
                      /\ sizes # <<>> => sent # <<>> /\ Newest.last /\ Newest.frame = Len(sizes)
           Hand == cpc = "ack" \/ (cpc \in {"write", "endwait"} /\ msg.last) => msg.frame = Len(sizes)
           Wait == cpc = "endwait" => file # <<>> /\ msg = file[Len(file)] /\ msg.last
<1>0. TypeOK /\ FileInv /\ Before /\ Asked /\ Hand /\ Wait
  BY DEF UdpInv, WholeInv, EndInv
<1>a. SUFFICES Before' /\ Asked' /\ Hand' /\ Wait'
  BY DEF EndInv
<1>b. sizes' = sizes => Before'
  <2> SUFFICES ASSUME sizes' = sizes, NEW f \in 1 .. Len(sizes) - 1 PROVE Ended(f)'
    OBVIOUS
  <2>1. Ended(f)
    BY <1>0
  <2> HIDE DEF Before, Asked, Hand, Wait
  <2>2. \E k \in 1 .. Len(file') : file'[k].frame = f /\ file'[k].last
    BY <1>0, <2>1, EndedStays
  <2> QED BY <2>2 DEF Ended
<1>1. CASE ReadFrame
  <2>1. /\ Len(sizes) \in Nat /\ Len(sizes') = Len(sizes) + 1 /\ spc = "read" /\ spc' = "send"
        /\ UNCHANGED <<toServer, cpc, msg, file, sent>>
    BY <1>1, <1>0, NewFrame
  <2>2. cpc = "recv" /\ toServer = <<>>
    BY <2>1 DEF UdpInv, TcpInv
  <2>3. Before'
    <3> SUFFICES ASSUME NEW f \in 1 .. Len(sizes) PROVE Ended(f)
      BY <2>1 DEF Ended
    <3>1. CASE f < Len(sizes)
      BY <1>0, <2>1, <3>1
    <3>2. CASE f = Len(sizes)
      <4>1. sent # <<>> /\ Newest.last /\ Newest.frame = f
        BY <2>1, <3>2, EmptySeq DEF WholeInv, EndInv
      <4>2. Len(file) = Len(sent) /\ Len(sent) \in Nat
        BY <2>1, <2>2, <1>0 DEF UdpInv, LeadInv, CopyInv, Waiting, Owed, TypeOK
      <4>3. Len(sent) \in 1 .. Len(file) /\ file[Len(sent)] = sent[Len(sent)]
        <5>1. Len(sent) # 0
          BY <1>0, <4>1, EmptySeq DEF TypeOK
        <5>2. Len(sent) \in 1 .. Len(file)
          BY <4>2, <5>1
        <5> QED BY <5>2 DEF UdpInv, CopyInv
      <4> QED BY <4>1, <4>3 DEF Ended, Newest
    <3> QED BY <2>1, <3>1, <3>2
  <2>4. Asked' /\ Hand' /\ Wait'
    BY <1>0, <2>1, <2>2, Single
  <2> QED BY <2>3, <2>4
<1>2. CASE WaitNext
  <2>1. UNCHANGED <<sizes, sent, cpc, msg, file>>
    BY <1>2 DEF WaitNext, clientVars
  <2>2. spc' = "read" \/ toServer' = <<NextFrame>> => toServer = <<NextFrame>>
    BY <1>2, Single DEF WaitNext, UdpInv, TcpInv, Idle
  <2>3. Asked'
    BY <1>0, <2>1, <2>2 DEF Newest
  <2> QED BY <1>0, <1>b, <2>1, <2>3
<1>3. CASE SendPacket \/ ReadAck
  <2>1. UNCHANGED <<sizes, cpc, msg, file>> /\ spc' # "read" /\ toServer' = <<>>
    BY <1>3, Single DEF SendPacket, Transmit, ReadAck, AfterSend, clientVars, tcpVars, UdpInv, TcpInv
  <2> QED BY <1>0, <1>b, <2>1, Single
<1>4. CASE Loop \/ SendBreaks \/ ReadFails \/ SendFails \/ EndFrame \/ Exit
  <2>1. UNCHANGED <<sizes, sent, toServer, cpc, msg, file>> /\ spc' # "read"
    BY <1>4 DEF Loop, SendBreaks, ReadFails, SendFails, EndFrame, Exit, AfterSend, clientVars, tcpVars
  <2>2. Asked'
    BY <1>0, <2>1 DEF Newest
  <2> QED BY <1>0, <1>b, <2>1, <2>2
<1>5. CASE Receive
  <2>1. UNCHANGED <<sizes, sent, spc, toServer, file>> /\ cpc = "recv" /\ cpc' \in {"ack", "done"} /\ msg' = Head(udp) /\ udp # <<>>
    BY <1>5 DEF Receive, serverVars, tcpVars
  <2>2. msg' = Newest /\ spc = "ack"
    <3>1. udp = <<Newest>>
      BY <2>1 DEF UdpInv, CopyInv
    <3> QED BY <2>1, <3>1, Single DEF UdpInv, LeadInv, Waiting
  <2>3. msg'.frame = Len(sizes)
    BY <2>2 DEF WholeInv, RestInv
  <2>4. Asked'
    BY <1>0, <2>1 DEF Newest
  <2> QED BY <1>b, <2>1, <2>3, <2>4
<1>6. CASE SendAck
  <2>1. UNCHANGED <<sizes, sent, spc, msg, file>> /\ cpc = "ack" /\ cpc' = "write"
    BY <1>6 DEF SendAck, serverVars
  <2>2. spc = "ack" /\ spc' # "read" /\ toServer' # <<NextFrame>>
    <3>1. spc = "ack" /\ toServer = <<>>
      BY <2>1 DEF UdpInv, LeadInv, Waiting
    <3>2. toServer' = <<Ack(frameNum, msg.num, msg.size)>>
      BY <1>6, <3>1, Single DEF SendAck
    <3> QED BY <2>1, <3>1, <3>2, AckIsNotNext
  <2> QED BY <1>0, <1>b, <2>1, <2>2
<1>7. CASE Write
  <2>1. UNCHANGED <<sizes, sent, spc, toServer, msg>> /\ cpc = "write" /\ cpc' \in {"recv", "done", "endwait"}
        /\ (cpc' = "endwait" => msg.last)
    BY <1>7 DEF Write, serverVars, tcpVars
  <2>2. file' # <<>> /\ file'[Len(file')] = msg
    <3>1. file' = Append(file, msg) /\ msg \in Packets /\ file \in Seq(Packets)
      BY <1>0, <1>7 DEF Write, TypeOK, FileInv
    <3> HIDE DEF Before, Asked, Hand, Wait
    <3> QED BY <3>1, AppendProperties
  <2>3. Asked'
    BY <1>0, <2>1 DEF Newest
  <2> QED BY <1>0, <1>b, <2>1, <2>2, <2>3
<1>8. CASE AskNext
  <2>1. /\ UNCHANGED <<sizes, sent, spc, msg, file>> /\ cpc = "endwait" /\ cpc' \in {"recv", "endwait"}
        /\ toServer' = toServer \/ cpc' = "recv"
    BY <1>8 DEF AskNext, serverVars
  <2>2. sent # <<>> /\ Newest = msg /\ msg.last /\ msg.frame = Len(sizes) /\ Len(sizes) # 0
    <3>1. file # <<>> /\ msg = file[Len(file)] /\ msg.last /\ msg.frame = Len(sizes)
      BY <1>0, <2>1
    <3>2. Len(file) = Len(sent) /\ Len(sent) \in Nat
      BY <2>1, <1>0 DEF UdpInv, LeadInv, CopyInv, Owed, TypeOK
    <3>3. Len(file) \in 1 .. Len(file) /\ file[Len(file)] \in Packets /\ file[Len(file)] = sent[Len(sent)]
      <4>1. Len(file) # 0
        BY <1>0, <3>1, EmptySeq DEF TypeOK
      <4>2. Len(file) \in 1 .. Len(file)
        BY <3>2, <4>1
      <4>3. file[Len(file)] = sent[Len(file)]
        BY <4>2 DEF UdpInv, CopyInv
      <4>4. file \in Seq(Packets)
        BY <1>0 DEF TypeOK
      <4>5. file[Len(file)] \in Packets
        BY <4>2, <4>4
      <4> QED BY <3>2, <4>2, <4>3, <4>5
    <3>4. msg.frame # 0
      BY <3>1, <3>3 DEF Packets
    <3> QED BY <3>1, <3>2, <3>3, <3>4, EmptySeq DEF Newest
  <2>3. Asked'
    BY <2>1, <2>2, EmptySeq DEF Newest
  <2> QED BY <1>0, <1>b, <2>1, <2>3
<1>9. CASE WriteFails \/ Lose \/ ServerSignal \/ ClientSignal \/ UNCHANGED vars
  <2>1. UNCHANGED <<sizes, sent, spc, toServer, msg, file>> /\ cpc' \in {cpc, "done"}
    BY <1>9 DEF WriteFails, Lose, ServerSignal, ClientSignal, vars, serverVars, clientVars, tcpVars
  <2>2. Asked'
    BY <1>0, <2>1 DEF Newest
  <2> QED BY <1>0, <1>b, <2>1, <2>2
<1> HIDE DEF Before, Asked, Hand, Wait
<1> QED BY <1>1, <1>2, <1>3, <1>4, <1>5, <1>6, <1>7, <1>8, <1>9 DEF Next, Server, Client

LEMMA WholeInit == Init => WholeInv
<1> SUFFICES ASSUME Init PROVE WholeInv
  OBVIOUS
<1>1. LinkInv /\ CutInv /\ RestInv
  BY DEF Init, LinkInv, CutInv, RestInv
<1>2. EndInv
  BY DEF Init, EndInv
<1> QED BY <1>1, <1>2 DEF WholeInv

LEMMA WholeInvariant == Spec => [](UdpInv /\ WholeInv)
<1>1. UdpInv /\ UdpInv' /\ WholeInv /\ [Next]_vars => WholeInv'
  BY LinkNext, CutNext, RestNext, EndNext DEF WholeInv
<1> QED BY <1>1, UdpInvInit, UdpInvNext, WholeInit, PTL DEF Spec

\* What is true of the packets sent is true of those in the file.
Chain ==
  \A k \in 1 .. Len(file) :
    /\ file[k].num = 0 => k = 1 \/ (file[k - 1].last /\ file[k - 1].frame < file[k].frame)
    /\ file[k].num > 0 => /\ k > 1 /\ ~file[k - 1].last
                          /\ file[k - 1].frame = file[k].frame
                          /\ file[k - 1].num = file[k].num - 1

LEMMA FileFacts ==
  ASSUME UdpInv, WholeInv
  PROVE  /\ Chain /\ Len(file) \in Nat
         /\ \A k \in 1 .. Len(file) :
              /\ file[k].num \in Nat /\ file[k].size \in Nat /\ file[k].frame \in 1 .. Len(sizes)
              /\ file[k].last \in BOOLEAN
              /\ file[k].last => /\ file[k].size < PacketSize
                                 /\ file[k].num * PacketSize + file[k].size = sizes[file[k].frame]
              /\ ~file[k].last => file[k].size = PacketSize
<1>1. /\ Len(file) \in Nat /\ Len(sent) \in Nat /\ Len(file) <= Len(sent)
      /\ file \in Seq(Packets) /\ \A k \in 1 .. Len(file) : file[k] = sent[k]
  BY DEF UdpInv, TypeOK, CopyInv
<1>2. \A k \in 1 .. Len(file) : k \in 1 .. Len(sent) /\ (k = 1 \/ k - 1 \in 1 .. Len(file))
  BY <1>1
<1>3. \A k \in 1 .. Len(file) : file[k] \in Packets
  BY <1>1
<1>4. Chain
  BY <1>1, <1>2 DEF Chain, WholeInv, LinkInv
<1> QED BY <1>1, <1>2, <1>3, <1>4 DEF WholeInv, CutInv, Packets

\* A packet is of the frame of the one before it or of a later one.
LEMMA Onward ==
  ASSUME UdpInv, WholeInv, NEW q \in 1 .. Len(file), q # 1, q - 1 \in 1 .. Len(file)
  PROVE  file[q - 1].frame <= file[q].frame
<1>1. /\ Chain /\ file[q].num \in Nat
      /\ file[q].frame \in Nat /\ file[q - 1].frame \in Nat
  BY FileFacts
<1>2. CASE file[q].num = 0
  <2>1. file[q - 1].frame < file[q].frame
    BY <1>1, <1>2 DEF Chain
  <2> DEFINE fp == file[q - 1].frame  fq == file[q].frame
  <2> HIDE DEF fp, fq
  <2>2. fp \in Nat /\ fq \in Nat /\ fp < fq => fp <= fq
    OBVIOUS
  <2> QED BY <1>1, <2>1, <2>2 DEF fp, fq
<1>3. CASE file[q].num > 0
  <2>1. file[q - 1].frame = file[q].frame
    BY <1>1, <1>3 DEF Chain
  <2> QED BY <1>1, <2>1
<1>4. file[q].num = 0 \/ file[q].num > 0
  BY <1>1
<1> QED BY <1>2, <1>3, <1>4

\* The frames of the file are in their order.
LEMMA Ordered ==
  ASSUME UdpInv, WholeInv, NEW a \in 1 .. Len(file), NEW b \in 1 .. Len(file), a <= b
  PROVE  file[a].frame <= file[b].frame
<1> DEFINE T == {d \in Nat : a + d <= Len(file) /\ ~(file[a].frame <= file[a + d].frame)}
<1>0. /\ Len(file) \in Nat /\ Chain
      /\ \A k \in 1 .. Len(file) : file[k].num \in Nat /\ file[k].frame \in Nat
  BY FileFacts
<1>1. T = {}
  <2> SUFFICES ASSUME T # {} PROVE FALSE
    OBVIOUS
  <2>1. PICK d \in T : \A c \in T : d <= c
    <3>1. T \in SUBSET Nat
      OBVIOUS
    <3> HIDE DEF T
    <3> QED BY <3>1, Least
  <2>2. d \in Nat /\ a + d <= Len(file) /\ ~(file[a].frame <= file[a + d].frame)
    OBVIOUS
  <2>3. d # 0
    BY <1>0, <2>2
  <2>4. d - 1 \in Nat /\ d - 1 \notin T
    <3> HIDE DEF T
    <3> QED BY <2>1, <2>2, <2>3
  <2>5. file[a].frame <= file[a + (d - 1)].frame
    BY <1>0, <2>2, <2>4
  <2> DEFINE q == a + d
  <2>6. q \in 1 .. Len(file) /\ q - 1 = a + (d - 1) /\ q - 1 \in 1 .. Len(file) /\ q # 1
    BY <1>0, <2>2, <2>3
  <2> HIDE DEF q
  <2>7. file[q - 1].frame <= file[q].frame
    BY <2>6, Onward
  <2>8. file[a].frame <= file[q - 1].frame
    BY <2>5, <2>6
  <2> DEFINE fa == file[a].frame  fp == file[q - 1].frame  fq == file[q].frame
  <2>9. fa \in Nat /\ fp \in Nat /\ fq \in Nat /\ fa <= fp /\ fp <= fq
    BY <1>0, <2>6, <2>7, <2>8
  <2>10. fa <= fq
    <3> HIDE DEF fa, fp, fq
    <3> QED BY <2>9
  <2> QED BY <2>2, <2>10 DEF q
<1>2. b - a \in Nat /\ a + (b - a) = b
  BY <1>0
<1>3. b - a \notin T
  BY <1>1
<1> QED BY <1>0, <1>2, <1>3

\* Before the last packet of a frame are the others, down to number 0.
LEMMA Stretch ==
  ASSUME UdpInv, WholeInv, NEW k \in 1 .. Len(file), NEW j \in 0 .. file[k].num
  PROVE  /\ k - j \in 1 .. Len(file) /\ file[k - j].frame = file[k].frame
         /\ file[k - j].num = file[k].num - j /\ (j > 0 => ~file[k - j].last)
<1> DEFINE Right(d) == /\ k - d \in 1 .. Len(file) /\ file[k - d].frame = file[k].frame
                       /\ file[k - d].num = file[k].num - d /\ (d > 0 => ~file[k - d].last)
           T == {d \in 0 .. file[k].num : ~Right(d)}
<1>0. /\ Len(file) \in Nat /\ Chain
      /\ \A m \in 1 .. Len(file) : file[m].num \in Nat
  BY FileFacts
<1>1. T = {}
  <2> SUFFICES ASSUME T # {} PROVE FALSE
    OBVIOUS
  <2>1. PICK d \in T : \A c \in T : d <= c
    <3>1. T \in SUBSET Nat
      BY <1>0
    <3> HIDE DEF T
    <3> QED BY <3>1, Least
  <2>2. d \in 0 .. file[k].num /\ ~Right(d)
    OBVIOUS
  <2>3. d # 0
    BY <1>0, <2>2
  <2>4. d - 1 \in 0 .. file[k].num /\ d - 1 \notin T
    <3> HIDE DEF T
    <3> QED BY <1>0, <2>1, <2>2, <2>3
  <2>5. Right(d - 1)
    BY <2>4
  <2> DEFINE m == k - (d - 1)
  <2>6. m \in 1 .. Len(file) /\ file[m].frame = file[k].frame /\ file[m].num = file[k].num - (d - 1)
    BY <2>5
  <2>7. m - 1 = k - d /\ file[m].num > 0 /\ file[k].num - (d - 1) - 1 = file[k].num - d
    BY <1>0, <2>2, <2>3, <2>6
  <2> HIDE DEF m
  <2>8. m > 1 /\ ~file[m - 1].last /\ file[m - 1].frame = file[m].frame /\ file[m - 1].num = file[m].num - 1
    BY <1>0, <2>6, <2>7 DEF Chain
  <2>9. Right(d)
    BY <1>0, <2>6, <2>7, <2>8, SMTT(30)
  <2> QED BY <2>2, <2>9
<1> QED BY <1>1

\* The packets of an ended frame are that stretch, and nothing else.
LEMMA PacketsAre ==
  ASSUME UdpInv, WholeInv, NEW k \in 1 .. Len(file), file[k].last
  PROVE  /\ PacketsOf(file[k].frame) = k - file[k].num .. k
         /\ k - file[k].num \in 1 .. Len(file)
         /\ \A m \in k - file[k].num .. k :
              m \in 1 .. Len(file) /\ file[m].num = m - (k - file[k].num) /\ (m < k => ~file[m].last)
<1> DEFINE n == file[k].num  f == file[k].frame
<1>0. /\ Len(file) \in Nat /\ Chain /\ n \in Nat
      /\ \A m \in 1 .. Len(file) : file[m].num \in Nat /\ file[m].frame \in Nat
  BY FileFacts
<1>1. ASSUME NEW m \in k - n .. k
      PROVE  /\ m \in 1 .. Len(file) /\ file[m].frame = f
             /\ file[m].num = m - (k - n) /\ (m < k => ~file[m].last)
  <2>1. k - m \in 0 .. n /\ k - (k - m) = m /\ n - (k - m) = m - (k - n) /\ (m < k => k - m > 0)
    BY <1>0
  <2> HIDE DEF n
  <2> DEFINE j == k - m
  <2>2. j \in 0 .. n /\ k - j = m
    BY <2>1
  <2> HIDE DEF j
  <2>3. /\ k - j \in 1 .. Len(file) /\ file[k - j].frame = f
        /\ file[k - j].num = n - j /\ (j > 0 => ~file[k - j].last)
    BY <2>2, Stretch DEF n
  <2> QED BY <2>1, <2>2, <2>3 DEF j
<1>2. k - n \in k - n .. k /\ k - n \in 1 .. Len(file)
  BY <1>0, <1>1
<1>3. ASSUME NEW m \in 1 .. Len(file), file[m].frame = f, m > k PROVE FALSE
  <2>1. k + 1 \in 1 .. Len(file) /\ k + 1 <= m /\ (k + 1) - 1 = k /\ k + 1 # 1
    BY <1>0, <1>3
  <2>2. file[k].frame < file[k + 1].frame
    BY <1>0, <2>1 DEF Chain
  <2>3. file[k + 1].frame <= file[m].frame
    BY <2>1, Ordered
  <2> QED BY <1>0, <1>3, <2>1, <2>2, <2>3
<1>4. ASSUME NEW m \in 1 .. Len(file), file[m].frame = f, m < k - n PROVE FALSE
  <2> DEFINE b == k - n
  <2>1. b \in 1 .. Len(file) /\ file[b].frame = f /\ file[b].num = 0
    BY <1>0, <1>1, <1>2
  <2>2. b - 1 \in 1 .. Len(file) /\ m <= b - 1 /\ b # 1
    BY <1>0, <1>2, <1>4
  <2> HIDE DEF b
  <2>3. file[b - 1].frame < f
    BY <1>0, <2>1, <2>2 DEF Chain
  <2>4. file[m].frame <= file[b - 1].frame
    BY <2>2, Ordered
  <2> QED BY <1>0, <1>4, <2>2, <2>3, <2>4
<1>5. PacketsOf(f) = k - n .. k
  <2>1. \A m \in 1 .. Len(file) : file[m].frame = f => m \in k - n .. k
    BY <1>0, <1>3, <1>4
  <2> QED BY <1>1, <2>1 DEF PacketsOf
<1> QED BY <1>1, <1>2, <1>5

\* A frame with its last packet in the file is there with all its bytes.
LEMMA FrameWhole ==
  ASSUME UdpInv, WholeInv, NEW k \in 1 .. Len(file), file[k].last
  PROVE  /\ Bytes(file[k].frame) = sizes[file[k].frame]
         /\ \A m \in PacketsOf(file[k].frame) :
              file[m].num = Cardinality({j \in PacketsOf(file[k].frame) : j < m})
<1> DEFINE n == file[k].num  f == file[k].frame  b == k - n
           g == [m \in b .. k |-> file[m].size]
<1>0. /\ Len(file) \in Nat /\ n \in Nat /\ PacketSize \in Nat \ {0} /\ k \in Nat
      /\ n * PacketSize + file[k].size = sizes[f] /\ file[k].size \in Nat /\ file[k].size < PacketSize
  BY FileFacts, UdpAssumption
<1>1. /\ PacketsOf(f) = b .. k /\ b \in 1 .. Len(file)
      /\ \A m \in b .. k : m \in 1 .. Len(file) /\ file[m].num = m - b /\ (m < k => ~file[m].last)
  BY PacketsAre
<1>2. \A m \in b .. k : file[m].size \in Nat /\ (m < k => file[m].size = PacketSize)
  <2> HIDE DEF n
  <2> QED BY <1>1, FileFacts
<1>3. b \in Nat /\ b <= k /\ k - b = n /\ k \in b .. k
  BY <1>0, <1>1
<1> HIDE DEF b
<1>4. SumFunction(g) = n * PacketSize + file[k].size
  <2>1. /\ g \in [b .. k -> Nat] /\ g[k] = file[k].size /\ g[k] < PacketSize
        /\ \A m \in b .. k : m < k => g[m] = PacketSize
    BY <1>0, <1>2, <1>3
  <2>0. b \in Nat /\ k \in Nat /\ b <= k /\ PacketSize \in Nat \ {0}
    BY <1>0, <1>3
  <2> HIDE DEF g, n
  <2>2. SumFunction(g) = (k - b) * PacketSize + g[k]
    BY <2>0, <2>1, SumOfStretches, Zenon
  <2> QED BY <1>3, <2>1, <2>2
<1>5. Bytes(f) = SumFunction(g)
  <2> HIDE DEF f
  <2> QED BY <1>1 DEF Bytes
<1>6. ASSUME NEW m \in b .. k PROVE file[m].num = Cardinality({j \in b .. k : j < m})
  <2>1. {j \in b .. k : j < m} = b .. m - 1 /\ b \in Int /\ m \in Int /\ b <= m /\ m - 1 \in Int
    BY <1>0, <1>3
  <2>2. Cardinality(b .. m - 1) = IF b > m - 1 THEN 0 ELSE m - 1 - b + 1
    BY <2>1, FS_Interval
  <2>3. Cardinality(b .. m - 1) = m - b
    BY <2>1, <2>2
  <2> QED BY <1>1, <2>1, <2>3
<1> HIDE DEF n, g
<1> QED BY <1>0, <1>1, <1>4, <1>5, <1>6

\* A frame the client takes for finished has all its bytes in the file, in order:
\* it goes on only from a last packet, and before a last packet are the others.
THEOREM UdpWhole == Spec => []Whole
<1>1. UdpInv /\ WholeInv => Whole
  <2> SUFFICES ASSUME UdpInv, WholeInv, NEW f \in 1 .. Len(sizes), Closed(f)
               PROVE  /\ Bytes(f) = sizes[f]
                      /\ \A k \in PacketsOf(f) : file[k].num = Cardinality({j \in PacketsOf(f) : j < k})
    BY DEF Whole
  <2>0. Len(sizes) \in Nat /\ file \in Seq(Packets) /\ Len(file) \in Nat
    BY DEF UdpInv, TypeOK
  <2>1. Ended(f)
    <3>1. CASE \E k \in 1 .. Len(file) : file[k].frame > f
      <4>1. PICK k \in 1 .. Len(file) : file[k].frame > f
        BY <3>1
      <4>2. file[k].frame \in 1 .. Len(sizes)
        BY FileFacts
      <4>3. f \in 1 .. Len(sizes) - 1
        BY <2>0, <4>1, <4>2
      <4> QED BY <4>3 DEF WholeInv, EndInv
    <3>2. CASE cpc = "endwait" /\ msg.frame = f
      <4>1. file # <<>> /\ msg = file[Len(file)] /\ msg.last
        BY <3>2 DEF WholeInv, EndInv
      <4>2. Len(file) \in 1 .. Len(file)
        <5>1. Len(file) # 0
          BY <2>0, <4>1, EmptySeq
        <5> QED BY <2>0, <5>1
      <4> QED BY <3>2, <4>1, <4>2 DEF Ended
    <3> QED BY <3>1, <3>2 DEF Closed
  <2>2. PICK k \in 1 .. Len(file) : file[k].frame = f /\ file[k].last
    BY <2>1 DEF Ended
  <2> QED BY <2>2, FrameWhole
<1> QED BY <1>1, WholeInvariant, PTL

-----------------------------------------------------------------------------
(* Neither waits for the other.                                            *)

\* As long as nothing unlucky happened: a packet the server waits for is on the
\* wire or in the client's hand, and between two frames there is a command on the
\* way, for which the client is there or will be.
AtEnd == cpc \in {"write", "endwait"} /\ msg.last
MovesInv ==
  clean =>
    /\ cpc # "done" /\ ~quit /\ ~gDone
    /\ \A f \in 1 .. Len(sizes) : HasMark(sizes[f])
    /\ Waiting /\ cpc \in {"recv", "write"} => udp # <<>>
    /\ spc = "end" \/ (spc = "ack" /\ toServer # <<>> /\ done) => AtEnd
    /\ spc \in Idle => toServer # <<>> \/ (toClient # <<>> /\ AtEnd)

\* The loop of udp_send is left without a packet only for an unlucky size.
LEMMA NoBreak ==
  ASSUME UdpInv, WholeInv, MovesInv, clean, spc = "send"
  PROVE  left # PacketSize
<1> DEFINE s == sizes[Len(sizes)]
<1>1. /\ i \in Nat /\ PacketSize \in Nat \ {0} /\ Len(sizes) \in 1 .. Len(sizes)
      /\ i * PacketSize + left = s
  <2>1. sizes # <<>> /\ Len(sizes) \in Nat
    BY DEF UdpInv, FileInv, TypeOK
  <2>2. Len(sizes) # 0
    BY <2>1, EmptySeq DEF UdpInv, TypeOK
  <2> QED BY <2>1, <2>2, UdpAssumption DEF UdpInv, TypeOK, WholeInv, RestInv
<1>2. HasMark(s)
  BY <1>1 DEF MovesInv
<1> HIDE DEF s
<1> SUFFICES ASSUME left = PacketSize PROVE FALSE
  OBVIOUS
<1>3. s = PacketSize * (i + 1) + 0 /\ s \in Nat /\ s >= PacketSize
  <2>1. i * PacketSize \in Nat /\ PacketSize * (i + 1) = i * PacketSize + PacketSize
    BY <1>1
  <2> DEFINE x == i * PacketSize  y == PacketSize * (i + 1)
  <2> HIDE DEF x, y
  <2>2. x \in Nat /\ y = x + PacketSize /\ x + PacketSize = s
    BY <1>1, <2>1 DEF x, y
  <2>3. s = y + 0 /\ s \in Nat /\ s >= PacketSize
    BY <1>1, <2>2
  <2> QED BY <2>3 DEF y
<1>4. s % PacketSize = 0
  <2> DEFINE d == i + 1
  <2>1. d \in Int /\ 0 \in 0 .. PacketSize - 1
    BY <1>1
  <2>2. s = PacketSize * d + 0
    BY <1>3
  <2> HIDE DEF d
  <2> QED BY <1>1, <1>3, <2>1, <2>2, Division
<1> QED BY <1>1, <1>2, <1>3, <1>4 DEF HasMark

LEMMA MovesServer ==
  ASSUME UdpInv, UdpInv', WholeInv, MovesInv, clean, Server \/ ReadFails \/ SendFails
  PROVE  MovesInv'
<1> SUFFICES ASSUME clean' PROVE MovesInv'
  BY DEF MovesInv
<1>0. /\ cpc # "done" /\ ~quit /\ ~gDone /\ \A f \in 1 .. Len(sizes) : HasMark(sizes[f])
      /\ spc = "end" \/ (spc = "ack" /\ toServer # <<>> /\ done) => AtEnd
      /\ spc \in Idle => toServer # <<>> \/ (toClient # <<>> /\ AtEnd)
  BY DEF MovesInv
<1>a. /\ spc \in {"read", "send", "end"} => toServer = <<>>
      /\ spc = "ack" => toServer \in {<<>>, <<Expected>>}
      /\ spc \in Idle => toServer \in {<<>>, <<NextFrame>>}
      /\ clean \in BOOLEAN
  BY DEF UdpInv, TcpInv, TypeOK
<1>b. /\ Server \/ ReadFails \/ SendFails => UNCHANGED clientVars
      /\ AtEnd' <=> (cpc' \in {"write", "endwait"} /\ msg'.last)
  BY DEF Server, ReadFails, SendFails, Loop, WaitNext, ReadFrame, SendPacket, SendBreaks, ReadAck, EndFrame, Exit, AtEnd
<1>c. /\ UNCHANGED <<cpc, msg, quit>> /\ AtEnd' = AtEnd
  BY <1>b DEF clientVars, AtEnd
<1>1. CASE Loop \/ Exit
  <2>1. /\ UNCHANGED <<sizes, gDone, toServer, toClient, udp>> /\ spc \in Idle
        /\ spc' \in Idle
    BY <1>1 DEF Loop, Exit, Idle, tcpVars
  <2> QED BY <1>0, <1>c, <2>1 DEF MovesInv, Waiting, Idle
<1>2. CASE WaitNext
  <2>1. spc = "wait" /\ toServer = <<NextFrame>> /\ spc' = "read" /\ UNCHANGED <<sizes, gDone>>
    BY <1>0, <1>2, <1>a, Single DEF WaitNext, Idle
  <2> QED BY <1>0, <1>c, <2>1 DEF MovesInv, Waiting, Idle
<1>3. CASE ReadFrame
  <2>1. PICK s \in Sizes : sizes' = Append(sizes, s) /\ clean' = (clean /\ HasMark(s))
    BY <1>3 DEF ReadFrame
  <2>2. spc' = "send" /\ gDone' = gDone /\ HasMark(s)
    BY <1>3, <2>1 DEF ReadFrame
  <2>3. \A f \in 1 .. Len(sizes') : HasMark(sizes'[f])
    <3>1. /\ Len(sizes) \in Nat /\ Len(sizes') = Len(sizes) + 1 /\ sizes'[Len(sizes) + 1] = s
          /\ \A f \in 1 .. Len(sizes) : sizes'[f] = sizes[f]
      BY <2>1, AppendProperties DEF UdpInv, TypeOK
    <3>2. \A f \in 1 .. Len(sizes') : f \in 1 .. Len(sizes) \/ f = Len(sizes) + 1
      BY <3>1
    <3> QED BY <1>0, <2>2, <3>1, <3>2
  <2> QED BY <1>0, <1>c, <2>2, <2>3 DEF MovesInv, Waiting, Idle
<1>4. CASE SendPacket
  <2>1. /\ spc' = "ack" /\ toServer' = <<>> /\ UNCHANGED <<sizes, gDone>>
    BY <1>4, <1>a DEF SendPacket, tcpVars, Transmit
  <2>2. udp' # <<>>
    <3>1. PICK p \in Packets : sent' = Append(sent, p)
      BY <1>4, PacketIs DEF UdpInv
    <3>2. PICK r : udp' = Append(udp, r) /\ sent' = Append(sent, r)
      BY <1>4 DEF SendPacket, Transmit
    <3>3. Len(udp') # 0
      BY <3>2 DEF UdpInv, TypeOK
    <3> QED BY <3>3, EmptySeq
  <2> QED BY <1>0, <1>c, <2>1, <2>2 DEF MovesInv, Waiting, Idle
<1>5. CASE SendBreaks \/ ReadFails \/ SendFails
  <2>1. SendBreaks
    BY <1>5 DEF ReadFails, SendFails
  <2> QED BY <2>1, NoBreak DEF SendBreaks
<1>6. CASE ReadAck
  <2>1. spc = "ack" /\ toServer = <<Expected>> /\ UNCHANGED <<sizes, gDone>>
        /\ spc' = (IF done THEN "end" ELSE "send")
    BY <1>0, <1>6, <1>a, Single DEF ReadAck
  <2>2. done => AtEnd
    BY <1>0, <2>1, Single
  <2> QED BY <1>0, <1>c, <2>1, <2>2 DEF MovesInv, Waiting, Idle
<1>7. CASE EndFrame
  <2>1. /\ spc = "end" /\ spc' \in Idle /\ UNCHANGED <<sizes, gDone>>
        /\ toClient' = Append(toClient, FrameEnd)
    BY <1>7 DEF EndFrame, AfterSend, Idle
  <2>2. toClient' # <<>>
    <3>1. toClient = <<>>
      BY <2>1 DEF UdpInv, TcpInv, Idle
    <3> QED BY <2>1, <3>1, Single
  <2> QED BY <1>0, <1>c, <2>1, <2>2 DEF MovesInv, Waiting, Idle
<1> QED BY <1>1, <1>2, <1>3, <1>4, <1>5, <1>6, <1>7 DEF Server

LEMMA MovesOthers ==
  ASSUME UdpInv, UdpInv', WholeInv, MovesInv, clean,
         Client \/ WriteFails \/ Lose \/ ServerSignal \/ ClientSignal
  PROVE  MovesInv'
<1> SUFFICES ASSUME clean' PROVE MovesInv'
  BY DEF MovesInv
<1>0. /\ cpc # "done" /\ ~quit /\ ~gDone /\ \A f \in 1 .. Len(sizes) : HasMark(sizes[f])
      /\ Waiting /\ cpc \in {"recv", "write"} => udp # <<>>
      /\ spc = "end" \/ (spc = "ack" /\ toServer # <<>> /\ done) => AtEnd
      /\ spc \in Idle => toServer # <<>> \/ (toClient # <<>> /\ AtEnd)
  BY DEF MovesInv
<1>1. CASE Receive
  <2>1. /\ cpc = "recv" /\ cpc' = "ack" /\ UNCHANGED <<spc, sizes, done, gDone, toServer, toClient, quit>>
    BY <1>1 DEF Receive, serverVars, sendVars, tcpVars
  <2>2. ~AtEnd
    BY <2>1 DEF AtEnd
  <2> QED BY <1>0, <2>1, <2>2 DEF MovesInv, Waiting, Idle
<1>2. CASE SendAck
  <2>1. /\ cpc = "ack" /\ cpc' = "write"
        /\ UNCHANGED <<spc, sizes, done, gDone, toClient, msg, quit>>
        /\ toServer' = Append(toServer, Ack(frameNum, msg.num, msg.size))
    BY <1>2 DEF SendAck, serverVars, sendVars
  <2>2. spc = "ack" /\ toServer = <<>> /\ Owed = 1
    BY <2>1 DEF UdpInv, LeadInv, Waiting
  <2>3. toServer' # <<>>
    BY <2>1, <2>2, Single
  <2>4. msg = Newest /\ Newest.last = done
    <3>1. Len(sent) \in Nat /\ Len(file) \in Nat
      BY DEF UdpInv, TypeOK
    <3>2. Len(file) + 1 = Len(sent)
      BY <2>2, <3>1 DEF Owed
    <3>3. msg = sent[Len(file) + 1] /\ Newest.last = done
      BY <2>1, <2>2 DEF UdpInv, CopyInv
    <3> QED BY <3>2, <3>3 DEF Newest
  <2>5. done => AtEnd'
    BY <2>1, <2>4 DEF AtEnd
  <2> QED BY <1>0, <2>1, <2>2, <2>3, <2>5 DEF MovesInv, Waiting, Idle
<1>3. CASE Write
  <2>1. /\ cpc = "write" /\ cpc' = (IF ~msg.last THEN "recv" ELSE "endwait")
        /\ UNCHANGED <<spc, sizes, done, gDone, toServer, toClient, udp, msg, quit>>
    BY <1>0, <1>3 DEF Write, serverVars, sendVars, tcpVars
  <2>2. AtEnd' <=> AtEnd
    BY <2>1 DEF AtEnd
  <2> QED BY <1>0, <2>1, <2>2 DEF MovesInv, Waiting, Idle
<1>4. CASE AskNext
  <2>1. cpc = "endwait" /\ toClient = <<FrameEnd>> /\ spc \in Idle /\ toServer = <<>>
    BY <1>4 DEF AskNext, UdpInv, TcpInv
  <2>2. /\ toServer' = Append(toServer, NextFrame) /\ cpc' = "recv"
        /\ UNCHANGED <<spc, sizes, gDone, quit>>
    BY <1>4, <2>1, Single DEF AskNext, serverVars
  <2>3. toServer' # <<>>
    BY <2>1, <2>2, Single
  <2> QED BY <1>0, <2>1, <2>2, <2>3 DEF MovesInv, Waiting, Idle
<1> QED
  BY <1>1, <1>2, <1>3, <1>4 DEF Client, WriteFails, Lose, ServerSignal, ClientSignal

\* What is unlucky once stays so.
LEMMA CleanFalls ==
  ASSUME TypeOK, [Next]_vars, ~clean
  PROVE  ~clean'
BY DEF TypeOK, Next, Server, Client, Loop, WaitNext, ReadFrame, SendPacket, SendBreaks, ReadAck, EndFrame,
       Exit, ReadFails, SendFails, Receive, SendAck, Write, AskNext, WriteFails, Lose, ServerSignal, ClientSignal, vars

LEMMA MovesNext == UdpInv /\ UdpInv' /\ WholeInv /\ MovesInv /\ [Next]_vars => MovesInv'
<1> SUFFICES ASSUME UdpInv, UdpInv', WholeInv, MovesInv, [Next]_vars PROVE MovesInv'
  OBVIOUS
<1>1. CASE ~clean
  BY <1>1, CleanFalls DEF MovesInv, UdpInv
<1>2. CASE clean /\ UNCHANGED vars
  BY <1>2 DEF MovesInv, Waiting, AtEnd, vars, serverVars, sendVars, clientVars, tcpVars
<1>3. CASE clean /\ Next
  BY <1>3, MovesServer, MovesOthers DEF Next
<1> QED BY <1>1, <1>2, <1>3

LEMMA MovesInit == Init => MovesInv
<1> SUFFICES ASSUME Init PROVE MovesInv
  OBVIOUS
<1>1. toServer # <<>>
  BY Single DEF Init
<1> QED BY <1>1 DEF Init, MovesInv, Waiting, AtEnd, Idle

\* Neither side ever waits for the other as long as nothing is lost, fails, is
\* told to stop or has an unlucky size: when neither can go on, the server is at
\* the end of the file and the client has written all of it.
THEOREM UdpNoStall == Spec => []NoStall
<1>1. UdpInv /\ MovesInv => NoStall
  <2> SUFFICES ASSUME UdpInv, MovesInv, clean, ServerWaits, ClientWaits
               PROVE  spc = "done" /\ cpc = "recv" /\ file = sent
    BY DEF NoStall
  <2>0. /\ cpc # "done"
        /\ Waiting /\ cpc \in {"recv", "write"} => udp # <<>>
        /\ spc \in Idle => toServer # <<>> \/ (toClient # <<>> /\ AtEnd)
    BY DEF MovesInv
  <2>1. CASE spc = "done"
    <3>1. spc \in Idle
      BY <2>1 DEF Idle
    <3>2. toServer # <<>>
      BY <2>0, <3>1 DEF ClientWaits, AtEnd
    <3>3. cpc = "recv"
      BY <3>1, <3>2 DEF UdpInv, TcpInv
    <3>4. Len(sent) = Len(file)
      BY <2>1, <3>3 DEF UdpInv, LeadInv, Waiting, Owed, TypeOK
    <3>5. file = sent
      <4>1. file \in Seq(Packets) /\ sent \in Seq(Packets)
        BY DEF UdpInv, TypeOK
      <4>2. \A k \in 1 .. Len(file) : file[k] = sent[k]
        BY DEF UdpInv, CopyInv
      <4> QED BY <3>4, <4>1, <4>2, SeqEqual
    <3> QED BY <2>1, <3>3, <3>5
  <2>2. CASE spc = "wait" /\ toServer = <<>>
    BY <2>0, <2>2 DEF ClientWaits, AtEnd, Idle
  <2>3. CASE spc = "ack" /\ toServer = <<>>
    <3>1. Waiting
      BY <2>3 DEF Waiting
    <3>2. cpc # "endwait"
      BY <3>1 DEF UdpInv, LeadInv
    <3> QED BY <2>0, <3>1, <3>2 DEF ClientWaits
  <2> QED BY <2>1, <2>2, <2>3 DEF ServerWaits
<1>2. Spec => [](UdpInv /\ MovesInv)
  <2>1. UdpInv /\ UdpInv' /\ WholeInv /\ MovesInv /\ [Next]_vars => MovesInv'
    BY MovesNext
  <2> QED BY <2>1, WholeInvariant, MovesInit, PTL DEF Spec
<1> QED BY <1>1, <1>2, PTL
=============================================================================
