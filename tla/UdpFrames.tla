----------------------------- MODULE UdpFrames ------------------------------
(***************************************************************************)
(* The frame server of net_test/dvrrdk_server and its client.  The server  *)
(* cuts an encoded frame into UDP packets of PacketSize bytes and waits    *)
(* after each for an acknowledgement, which comes back over a TCP command  *)
(* connection; the last packet carries a mark.  Over the same connection   *)
(* the server says that a frame has ended and the client asks for the next *)
(* one.  Neither side has a timeout.                                       *)
(*                                                                         *)
(* A packet is its frame, its number in the frame, the mark, the number of *)
(* bytes, and whether its first byte is 0xff, which matters because the    *)
(* first four bytes of a datagram are also compared with ERR_FILE_END.     *)
(* The commands of the TCP connection arrive one by one: neither side      *)
(* writes a second one before the first was read, so that read() never     *)
(* finds two of them.                                                      *)
(***************************************************************************)
EXTENDS Naturals, Sequences, FiniteSets, Functions

CONSTANTS PacketSize,  \* MAX_BUF_SIZE
          Sizes,       \* sizes a frame of the file may have
          Faults,      \* which of "loss", "readfail", "sendfail", "diskfull" may happen
          MaxFrames    \* bound: frames in the file

ASSUME UdpAssumption ==
  /\ PacketSize \in Nat \ {0}
  /\ Sizes \subseteq Nat /\ Sizes # {}
  /\ Faults \subseteq {"loss", "readfail", "sendfail", "diskfull"}
  /\ MaxFrames \in Nat \ {0}

VARIABLES
  spc,                    \* the server: place in main() and udp_send()
  sizes,                  \* filledBufSize of the frames given to udp_send
  i, left, done,          \* udp_send: packet number, bytes left, last packet
  eof,                    \* bitsRead_process returned ERR_FILE_END
  gDone,                  \* SIGQUIT arrived at the server
  udp,                    \* datagrams under way to the client
  toServer, toClient,     \* the two directions of the TCP connection
  cpc,                    \* the client: place in udps_process()
  msg,                    \* the packet in the client's buffer
  frameNum,               \* the client's frame_num
  quit,                   \* SIGQUIT arrived at the client
  file,                   \* packets written to the client's file
  sent,                   \* packets sent so far
  clean                   \* no fault, signal or unlucky frame so far

sendVars == <<i, left, done>>
serverVars == <<spc, sizes, sendVars, eof, gDone>>
clientVars == <<cpc, msg, frameNum, quit, file>>
tcpVars == <<toServer, toClient>>
vars == <<serverVars, udp, tcpVars, clientVars, sent, clean>>

Packets == [frame : 1 .. MaxFrames, num : Nat, last : BOOLEAN, size : Nat, ff : BOOLEAN]
NoPacket == [frame |-> 0, num |-> 0, last |-> FALSE, size |-> 0, ff |-> FALSE]

\* What the command connection carries: udp_ackMsg, or one of the two commands.
Commands == [kind : {"ack", "NEXT_FRAME_CMD", "END_FRAME_CMD"}, frame : Nat, num : Nat, size : Nat]
Ack(f, n, s) == [kind |-> "ack", frame |-> f, num |-> n, size |-> s]
NextFrame == [kind |-> "NEXT_FRAME_CMD", frame |-> 0, num |-> 0, size |-> 0]
FrameEnd == [kind |-> "END_FRAME_CMD", frame |-> 0, num |-> 0, size |-> 0]

\* Both processes are connected and the client has asked for the first frame.
Init ==
  /\ spc = "loop" /\ sizes = <<>> /\ i = 0 /\ left = 0 /\ done = FALSE
  /\ eof = FALSE /\ gDone = FALSE
  /\ udp = <<>> /\ toServer = <<NextFrame>> /\ toClient = <<>>
  /\ cpc = "recv" /\ msg = NoPacket /\ frameNum = 0 /\ quit = FALSE /\ file = <<>>
  /\ sent = <<>> /\ clean = TRUE

-----------------------------------------------------------------------------
(* The server: main().                                                     *)

\* Mutant: the signal's flag is not looked at.
LoopForEver == /\ spc = "loop"
               /\ spc' = "wait"
               /\ UNCHANGED <<sizes, sendVars, eof, gDone, udp, tcpVars, clientVars, sent, clean>>

\* while (!gDone)
Loop == /\ spc = "loop"
        /\ spc' = IF gDone THEN "exit" ELSE "wait"
        /\ UNCHANGED <<sizes, sendVars, eof, gDone, udp, tcpVars, clientVars, sent, clean>>

\* read() on the command connection: blocks, or finds the peer gone.  With the
\* client gone it returns at once and the loop comes round again, for ever.
WaitNext ==
  /\ spc = "wait"
  /\ \/ /\ toServer # <<>>
        /\ toServer' = Tail(toServer)
        /\ spc' = IF Head(toServer) # NextFrame THEN "loop" ELSE IF gDone THEN "exit" ELSE "read"
     \/ /\ toServer = <<>> /\ cpc = "done"
        /\ spc' = "loop"
        /\ UNCHANGED toServer
  /\ UNCHANGED <<sizes, sendVars, eof, gDone, udp, toClient, clientVars, sent, clean>>

\* The frame's bytes end with a packet that carries the mark.
HasMark(s) == s < PacketSize \/ s % PacketSize # 0

\* bitsRead_process: the next frame, and whether it is the last (ERR_FILE_END is
\* returned together with a frame).  udp_send starts with it.
ReadFrame ==
  /\ spc = "read"
  /\ \E s \in Sizes, e \in BOOLEAN :
       /\ Len(sizes) + 1 >= MaxFrames => e
       /\ sizes' = Append(sizes, s)
       /\ eof' = e
       /\ left' = s
       /\ clean' = (clean /\ HasMark(s))
  /\ i' = 0 /\ done' = FALSE
  /\ spc' = "send"
  /\ UNCHANGED <<gDone, udp, tcpVars, clientVars, sent>>

\* main() ignores what bitsRead_init returns: without the files the first call
\* of bitsRead_process fails, and that ends the server's loop.
ReadFails ==
  /\ "readfail" \in Faults
  /\ spc = "read" /\ sizes = <<>>
  /\ spc' = "exit"
  /\ clean' = FALSE
  /\ UNCHANGED <<sizes, sendVars, eof, gDone, udp, tcpVars, clientVars, sent>>

\* main() ignores what udp_send returns.
AfterSend == IF gDone \/ eof THEN "exit" ELSE "loop"

-----------------------------------------------------------------------------
(* The server: udp_send().                                                 *)

Packet(s, last, ff) ==
  [frame |-> Len(sizes), num |-> i, last |-> last, size |-> s, ff |-> ff]

Transmit(p) == /\ udp' = Append(udp, p)
               /\ sent' = Append(sent, p)
               /\ spc' = "ack"

\* Mutant: the comparison is <=, the remainder of a full packet is nothing.
SendPacketOrEqual ==
  /\ spc = "send"
  /\ \/ /\ left <= PacketSize
        /\ done' = TRUE
        /\ UNCHANGED left
        /\ \E ff \in BOOLEAN : Transmit(Packet(left % PacketSize, TRUE, ff))
     \/ /\ left > PacketSize
        /\ left' = left - PacketSize
        /\ UNCHANGED done
        /\ Transmit(Packet(PacketSize, FALSE, FALSE))
  /\ UNCHANGED <<sizes, i, eof, gDone, tcpVars, clientVars, clean>>

\* The first byte of the payload matters in the last packet only: in the others
\* the byte after the packet number is 0.
SendPacket ==
  /\ spc = "send"
  /\ \/ /\ left < PacketSize
        /\ done' = TRUE
        /\ UNCHANGED left
        /\ \E ff \in BOOLEAN : Transmit(Packet(left, TRUE, ff))
     \/ /\ left > PacketSize
        /\ left' = left - PacketSize
        /\ UNCHANGED done
        /\ Transmit(Packet(PacketSize, FALSE, FALSE))
  /\ UNCHANGED <<sizes, i, eof, gDone, tcpVars, clientVars, clean>>

\* What is left is exactly one packet: the loop is left without sending it.  ret
\* is that of the last acknowledgement; without one it was never set.
SendBreaks ==
  /\ spc = "send"
  /\ left = PacketSize
  /\ \/ spc' = "end"
     \/ i = 0 /\ spc' = AfterSend
  /\ UNCHANGED <<sizes, sendVars, eof, gDone, udp, tcpVars, clientVars, sent, clean>>

SendFails ==
  /\ "sendfail" \in Faults
  /\ spc = "send"
  /\ left # PacketSize
  /\ spc' = AfterSend
  /\ clean' = FALSE
  /\ UNCHANGED <<sizes, sendVars, eof, gDone, udp, tcpVars, clientVars, sent>>

Expected == Ack(Len(sizes), i, sent[Len(sent)].size)

\* Mutant: the acknowledgement is not waited for.
ReadAckNot ==
  /\ spc = "ack"
  /\ IF toServer # <<>> THEN toServer' = Tail(toServer) ELSE UNCHANGED toServer
  /\ i' = i + 1
  /\ spc' = IF done THEN "end" ELSE "send"
  /\ UNCHANGED <<sizes, left, done, eof, gDone, udp, toClient, clientVars, sent, clean>>

\* Any difference between packet and acknowledgement ends udp_send, as does the
\* end of the connection.
ReadAck ==
  /\ spc = "ack"
  /\ \/ /\ toServer # <<>>
        /\ toServer' = Tail(toServer)
        /\ IF Head(toServer) = Expected
           THEN i' = i + 1 /\ spc' = (IF done THEN "end" ELSE "send")
           ELSE spc' = AfterSend /\ UNCHANGED i
     \/ /\ toServer = <<>> /\ cpc = "done"
        /\ spc' = AfterSend
        /\ UNCHANGED <<toServer, i>>
  /\ UNCHANGED <<sizes, left, done, eof, gDone, udp, toClient, clientVars, sent, clean>>

\* Mutant: ret was overwritten, END_FRAME_CMD is not sent.
EndFrameNot ==
  /\ spc = "end"
  /\ spc' = AfterSend
  /\ UNCHANGED <<sizes, sendVars, eof, gDone, udp, tcpVars, clientVars, sent, clean>>

EndFrame ==
  /\ spc = "end"
  /\ toClient' = Append(toClient, FrameEnd)
  /\ spc' = AfterSend
  /\ UNCHANGED <<sizes, sendVars, eof, gDone, udp, toServer, clientVars, sent, clean>>

\* exit_t0: ERR_FILE_END goes to an address that is all zeros, to nobody.
Exit ==
  /\ spc = "exit"
  /\ spc' = "done"
  /\ UNCHANGED <<sizes, sendVars, eof, gDone, udp, tcpVars, clientVars, sent, clean>>

Server == \/ Loop \/ WaitNext \/ ReadFrame \/ SendPacket \/ SendBreaks
          \/ ReadAck \/ EndFrame \/ Exit

-----------------------------------------------------------------------------
(* The client: udps_process().                                             *)

\* *(UInt32 *)msg == ERR_FILE_END: packet 1, the mark, and a first byte of 0xff.
LooksLikeFileEnd(p) == p.num = 1 /\ p.last /\ p.ff

\* Mutant: every packet counts as a frame.
ReceiveCounts ==
  /\ cpc = "recv"
  /\ udp # <<>>
  /\ udp' = Tail(udp)
  /\ msg' = Head(udp)
  /\ IF LooksLikeFileEnd(Head(udp))
     THEN cpc' = "done" /\ clean' = FALSE /\ UNCHANGED frameNum
     ELSE cpc' = "ack" /\ frameNum' = frameNum + 1 /\ UNCHANGED clean
  /\ UNCHANGED <<serverVars, tcpVars, quit, file, sent>>

Receive ==
  /\ cpc = "recv"
  /\ udp # <<>>
  /\ udp' = Tail(udp)
  /\ msg' = Head(udp)
  /\ IF LooksLikeFileEnd(Head(udp))
     THEN /\ cpc' = "done" /\ clean' = FALSE
          /\ UNCHANGED frameNum
     ELSE /\ cpc' = "ack"
          /\ frameNum' = IF Head(udp).num = 0 THEN frameNum + 1 ELSE frameNum
          /\ UNCHANGED clean
  /\ UNCHANGED <<serverVars, tcpVars, quit, file, sent>>

SendAck ==
  /\ cpc = "ack"
  /\ toServer' = Append(toServer, Ack(frameNum, msg.num, msg.size))
  /\ cpc' = "write"
  /\ UNCHANGED <<serverVars, udp, toClient, msg, frameNum, quit, file, sent, clean>>

\* The packet is acknowledged first and written to the file after that.  After
\* the last packet of a frame the client leaves if it was told to.
Write ==
  /\ cpc = "write"
  /\ file' = Append(file, msg)
  /\ cpc' = IF ~msg.last THEN "recv" ELSE IF quit THEN "done" ELSE "endwait"
  /\ UNCHANGED <<serverVars, udp, tcpVars, msg, frameNum, quit, sent, clean>>

WriteFails ==
  /\ "diskfull" \in Faults
  /\ cpc = "write"
  /\ cpc' = "done"
  /\ clean' = FALSE
  /\ UNCHANGED <<serverVars, udp, tcpVars, msg, frameNum, quit, file, sent>>

\* do read() while (*msg != END_FRAME_CMD), then the request for the next frame.
AskNext ==
  /\ cpc = "endwait"
  /\ toClient # <<>>
  /\ toClient' = Tail(toClient)
  /\ IF Head(toClient) = FrameEnd
     THEN toServer' = Append(toServer, NextFrame) /\ cpc' = "recv"
     ELSE UNCHANGED <<toServer, cpc>>
  /\ UNCHANGED <<serverVars, udp, msg, frameNum, quit, file, sent, clean>>

Client == Receive \/ SendAck \/ Write \/ AskNext

-----------------------------------------------------------------------------
(* The surroundings.                                                       *)

Lose ==
  /\ "loss" \in Faults
  /\ udp # <<>>
  /\ udp' = Tail(udp)
  /\ clean' = FALSE
  /\ UNCHANGED <<serverVars, tcpVars, clientVars, sent>>

ServerSignal ==
  /\ ~gDone
  /\ gDone' = TRUE
  /\ clean' = FALSE
  /\ UNCHANGED <<spc, sizes, sendVars, eof, udp, tcpVars, clientVars, sent>>

ClientSignal ==
  /\ ~quit
  /\ quit' = TRUE
  /\ clean' = FALSE
  /\ UNCHANGED <<serverVars, udp, tcpVars, cpc, msg, frameNum, file, sent>>

Next == Server \/ ReadFails \/ SendFails \/ Client \/ WriteFails \/ Lose \/ ServerSignal \/ ClientSignal

Spec == Init /\ [][Next]_vars

\* Two processes that run on machines of their own.
FairSpec == Spec /\ WF_vars(Server) /\ WF_vars(Client)

-----------------------------------------------------------------------------
(* Properties.                                                             *)

ServerPlaces == {"loop", "wait", "read", "send", "ack", "end", "exit", "done"}
ClientPlaces == {"recv", "ack", "write", "endwait", "done"}

TypeOK ==
  /\ spc \in ServerPlaces
  /\ sizes \in Seq(Sizes) /\ Len(sizes) <= MaxFrames
  /\ i \in Nat /\ left \in Nat /\ done \in BOOLEAN
  /\ eof \in BOOLEAN /\ gDone \in BOOLEAN
  /\ udp \in Seq(Packets)
  /\ toServer \in Seq(Commands) /\ toClient \in Seq({FrameEnd})
  /\ cpc \in ClientPlaces
  /\ msg \in Packets \cup {NoPacket}
  /\ frameNum \in Nat /\ quit \in BOOLEAN
  /\ file \in Seq(Packets) /\ sent \in Seq(Packets)
  /\ clean \in BOOLEAN

\* Whatever is lost or fails, the client's file is what was sent, in order and
\* without repetition, and the server is at most one packet ahead of what the
\* client acknowledged; the client acknowledges before it writes, so that one
\* more packet is missing from the file while it writes or after it could not.
OneAhead ==
  /\ Len(file) <= Len(sent)
  /\ Len(sent) <= Len(file) + (IF cpc \in {"write", "done"} THEN 2 ELSE 1)
  /\ \A k \in 1 .. Len(file) : file[k] = sent[k]

\* The two frame counters never drift apart: an acknowledgement is the one the
\* server, which waits for it, compares it with, so that no frame is ever given
\* up for a wrong number; and it is alone in the connection, so that one read()
\* finds one command.
AckMatches ==
  /\ Len(toServer) <= 1
  /\ \A k \in 1 .. Len(toServer) :
       toServer[k].kind = "ack" => spc = "ack" /\ toServer[k] = Expected

\* The places of a frame's packets in the file, and their bytes.
PacketsOf(f) == {k \in 1 .. Len(file) : file[k].frame = f}
Bytes(f) == SumFunction([k \in PacketsOf(f) |-> file[k].size])

\* The client has gone on from frame f, or waits for the end of it.
Closed(f) == \/ \E k \in 1 .. Len(file) : file[k].frame > f
             \/ cpc = "endwait" /\ msg.frame = f

\* A frame the client takes for finished has all its bytes in the file; what is
\* cut short (a lost packet, a full disk, a size that is a multiple of the packet
\* size) stays the last thing in it.
Whole ==
  \A f \in 1 .. Len(sizes) : Closed(f) =>
    /\ Bytes(f) = sizes[f]
    /\ \A k \in PacketsOf(f) : file[k].num = Cardinality({j \in PacketsOf(f) : j < k})

\* Not so, and so in no run: the client stops for the end of the file only when
\* the server has reached it.  The last packet of a frame of two is taken for the
\* end if its payload starts with 0xff.
EndIsEnd == cpc = "done" /\ LooksLikeFileEnd(msg) => spc \in {"exit", "done"}

\* As long as nothing unlucky happens the two sides never wait for each other:
\* when neither can go on, the server has come to the end of the file and the
\* client has all of it.
ServerWaits == spc = "done" \/ (spc \in {"wait", "ack"} /\ toServer = <<>> /\ cpc # "done")
ClientWaits == \/ cpc = "done"
               \/ cpc = "recv" /\ udp = <<>>
               \/ cpc = "endwait" /\ toClient = <<>>
NoStall == clean /\ ServerWaits /\ ClientWaits =>
             spc = "done" /\ cpc = "recv" /\ file = sent

\* Without losses, failures, signals and unlucky sizes, every frame of the file
\* arrives: the ping-pong of packets and commands never stops half way.
Delivery == []clean => <>(spc = "done" /\ Len(file) = Len(sent) /\ cpc = "recv")

\* A server told to stop whose client is gone does stop: no wait for an
\* acknowledgement or a command outlives the connection.
ServerLeaves == (gDone /\ cpc = "done") ~> spc = "done"
=============================================================================
