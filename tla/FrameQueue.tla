----------------------------- MODULE FrameQueue -----------------------------
(***************************************************************************)
(* What an endpoint's receive path promises to its readers, with buffers,  *)
(* identifiers and wake-ups left out.  Frames arrive one at a time.  Each  *)
(* is either refused or appended to a queue; a reader takes the head of    *)
(* the queue and owns what it took, unchanged, until it gives it back.     *)
(***************************************************************************)
EXTENDS Naturals, Sequences

CONSTANTS Readers, MaxFrames

NoFrame == 0

VARIABLES arrived,   \* number of the last frame that arrived
          pending,   \* TRUE while that frame is neither refused nor accepted
          queue,     \* the accepted frames nobody has taken yet, in order
          inHand     \* the frame each reader has taken and not given back

fqVars == <<arrived, pending, queue, inHand>>

Init == /\ arrived = 0
        /\ pending = FALSE
        /\ queue = <<>>
        /\ inHand = [r \in Readers |-> NoFrame]

Arrive == /\ ~pending
          /\ arrived < MaxFrames
          /\ arrived' = arrived + 1
          /\ pending' = TRUE
          /\ UNCHANGED <<queue, inHand>>

Accept == /\ pending
          /\ pending' = FALSE
          /\ queue' = Append(queue, arrived)
          /\ UNCHANGED <<arrived, inHand>>

Refuse == /\ pending
          /\ pending' = FALSE
          /\ UNCHANGED <<arrived, queue, inHand>>

Take(r) == /\ queue # <<>>
           /\ inHand[r] = NoFrame
           /\ inHand' = [inHand EXCEPT ![r] = Head(queue)]
           /\ queue' = Tail(queue)
           /\ UNCHANGED <<arrived, pending>>

GiveBack(r) == /\ inHand[r] # NoFrame
               /\ inHand' = [inHand EXCEPT ![r] = NoFrame]
               /\ UNCHANGED <<arrived, pending, queue>>

\* The receiving program ends: whatever its readers held is gone.
Abandon == /\ inHand' = [r \in Readers |-> NoFrame]
           /\ UNCHANGED <<arrived, pending, queue>>

\* A new program discards what was queued before it started.
Clear == /\ queue' = <<>>
         /\ UNCHANGED <<arrived, pending, inHand>>

Next == \/ Arrive \/ Accept \/ Refuse \/ Abandon \/ Clear
        \/ \E r \in Readers : Take(r) \/ GiveBack(r)

Spec == Init /\ [][Next]_fqVars
=============================================================================
