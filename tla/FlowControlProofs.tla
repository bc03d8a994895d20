-------------------------- MODULE FlowControlProofs -------------------------
(***************************************************************************)
(* Proofs that the byte window of FlowControl is conserved, for any number *)
(* of streams, any window and any sizes of frames.                         *)
(***************************************************************************)
EXTENDS FlowControl, TLAPS

\* A frame more under way spends Chunk[x] bytes of credit more.
LEMMA OneMore ==
    ASSUME NEW c \in Nat, NEW n \in Nat
    PROVE  c * (n + 1) = c * n + c
  BY SMT

\* What Outstanding counts is a number, and it counts the pieces it names.
LEMMA OutstandingType ==
    ASSUME TypeOK, NEW x \in Streams
    PROVE  Outstanding(x) \in Nat
  BY DEF TypeOK, Outstanding, InLoop

\* The inductive invariant: types and both halves of the conservation law.
IndInv == TypeOK /\ CreditConserved /\ WindowRespected

\* IndInv holds at the start.
LEMMA InitIndInv == Init => IndInv
  BY WindowAssumption, ChunkAssumption, StreamsAssumption
     DEF Init, IndInv, TypeOK, CreditConserved, WindowRespected, Outstanding, InLoop

\* Every step keeps the types.
LEMMA TypeStep == TypeOK /\ [Next]_vars => TypeOK'
<1> SUFFICES ASSUME TypeOK, [Next]_vars PROVE TypeOK'
  OBVIOUS
<1> USE WindowAssumption, ChunkAssumption, StreamsAssumption
<1>1. CASE UNCHANGED vars
  BY <1>1 DEF TypeOK, vars
<1>2. ASSUME NEW x \in Streams, Acquire(x) PROVE TypeOK'
  BY <1>2 DEF TypeOK, Acquire
<1>3. ASSUME NEW x \in Streams, Send(x) PROVE TypeOK'
  BY <1>3 DEF TypeOK, Send
<1>4. ASSUME NEW x \in Streams, ApplyGrant(x) PROVE TypeOK'
  BY <1>4 DEF TypeOK, ApplyGrant
<1>5. ASSUME NEW x \in Streams, Receive(x) PROVE TypeOK'
  BY <1>5 DEF TypeOK, Receive
<1>6. ASSUME NEW x \in Streams, Enqueue(x) PROVE TypeOK'
  BY <1>6 DEF TypeOK, Enqueue
<1>7. ASSUME NEW x \in Streams, Discard(x) PROVE TypeOK'
  BY <1>7 DEF TypeOK, Discard
<1>8. ASSUME NEW x \in Streams, Grant(x) PROVE TypeOK'
  BY <1>8 DEF TypeOK, Grant
<1>9. ASSUME NEW x \in Streams, Consume(x) PROVE TypeOK'
  BY <1>9 DEF TypeOK, Consume
<1>10. ASSUME NEW x \in Streams, CloseSender(x) PROVE TypeOK'
  BY <1>10 DEF TypeOK, CloseSender
<1>11. ASSUME NEW x \in Streams, CloseReceiver(x) PROVE TypeOK'
  BY <1>11 DEF TypeOK, CloseReceiver
<1>12. ASSUME NEW x \in Streams, HangUp(x) PROVE TypeOK'
  BY <1>12 DEF TypeOK, HangUp
<1>13. QED
  BY <1>1, <1>2, <1>3, <1>4, <1>5, <1>6, <1>7, <1>8, <1>9, <1>10, <1>11, <1>12
     DEF Next, Transfer, Teardown

\* The ways a step can move the credit of one stream y: not at all, by one frame
\* bought or paid back, or by one frame lost with no credit returned, and that
\* only when an end has forgotten the stream.
Untouched(y) == credit'[y] = credit[y] /\ Outstanding(y)' = Outstanding(y)
Bought(y) == credit[y] >= Chunk[y] /\ credit'[y] = credit[y] - Chunk[y]
             /\ Outstanding(y)' = Outstanding(y) + 1
PaidBack(y) == credit'[y] = credit[y] + Chunk[y] /\ Outstanding(y) = Outstanding(y)' + 1
Lost(y) == /\ credit'[y] = credit[y] /\ Outstanding(y) = Outstanding(y)' + 1
           /\ ~(sendOpen'[y] /\ recvOpen'[y])
Balanced(y) == Untouched(y) \/ Bought(y) \/ PaidBack(y) \/ Lost(y)

\* Closed ends stay closed.
LEMMA EndsStayClosed ==
    ASSUME TypeOK, [Next]_vars, NEW y \in Streams
    PROVE  /\ sendOpen'[y] => sendOpen[y]
           /\ recvOpen'[y] => recvOpen[y]
  BY Zenon DEF TypeOK, Next, vars, Transfer, Teardown, Acquire, Send, ApplyGrant,
     Receive, Enqueue, Discard, Grant, Consume, CloseSender, CloseReceiver, HangUp

\* Every step moves the credit of every stream in one of these ways.
LEMMA StepsBalance ==
    ASSUME TypeOK, [Next]_vars, NEW y \in Streams
    PROVE  Balanced(y)
<1> USE ChunkAssumption, StreamsAssumption DEF TypeOK, Outstanding, InLoop
<1>1. CASE UNCHANGED vars
  BY <1>1 DEF vars, Balanced, Untouched
<1>2. ASSUME NEW x \in Streams, Acquire(x) PROVE Balanced(y)
  BY <1>2 DEF Acquire, Balanced, Untouched, Bought
<1>3. ASSUME NEW x \in Streams, Send(x) PROVE Balanced(y)
  BY <1>3 DEF Send, Balanced, Untouched
<1>4. ASSUME NEW x \in Streams, ApplyGrant(x) PROVE Balanced(y)
  BY <1>4 DEF ApplyGrant, Balanced, Untouched, PaidBack, Lost
<1>5. ASSUME NEW x \in Streams, Receive(x) PROVE Balanced(y)
  BY <1>5 DEF Receive, Balanced, Untouched, Lost
<1>6. ASSUME NEW x \in Streams, Enqueue(x) PROVE Balanced(y)
  BY <1>6 DEF Enqueue, Balanced, Untouched
<1>7. ASSUME NEW x \in Streams, Discard(x) PROVE Balanced(y)
  BY <1>7 DEF Discard, Balanced, Untouched, Lost
<1>8. ASSUME NEW x \in Streams, Grant(x) PROVE Balanced(y)
  BY <1>8 DEF Grant, Balanced, Untouched
<1>9. ASSUME NEW x \in Streams, Consume(x) PROVE Balanced(y)
  BY <1>9 DEF Consume, Balanced, Untouched
<1>10. ASSUME NEW x \in Streams, Teardown(x) PROVE Balanced(y)
  BY <1>10 DEF Teardown, CloseSender, CloseReceiver, HangUp, Balanced, Untouched
<1>11. QED
  BY <1>1, <1>2, <1>3, <1>4, <1>5, <1>6, <1>7, <1>8, <1>9, <1>10
     DEF Next, Transfer

\* Every step keeps IndInv.
LEMMA NextIndInv == IndInv /\ [Next]_vars => IndInv'
<1> SUFFICES ASSUME IndInv, [Next]_vars PROVE IndInv'
  OBVIOUS
<1>1. TypeOK /\ TypeOK'
  BY TypeStep DEF IndInv
<1>2. ASSUME NEW y \in Streams
      PROVE  /\ sendOpen'[y] /\ recvOpen'[y] =>
                  credit'[y] + Chunk[y] * Outstanding(y)' = Window
             /\ credit'[y] + Chunk[y] * Outstanding(y)' <= Window
  <2> DEFINE c == Chunk[y]  n == Outstanding(y)  m == Outstanding(y)'
             a == credit[y]  b == credit'[y]
  <2>1. c \in Nat /\ n \in Nat /\ m \in Nat /\ a \in Nat /\ b \in Nat
    <3>1. n \in Nat
      BY <1>1, OutstandingType
    <3>2. m \in Nat
      BY <1>1 DEF TypeOK, Outstanding, InLoop
    <3>3. QED
      BY <3>1, <3>2, <1>1, ChunkAssumption DEF TypeOK
  <2>2. /\ sendOpen[y] /\ recvOpen[y] => a + c * n = Window
        /\ a + c * n <= Window
    BY DEF IndInv, CreditConserved, WindowRespected
  <2>3. /\ sendOpen'[y] => sendOpen[y]
        /\ recvOpen'[y] => recvOpen[y]
    BY <1>1, EndsStayClosed
  <2>4. Balanced(y)
    BY <1>1, StepsBalance
  <2>5. c * (n + 1) = c * n + c /\ c * (m + 1) = c * m + c
    BY <2>1, OneMore
  <2>6. c * n \in Nat /\ c * m \in Nat
    BY <2>1
  <2> HIDE DEF c, n, m, a, b
  <2>7. CASE Untouched(y)
    <3>1. b = a /\ m = n
      BY <2>7 DEF Untouched, a, b, m, n
    <3>2. b + c * m = a + c * n
      BY <3>1
    <3>3. QED
      BY <3>2, <2>2, <2>3 DEF a, b, c, m, n
  <2>8. CASE Bought(y)
    <3>1. b = a - c /\ m = n + 1
      BY <2>8 DEF Bought, a, b, c, m, n
    <3>2. c * m = c * n + c
      BY <3>1, <2>5
    <3>3. b + c * m = a + c * n
      BY <3>1, <3>2, <2>1, <2>6
    <3>4. QED
      BY <3>3, <2>2, <2>3 DEF a, b, c, m, n
  <2>9. CASE PaidBack(y)
    <3>1. b = a + c /\ n = m + 1
      BY <2>9 DEF PaidBack, a, b, c, m, n
    <3>2. c * n = c * m + c
      BY <3>1, <2>5
    <3>3. b + c * m = a + c * n
      BY <3>1, <3>2, <2>1, <2>6
    <3>4. QED
      BY <3>3, <2>2, <2>3 DEF a, b, c, m, n
  <2>10. CASE Lost(y)
    <3>1. b = a /\ n = m + 1 /\ ~(sendOpen'[y] /\ recvOpen'[y])
      BY <2>10 DEF Lost, a, b, m, n
    <3>2. c * n = c * m + c
      BY <3>1, <2>5
    <3>3. b + c * m <= Window
      BY <3>1, <3>2, <2>1, <2>2, <2>6, WindowAssumption
    <3>4. QED
      BY <3>1, <3>3 DEF b, c, m
  <2>11. QED
    BY <2>4, <2>7, <2>8, <2>9, <2>10 DEF Balanced
<1>3. QED
  BY <1>1, <1>2 DEF IndInv, CreditConserved, WindowRespected

\* The conservation law is an invariant of every flow-controlled session.
THEOREM Invariance == Spec => []IndInv
<1>1. Init => IndInv
  BY InitIndInv
<1>2. IndInv /\ [Next]_vars => IndInv'
  BY NextIndInv
<1>3. QED
  BY <1>1, <1>2, PTL DEF Spec

\* Both read loops, senders and readers keep the state well typed: the body queue
\* is bounded and the read loop handles one frame at a time.
THEOREM TypeCorrect == Spec => []TypeOK
  BY Invariance, PTL DEF IndInv

\* send_stream_data, send_payload and the Data arms lose and invent no credit.
THEOREM CreditIsConserved == Spec => []CreditConserved
  BY Invariance, PTL DEF IndInv

\* Late frames and late updates never lift a stream above its window.
THEOREM WindowIsRespected == Spec => []WindowRespected
  BY Invariance, PTL DEF IndInv

-----------------------------------------------------------------------------
(* Frames *)

\* Frames of x that the read loop has read and not put into the body queue.
InHand(x) == IF loop = x /\ stage = "buffer" THEN 1 ELSE 0

\* Every frame of a whole stream is somewhere.
FramesKept ==
    \A x \in Streams : Whole(x) =>
        toSend[x] + hand[x] + flying[x] + InHand(x) + buffered[x] + delivered[x] = Frames

\* A stream that is whole after a step was whole before it.
LEMMA WholeBefore ==
    ASSUME TypeOK, [Next]_vars, NEW y \in Streams, Whole(y)'
    PROVE  Whole(y)
<1>1. sendOpen[y] /\ recvOpen[y]
  BY EndsStayClosed DEF Whole
<1>2. reading[y]
  BY Zenon DEF TypeOK, Next, vars, Transfer, Teardown, Acquire, Send, ApplyGrant, Receive,
     Enqueue, Discard, Grant, Consume, CloseSender, CloseReceiver, HangUp, Whole
<1> QED
  BY <1>1, <1>2 DEF Whole

\* No step loses a frame of a stream that stays whole.
LEMMA FramesStep ==
    ASSUME TypeOK, [Next]_vars, NEW y \in Streams, Whole(y)'
    PROVE  toSend'[y] + hand'[y] + flying'[y] + InHand(y)' + buffered'[y] + delivered'[y]
              = toSend[y] + hand[y] + flying[y] + InHand(y) + buffered[y] + delivered[y]
<1> DEFINE Sum == toSend[y] + hand[y] + flying[y] + InHand(y) + buffered[y] + delivered[y]
           Kept == toSend'[y] + hand'[y] + flying'[y] + InHand(y)' + buffered'[y] + delivered'[y]
                     = Sum
<1> USE StreamsAssumption DEF TypeOK, InHand
<1>0. sendOpen'[y] /\ recvOpen'[y] /\ reading'[y]
  BY DEF Whole
<1>1. CASE UNCHANGED vars
  BY <1>1 DEF vars
<1>2. ASSUME NEW x \in Streams, Acquire(x) PROVE Kept
  BY <1>2 DEF Acquire
<1>3. ASSUME NEW x \in Streams, Send(x) PROVE Kept
  BY <1>3 DEF Send
<1>4. ASSUME NEW x \in Streams, ApplyGrant(x) PROVE Kept
  BY <1>4 DEF ApplyGrant
<1>5. ASSUME NEW x \in Streams, Receive(x) PROVE Kept
  BY <1>0, <1>5 DEF Receive
<1>6. ASSUME NEW x \in Streams, Enqueue(x) PROVE Kept
  BY <1>6 DEF Enqueue
<1>7. ASSUME NEW x \in Streams, Discard(x) PROVE Kept
  BY <1>0, <1>7 DEF Discard
<1>8. ASSUME NEW x \in Streams, Grant(x) PROVE Kept
  BY <1>8 DEF Grant
<1>9. ASSUME NEW x \in Streams, Consume(x) PROVE Kept
  BY <1>9 DEF Consume
<1>10. ASSUME NEW x \in Streams, Teardown(x) PROVE Kept
  BY <1>0, <1>10 DEF Teardown, CloseSender, CloseReceiver, HangUp
<1>11. QED
  BY <1>1, <1>2, <1>3, <1>4, <1>5, <1>6, <1>7, <1>8, <1>9, <1>10 DEF Next, Transfer

\* FramesKept holds at all times.
LEMMA FramesInvariant == Spec => []FramesKept
<1>1. Init => FramesKept
  BY WindowAssumption, StreamsAssumption DEF Init, FramesKept, InHand
<1>2. TypeOK /\ FramesKept /\ [Next]_vars => FramesKept'
  <2> SUFFICES ASSUME TypeOK, FramesKept, [Next]_vars, NEW y \in Streams, Whole(y)'
               PROVE  toSend'[y] + hand'[y] + flying'[y] + InHand(y)' + buffered'[y]
                         + delivered'[y] = Frames
    BY DEF FramesKept
  <2>1. Whole(y)
    BY WholeBefore
  <2>2. toSend[y] + hand[y] + flying[y] + InHand(y) + buffered[y] + delivered[y] = Frames
    BY <2>1 DEF FramesKept
  <2> QED
    BY <2>2, FramesStep
<1> QED
  BY <1>1, <1>2, TypeCorrect, PTL DEF Spec

\* A stream that fits its window is never stuck: by the conservation of its frames
\* there is one left to send when none is under way, and by that of its credit the
\* sender can pay for it.
THEOREM StreamsNeverStuck == Spec => []NeverStuck
<1>1. TypeOK /\ CreditConserved /\ FramesKept => NeverStuck
  <2> SUFFICES ASSUME TypeOK, CreditConserved, FramesKept, NEW x \in Streams, Whole(x),
                      Chunk[x] <= Window, delivered[x] < Frames,
                      ~(buffered[x] > 0), ~(Outstanding(x) > 0)
               PROVE  toSend[x] > 0 /\ credit[x] >= Chunk[x]
    BY DEF NeverStuck
  <2>1. /\ toSend[x] \in Nat /\ hand[x] \in Nat /\ flying[x] \in Nat /\ buffered[x] \in Nat
        /\ granting[x] \in Nat /\ delivered[x] \in Nat /\ credit[x] \in Nat
        /\ Chunk[x] \in Nat /\ Window \in Nat /\ Frames \in Nat
    BY WindowAssumption, ChunkAssumption DEF TypeOK
  <2>2. hand[x] = 0 /\ flying[x] = 0 /\ loop # x /\ Outstanding(x) = 0 /\ buffered[x] = 0
    BY <2>1 DEF Outstanding, InLoop
  <2>3. toSend[x] + delivered[x] = Frames
    <3>1. toSend[x] + hand[x] + flying[x] + InHand(x) + buffered[x] + delivered[x] = Frames
      BY DEF FramesKept
    <3> QED
      BY <2>1, <2>2, <3>1 DEF InHand
  <2>4. credit[x] = Window
    <3>1. credit[x] + Chunk[x] * Outstanding(x) = Window
      BY DEF CreditConserved, Whole
    <3>2. Chunk[x] * 0 = 0
      BY <2>1
    <3> QED
      BY <2>1, <2>2, <3>1, <3>2
  <2> QED
    BY <2>1, <2>3, <2>4
<1> QED
  BY <1>1, TypeCorrect, CreditIsConserved, FramesInvariant, PTL
=============================================================================
