------------------------- MODULE BackpressureProofs -------------------------
(***************************************************************************)
(* How large the outbound queues must be so that the two read loops of a   *)
(* session never wait for each other.                                      *)
(***************************************************************************)
EXTENDS Backpressure, TLAPS

\* Sizes at all: counts, and a transport that holds something.
SizesOK == Window \in Nat /\ Tasks \in Nat /\ Pings \in Nat /\ Queue \in Nat /\ Pipe \in Nat \ {0}

\* The queues and the transport of both directions hold the credit of both.
QueuesSuffice == 2 * Window + Pings < 2 * (Queue + Pipe + 1)

TypeOK ==
    /\ out \in [Ends -> Seq(Frames)]
    /\ pipe \in [Ends -> Seq(Frames)]
    /\ credit \in [Ends -> Int]
    /\ pinging \in Int /\ pinging <= Pings

\* Frames of e that are queued, waiting or on their way, and those it may still send.
Load(e) == credit[e] + Len(out[e]) + Len(pipe[e])

\* A data frame costs a permit, its WindowUpdate replaces it, and the permit comes
\* back last; a Pong replaces its Ping.
LoadBounded == \A e \in Ends : Load(e) + Load(Other(e)) <= 2 * Window + pinging

IndInv == TypeOK /\ LoadBounded /\ \A e \in Ends : credit[e] >= 0

\* What Tail and Append do to lengths.
LEMMA Lengths ==
    ASSUME NEW q \in Seq(Frames), NEW f \in Frames
    PROVE  /\ Append(q, f) \in Seq(Frames) /\ Len(Append(q, f)) = Len(q) + 1
           /\ Len(q) \in Nat
           /\ q # <<>> => /\ Head(q) \in Frames /\ Tail(q) \in Seq(Frames)
                          /\ Len(Tail(q)) = Len(q) - 1 /\ Len(q) > 0
BY SMT

\* There are two ends.
LEMMA TwoEnds ==
    ASSUME NEW e \in Ends
    PROVE  /\ Other(e) \in Ends /\ Other(e) # e /\ Other(Other(e)) = e
           /\ \A d \in Ends : d = e \/ d = Other(e)
BY DEF Ends, Other

\* Lengths and loads are numbers.
LEMMA Numbers ==
    ASSUME TypeOK, NEW e \in Ends
    PROVE  /\ out[e] \in Seq(Frames) /\ Len(out[e]) \in Nat
           /\ pipe[e] \in Seq(Frames) /\ Len(pipe[e]) \in Nat
           /\ credit[e] \in Int /\ Load(e) \in Int
<1>1. out[e] \in Seq(Frames) /\ pipe[e] \in Seq(Frames) /\ credit[e] \in Int
  BY DEF TypeOK
<1>2. Len(out[e]) \in Nat /\ Len(pipe[e]) \in Nat
  BY <1>1, Lengths DEF Frames
<1>. QED
  BY <1>1, <1>2, SMT DEF Load

\* Initially all there is is credit.
LEMMA InitIndInv == SizesOK /\ Init => IndInv
<1> SUFFICES ASSUME SizesOK, Init PROVE IndInv
  OBVIOUS
<1>1. TypeOK
  BY SMT DEF SizesOK, Init, TypeOK, Ends, Frames
<1>2. \A e \in Ends : Load(e) = Window
  BY SMT DEF SizesOK, Init, Load
<1>. QED
  BY <1>1, <1>2, TwoEnds, SMT DEF SizesOK, Init, IndInv, LoadBounded

\* A step that keeps the types and does not raise the load of the two ends by more
\* than the pings it adds keeps the invariant.
LEMMA LoadStep ==
    ASSUME SizesOK, IndInv, TypeOK', NEW e \in Ends, NEW m \in Int, NEW n \in Int,
           Load(e)' = Load(e) + m, Load(Other(e))' = Load(Other(e)) + n,
           m + n <= pinging' - pinging,
           \A d \in Ends : credit'[d] >= 0
    PROVE  IndInv'
<1>1. Load(e) \in Int /\ Load(Other(e)) \in Int /\ pinging \in Int /\ pinging' \in Int
  BY Numbers, TwoEnds DEF IndInv, TypeOK
<1>2. Load(e) + Load(Other(e)) <= 2 * Window + pinging
  BY DEF IndInv, LoadBounded
<1>3. /\ Load(e)' + Load(Other(e))' <= 2 * Window + pinging'
      /\ Load(Other(e))' + Load(e)' <= 2 * Window + pinging'
  <2>1. \A a, b, p, q \in Int : a + b <= 2 * Window + p /\ m + n <= q - p =>
          (a + m) + (b + n) <= 2 * Window + q /\ (b + n) + (a + m) <= 2 * Window + q
    BY SMT DEF SizesOK
  <2>. QED
    BY <1>1, <1>2, <2>1, Zenon
<1>4. ASSUME NEW d \in Ends PROVE (Load(d) + Load(Other(d)) <= 2 * Window + pinging)'
  <2>1. CASE d = e
    BY <1>3, <2>1
  <2>2. CASE d = Other(e) /\ Other(d) = e
    BY <1>3, <2>2
  <2>. QED
    BY <2>1, <2>2, TwoEnds
<1>5. LoadBounded'
  BY <1>4 DEF LoadBounded
<1>. QED
  BY <1>5 DEF IndInv

\* A data frame takes the place of a permit.
LEMMA SendDataIndInv ==
    ASSUME SizesOK, IndInv, NEW e \in Ends, SendData(e) PROVE IndInv'
<1>1. TypeOK /\ Other(e) \in Ends /\ Other(e) # e
  BY TwoEnds DEF IndInv
<1>2. Append(out[e], "data") \in Seq(Frames) /\ Len(Append(out[e], "data")) = Len(out[e]) + 1
  BY <1>1, Numbers, Lengths DEF Frames
<1>3. TypeOK'
  BY <1>1, <1>2, SMT DEF TypeOK, SendData, Send
<1>4. Load(e)' = Load(e) + 0
  BY <1>1, <1>2, Numbers, SMT DEF TypeOK, SendData, Send, Load
<1>5. Load(Other(e))' = Load(Other(e)) + 0
  BY <1>1, Numbers, SMT DEF TypeOK, SendData, Send, Load
<1>6. \A d \in Ends : credit'[d] >= 0
  BY <1>1, SMT DEF TypeOK, IndInv, SendData
<1>7. 0 + 0 <= pinging' - pinging
  BY <1>1, SMT DEF TypeOK, SendData
<1>. QED
  BY <1>3, <1>4, <1>5, <1>6, <1>7, LoadStep

\* A ping adds one to both sides.
LEMMA SendPingIndInv ==
    ASSUME SizesOK, IndInv, SendPing PROVE IndInv'
<1> DEFINE e == "edge"
<1>1. TypeOK /\ e \in Ends /\ Other(e) \in Ends /\ Other(e) # e
  BY TwoEnds DEF IndInv, Ends
<1>2. Append(out[e], "ping") \in Seq(Frames) /\ Len(Append(out[e], "ping")) = Len(out[e]) + 1
  BY <1>1, Numbers, Lengths DEF Frames
<1>3. TypeOK'
  BY <1>1, <1>2, SMT DEF TypeOK, SendPing, Send, SizesOK
<1>4. Load(e)' = Load(e) + 1
  BY <1>1, <1>2, Numbers, SMT DEF TypeOK, SendPing, Send, Load
<1>5. Load(Other(e))' = Load(Other(e)) + 0
  BY <1>1, Numbers, SMT DEF TypeOK, SendPing, Send, Load
<1>6. \A d \in Ends : credit'[d] >= 0
  BY <1>1 DEF IndInv, SendPing
<1>7. 1 + 0 <= pinging' - pinging
  BY <1>1, SMT DEF TypeOK, SendPing
<1> HIDE DEF e
<1>. QED
  BY <1>1, <1>3, <1>4, <1>5, <1>6, <1>7, LoadStep

\* The transport moves a frame from one place to the next.
LEMMA TransmitIndInv ==
    ASSUME SizesOK, IndInv, NEW e \in Ends, Transmit(e) PROVE IndInv'
<1> DEFINE f == Head(out[e])
<1>1. TypeOK /\ Other(e) \in Ends /\ Other(e) # e /\ out[e] # <<>>
  BY TwoEnds DEF IndInv, Transmit
<1>2. f \in Frames /\ Tail(out[e]) \in Seq(Frames) /\ Len(Tail(out[e])) = Len(out[e]) - 1
  BY <1>1, Numbers, Lengths DEF Frames
<1>3. pipe' = [pipe EXCEPT ![e] = Append(@, f)] /\ out' = [out EXCEPT ![e] = Tail(@)]
      /\ UNCHANGED <<credit, pinging>>
  BY DEF Transmit
<1> HIDE DEF f
<1>4. Append(pipe[e], f) \in Seq(Frames) /\ Len(Append(pipe[e], f)) = Len(pipe[e]) + 1
  BY <1>1, <1>2, Numbers, Lengths
<1>5. TypeOK'
  BY <1>1, <1>2, <1>3, <1>4, SMT DEF TypeOK
<1>6. Load(e)' = Load(e) + 0
  <2>1. out'[e] = Tail(out[e]) /\ pipe'[e] = Append(pipe[e], f) /\ credit'[e] = credit[e]
    BY <1>1, <1>3 DEF TypeOK
  <2>2. Len(out'[e]) = Len(out[e]) - 1 /\ Len(pipe'[e]) = Len(pipe[e]) + 1
    BY <1>2, <1>4, <2>1
  <2>3. Len(out[e]) \in Int /\ Len(pipe[e]) \in Int /\ credit[e] \in Int
    BY <1>1, Numbers
  <2>4. Load(e)' = credit[e] + (Len(out[e]) - 1) + (Len(pipe[e]) + 1)
    BY <2>1, <2>2, Zenon DEF Load
  <2>5. credit[e] + (Len(out[e]) - 1) + (Len(pipe[e]) + 1)
          = (credit[e] + Len(out[e]) + Len(pipe[e])) + 0
    <3>1. \A a, b, c \in Int : a + (b - 1) + (c + 1) = (a + b + c) + 0
      BY SMT
    <3>. QED
      BY <2>3, <3>1, Zenon
  <2>. QED
    BY <2>4, <2>5, Zenon DEF Load
<1>7. Load(Other(e))' = Load(Other(e)) + 0
  BY <1>1, <1>3, Numbers, SMT DEF TypeOK, Load
<1>8. \A d \in Ends : credit'[d] >= 0
  BY <1>3 DEF IndInv
<1>9. 0 + 0 <= pinging' - pinging
  BY <1>1, <1>3, SMT DEF TypeOK
<1>. QED
  BY <1>5, <1>6, <1>7, <1>8, <1>9, LoadStep

\* A read loop trades a frame for its answer or for a permit, or drops a pong.
LEMMA HandleFrameIndInv ==
    ASSUME SizesOK, IndInv, NEW e \in Ends, HandleFrame(e) PROVE IndInv'
<1> DEFINE o == Other(e)
<1>1. TypeOK /\ o \in Ends /\ o # e /\ pipe[o] # <<>>
  BY TwoEnds DEF IndInv, HandleFrame
<1>2. Tail(pipe[o]) \in Seq(Frames) /\ Len(Tail(pipe[o])) = Len(pipe[o]) - 1
  BY <1>1, Numbers, Lengths DEF Frames
<1>3. pipe' = [pipe EXCEPT ![o] = Tail(@)]
  BY DEF HandleFrame
<1> HIDE DEF o
<1>4. ASSUME NEW g \in Frames, Send(e, g), UNCHANGED <<credit, pinging>> PROVE IndInv'
  <2>1. Append(out[e], g) \in Seq(Frames) /\ Len(Append(out[e], g)) = Len(out[e]) + 1
    BY <1>1, Numbers, Lengths
  <2>2. TypeOK'
    BY <1>1, <1>2, <1>3, <1>4, <2>1, SMT DEF TypeOK, Send
  <2>3. Load(e)' = Load(e) + 1
    BY <1>1, <1>3, <1>4, <2>1, Numbers, SMT DEF TypeOK, Send, Load
  <2>4. Load(o)' = Load(o) + (-1)
    BY <1>1, <1>2, <1>3, <1>4, Numbers, SMT DEF TypeOK, Send, Load
  <2>5. \A d \in Ends : credit'[d] >= 0
    BY <1>4 DEF IndInv
  <2>6. 1 + (-1) <= pinging' - pinging
    BY <1>1, <1>4, SMT DEF TypeOK
  <2>. QED
    BY <2>2, <2>3, <2>4, <2>5, <2>6, LoadStep, SMT DEF o
<1>5. ASSUME pinging' = pinging - 1, UNCHANGED <<out, credit>> PROVE IndInv'
  <2>1. TypeOK'
    BY <1>1, <1>2, <1>3, <1>5, SMT DEF TypeOK, SizesOK
  <2>2. Load(e)' = Load(e) + 0
    BY <1>1, <1>3, <1>5, Numbers, SMT DEF TypeOK, Load
  <2>3. Load(o)' = Load(o) + (-1)
    BY <1>1, <1>2, <1>3, <1>5, Numbers, SMT DEF TypeOK, Load
  <2>4. \A d \in Ends : credit'[d] >= 0
    BY <1>5 DEF IndInv
  <2>5. 0 + (-1) <= pinging' - pinging
    BY <1>1, <1>5, SMT DEF TypeOK
  <2>. QED
    BY <2>1, <2>2, <2>3, <2>4, <2>5, LoadStep, SMT DEF o
<1>6. ASSUME credit' = [credit EXCEPT ![e] = @ + 1], UNCHANGED <<out, pinging>> PROVE IndInv'
  <2>1. TypeOK'
    BY <1>1, <1>2, <1>3, <1>6, SMT DEF TypeOK
  <2>2. Load(e)' = Load(e) + 1
    BY <1>1, <1>3, <1>6, Numbers, SMT DEF TypeOK, Load
  <2>3. Load(o)' = Load(o) + (-1)
    BY <1>1, <1>2, <1>3, <1>6, Numbers, SMT DEF TypeOK, Load
  <2>4. \A d \in Ends : credit'[d] >= 0
    BY <1>1, <1>6, SMT DEF IndInv, TypeOK
  <2>5. 1 + (-1) <= pinging' - pinging
    BY <1>1, <1>6, SMT DEF TypeOK
  <2>. QED
    BY <2>1, <2>2, <2>3, <2>4, <2>5, LoadStep, SMT DEF o
<1>. QED
  BY <1>4, <1>5, <1>6 DEF HandleFrame, Frames

\* Every step keeps the invariant.
LEMMA IndInvInductive == SizesOK /\ IndInv /\ [Next]_vars => IndInv'
<1> SUFFICES ASSUME SizesOK, IndInv, [Next]_vars PROVE IndInv'
  OBVIOUS
<1>1. CASE UNCHANGED vars
  BY <1>1 DEF vars, IndInv, TypeOK, LoadBounded, Load
<1>. QED
  BY <1>1, SendDataIndInv, SendPingIndInv, TransmitIndInv, HandleFrameIndInv DEF Next

\* With queues that suffice the two loops cannot both wait on full pipes.
LEMMA Enough == SizesOK /\ QueuesSuffice /\ IndInv => SomebodyMoves
<1> SUFFICES ASSUME SizesOK, QueuesSuffice, IndInv, NEW w \in Ends, LoopWaits(w)
             PROVE  \E e \in Ends : \/ out[e] # <<>> /\ Len(pipe[e]) < Pipe
                                    \/ ~LoopWaits(e) /\ pipe[Other(e)] # <<>>
  BY DEF SomebodyMoves
<1>1. \A d \in Ends : out[d] \in Seq(Frames) /\ pipe[d] \in Seq(Frames)
                      /\ Len(out[d]) \in Nat /\ Len(pipe[d]) \in Nat
  BY Lengths DEF IndInv, TypeOK, Frames
<1>2. \A d \in Ends : LoopWaits(d) => Len(out[d]) >= Queue + 1
  BY <1>1, SMT DEF LoopWaits, Waiting, SizesOK
<1>3. \A d \in Ends : LoopWaits(d) => out[d] # <<>>
  BY <1>1, <1>2, SMT DEF SizesOK
<1>4. CASE Len(pipe[w]) < Pipe
  BY <1>3, <1>4
<1>5. CASE Len(pipe[w]) >= Pipe
  <2> DEFINE o == Other(w)
  <2>1. o \in Ends /\ Other(o) = w /\ Ends = {o, w} /\ o # w
    BY DEF Other, Ends
  <2>2. pipe[w] # <<>>
    BY <1>5, <1>1, SMT DEF SizesOK
  <2>3. CASE ~LoopWaits(o)
    BY <2>1, <2>2, <2>3
  <2>4. CASE LoopWaits(o)
    <3>1. CASE Len(pipe[o]) < Pipe
      BY <3>1, <2>1, <2>4, <1>3
    <3>2. CASE Len(pipe[o]) >= Pipe
      <4>1. Load(o) + Load(w) <= 2 * Window + pinging
        BY <2>1 DEF IndInv, LoadBounded
      <4>2. Load(o) >= Queue + 1 + Pipe /\ Load(w) >= Queue + 1 + Pipe
        BY <1>1, <1>2, <1>5, <2>1, <2>4, <3>2, SMT DEF Load, IndInv, TypeOK, SizesOK
      <4>3. Load(o) \in Int /\ Load(w) \in Int
        BY <1>1, <2>1, SMT DEF Load, IndInv, TypeOK
      <4>4. Load(o) + Load(w) <= 2 * Window + Pings
        BY <4>1, <4>3, SMT DEF IndInv, TypeOK, LoadBounded, SizesOK
      <4>5. FALSE
        <5> HIDE DEF o
        <5>. QED  BY <4>2, <4>3, <4>4, SMT DEF QueuesSuffice, SizesOK
      <4>. QED  BY <4>5
    <3>. QED  BY <3>1, <3>2, <1>1, <2>1, SMT DEF SizesOK
  <2>. QED  BY <2>3, <2>4
<1>. QED
  BY <1>4, <1>5, <1>1, SMT DEF SizesOK

\* The sizing rule of OUTBOUND_QUEUE: if queue and transport of a direction hold what
\* the windows of one end pay for, the read loops of edge and agent never wait for
\* each other.  (The queue has 1024 places; 512 streams with 256 KiB windows may have
\* 2048 full frames under way, so the defaults do not obey it.)
THEOREM SizingRule == SizesOK /\ QueuesSuffice => (Spec => []SomebodyMoves)
<1> SUFFICES ASSUME SizesOK, QueuesSuffice PROVE Spec => []SomebodyMoves
  OBVIOUS
<1>1. Init => IndInv
  BY InitIndInv
<1>2. IndInv /\ [Next]_vars => IndInv'
  BY IndInvInductive
<1>3. IndInv => SomebodyMoves
  BY Enough
<1>. QED
  BY <1>1, <1>2, <1>3, PTL DEF Spec
=============================================================================
