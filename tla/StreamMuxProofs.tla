-------------------------- MODULE StreamMuxProofs ---------------------------
(***************************************************************************)
(* Proofs about StreamMux for any number of requests, any limit, window    *)
(* and length of bodies: the stream counter agrees with the table, only a  *)
(* race exceeds the limit, a response taken for complete is, the           *)
(* whole implements ResponsePipe, no response under way waits for nothing, *)
(* and no part of an upload passes for the whole.                          *)
(***************************************************************************)
EXTENDS StreamMux, FiniteSetTheorems, TLAPS

\* Where the frames f are in s, and how many.
At(s, f) == {i \in 1 .. Len(s) : s[i] = f}
Tally(s, f) == Cardinality(At(s, f))

\* No frame at all.
Empty(s) == s = <<>>

\* The frames that end a body, and where they may be: at the end.
Ends(s) == Tally(s, "end") + Tally(s, "reset")
EndsLast(s) == \A i \in 1 .. Len(s) - 1 : s[i] \notin {"end", "reset"}

\* TypeOK without its bounds.
Types ==
    /\ handler \in [Requests -> HandlerSteps]
    /\ entry \in [Requests -> BOOLEAN]
    /\ openStreams \in 0 .. Wrap - 1
    /\ closing \in SUBSET Requests /\ raced \in SUBSET Requests
    /\ head \in [Requests -> {"pending", "sent", "dropped"}]
    /\ body \in [Requests -> Seq({"data", "end", "reset"})]
    /\ pump \in [Requests -> PumpSteps]
    /\ received \in [Requests -> Nat]
    /\ outcome \in [Requests -> Outcomes]
    /\ link \in Links
    /\ doomed \in SUBSET Requests
    /\ toAgent \in [Requests -> Seq(EdgeFrames)]
    /\ toEdge \in [Requests -> Seq(AgentFrames)]
    /\ agentHas \in [Requests -> BOOLEAN]
    /\ task \in [Requests -> TaskSteps]
    /\ left \in [Requests -> Nat]
    /\ credit \in [Requests -> Nat]
    /\ reading \in [Requests -> BOOLEAN]
    /\ uploaded \in [Requests -> BOOLEAN]

\* Before Open is queued the agent knows nothing of the request and nobody pumps.
Unopened(q) ==
    /\ handler[q] \in {"idle", "admitted", "inserted", "opening"} =>
          /\ pump[q] = "none" /\ outcome[q] = "none"
          /\ Empty(toAgent[q]) /\ task[q] = "none"
    /\ handler[q] \in {"idle", "admitted"} => ~entry[q]
    /\ handler[q] \in {"inserted", "opening"} /\ link \in {"up", "down"} => entry[q]

\* Before the agent reads Open nothing comes back, and Open comes once.
Unserved(q) ==
    /\ task[q] = "none" =>
          /\ Empty(toEdge[q]) /\ Empty(body[q]) /\ left[q] = Body
          /\ Tally(toAgent[q], "credit") = 0
    /\ Tally(toAgent[q], "open") <= 1
    /\ Tally(toAgent[q], "open") > 0 => task[q] = "none"

\* The frames of a response and their credit, wherever they are.
Produced(q) == received[q] + Tally(body[q], "data") + Tally(toEdge[q], "data") + left[q]
Paid(q) == credit[q] + Tally(toEdge[q], "data") + Tally(toAgent[q], "credit")

\* End and Reset are the last frame of a response, and End comes after all of it.
Ordered(q) ==
    /\ EndsLast(toEdge[q]) /\ EndsLast(body[q])
    /\ Ends(toEdge[q]) + Ends(body[q]) > 0 => task[q] = "done"
    /\ Ends(body[q]) > 0 => Empty(toEdge[q])
    /\ Tally(toEdge[q], "end") + Tally(body[q], "end") > 0 => left[q] = 0

\* While the connection holds and the upload did not fail, the edge closes the stream
\* of a request in progress only after its last frame, so no frame was dropped.
Undropped(q) ==
    link = "up" /\ pump[q] # "failed" =>
        /\ handler[q] \in {"waiting", "answering"} /\ ~entry[q] => Ends(body[q]) > 0
        /\ handler[q] # "over" => Produced(q) = Body
        /\ outcome[q] = "finished" => received[q] = Body

RequestOK(q) ==
    /\ Unopened(q) /\ Unserved(q) /\ Ordered(q) /\ Undropped(q)
    /\ Produced(q) <= Body /\ Paid(q) <= Window

\* The counter and the sets it stands for.
Inserted == {q \in Requests : handler[q] = "inserted"}
Counted ==
    \/ openStreams + Cardinality(Inserted) = Cardinality(Held)
    \/ openStreams + Cardinality(Inserted) = Cardinality(Held) + Wrap

\* A stream that is being closed was in the table and is not any more.
Early == {q \in Requests : handler[q] \in {"idle", "admitted"}}
ClosedOnce == \A q \in closing : ~entry[q] /\ q \notin Early

\* The streams of requests that did not race, those in the making included.
Admitted == {q \in Requests : handler[q] = "admitted"}
Slots == (Held \cup Admitted) \ raced
SlotsKept == Limit > 0 => Cardinality(Slots) <= Limit

RequestsOK == \A q \in Requests : RequestOK(q)
IndInv == Types /\ RequestsOK /\ Counted /\ ClosedOnce /\ SlotsKept

-----------------------------------------------------------------------------
(* Tallies *)

\* The positions of f are finitely many.
LEMMA TallyType ==
    ASSUME NEW S, NEW s \in Seq(S), NEW f
    PROVE  /\ IsFiniteSet(At(s, f))
           /\ Tally(s, f) \in Nat
<1>1. IsFiniteSet(1 .. Len(s))
  BY FS_Interval
<1>. QED
  BY <1>1, FS_Subset, FS_CardinalityType DEF At, Tally

\* An empty queue holds nothing.
LEMMA TallyEmpty ==
    ASSUME NEW f
    PROVE  Tally(<<>>, f) = 0
<1>1. At(<<>>, f) = {}
  BY DEF At
<1>. QED
  BY <1>1, FS_EmptySet DEF Tally

\* A queue counts one frame more of the kind that is put in, and no other.
LEMMA TallyAppend ==
    ASSUME NEW S, NEW s \in Seq(S), NEW e \in S, NEW f
    PROVE  Tally(Append(s, e), f) = IF e = f THEN Tally(s, f) + 1 ELSE Tally(s, f)
<1>1. IsFiniteSet(At(s, f))
  BY TallyType
<1>2. /\ At(Append(s, e), f) = IF e = f THEN At(s, f) \cup {Len(s) + 1} ELSE At(s, f)
      /\ Len(s) + 1 \notin At(s, f)
  BY DEF At
<1>. QED
  BY <1>1, <1>2, FS_AddElement DEF Tally

\* A queue counts one frame less of the kind that is taken out, and no other.
LEMMA TallyTail ==
    ASSUME NEW S, NEW s \in Seq(S), s # <<>>, NEW f
    PROVE  Tally(s, f) = IF Head(s) = f THEN Tally(Tail(s), f) + 1 ELSE Tally(Tail(s), f)
<1> DEFINE R == At(s, f) \ {1}
           g == [i \in At(Tail(s), f) |-> i + 1]
<1>1. Tail(s) \in Seq(S) /\ Len(Tail(s)) = Len(s) - 1 /\ Len(s) \in Nat \ {0}
  OBVIOUS
<1>2. IsFiniteSet(At(s, f)) /\ IsFiniteSet(At(Tail(s), f))
  BY <1>1, TallyType
<1>3. g \in Bijection(At(Tail(s), f), R)
  <2>1. g \in [At(Tail(s), f) -> R]
    BY <1>1 DEF At
  <2>2. \A i, j \in At(Tail(s), f) : g[i] = g[j] => i = j
    BY <1>1 DEF At
  <2>3. \A j \in R : j - 1 \in At(Tail(s), f) /\ g[j - 1] = j
    BY <1>1 DEF At
  <2>. QED
    BY <2>1, <2>2, <2>3 DEF Bijection, Injection, Surjection, IsInjective
<1>4. Cardinality(R) = Tally(Tail(s), f)
  BY <1>2, <1>3, FS_Bijection, Zenon DEF ExistsBijection, Tally
<1>5. 1 \in At(s, f) <=> Head(s) = f
  BY <1>1 DEF At
<1>6. Cardinality(R) = IF 1 \in At(s, f) THEN Tally(s, f) - 1 ELSE Tally(s, f)
  BY <1>2, FS_RemoveElement DEF Tally
<1>7. Tally(s, f) \in Nat
  BY TallyType
<1>. QED
  BY <1>4, <1>5, <1>6, <1>7

\* What a queue loses and gains by one frame.
LEMMA Queue ==
    ASSUME NEW S, NEW s \in Seq(S)
    PROVE  /\ \A f : Tally(s, f) \in Nat
           /\ \A e \in S :
                 /\ Append(s, e) \in Seq(S)
                 /\ \A f : Tally(Append(s, e), f) = IF e = f THEN Tally(s, f) + 1 ELSE Tally(s, f)
                 /\ Ends(s) = 0 => EndsLast(Append(s, e))
           /\ s # <<>> =>
                 /\ Head(s) \in S /\ Tail(s) \in Seq(S)
                 /\ \A f : Tally(s, f) = IF Head(s) = f THEN Tally(Tail(s), f) + 1
                                                       ELSE Tally(Tail(s), f)
                 /\ EndsLast(s) => EndsLast(Tail(s))
                 /\ EndsLast(s) /\ Head(s) \in {"end", "reset"} => Tail(s) = <<>>
<1>1. \A f : Tally(s, f) \in Nat
  BY TallyType
<1>2. ASSUME NEW e \in S, Ends(s) = 0 PROVE EndsLast(Append(s, e))
  <2>1. Tally(s, "end") = 0 /\ Tally(s, "reset") = 0
    BY <1>1, <1>2 DEF Ends
  <2>2. At(s, "end") = {} /\ At(s, "reset") = {}
    BY <2>1, TallyType, FS_EmptySet DEF Tally
  <2>. QED
    BY <2>2 DEF At, EndsLast
<1>3. ASSUME s # <<>>, EndsLast(s)
      PROVE  EndsLast(Tail(s)) /\ (Head(s) \in {"end", "reset"} => Tail(s) = <<>>)
  BY <1>3 DEF EndsLast
<1>. QED
  BY <1>1, <1>2, <1>3, TallyAppend, TallyTail

-----------------------------------------------------------------------------
(* What the operations do to the queues and to the table. *)

\* What send does to the queue of a stream: one frame more, or nothing without a
\* session.
LEMMA SendsToAgent ==
    ASSUME Types, NEW q \in Requests, NEW f \in EdgeFrames, SendToAgent(q, f)
    PROVE  /\ toAgent' \in [Requests -> Seq(EdgeFrames)]
           /\ \A r \in Requests \ {q} : toAgent'[r] = toAgent[r]
           /\ \A g : Tally(toAgent'[q], g) = IF link = "up" /\ f = g THEN Tally(toAgent[q], g) + 1
                                                             ELSE Tally(toAgent[q], g)
<1>1. toAgent[q] \in Seq(EdgeFrames)
  BY DEF Types
<1>2. Append(toAgent[q], f) \in Seq(EdgeFrames)
  BY <1>1, Queue
<1>3. toAgent'[q] = IF link = "up" THEN Append(toAgent[q], f) ELSE toAgent[q]
  BY DEF Types, SendToAgent
<1>4. toAgent' \in [Requests -> Seq(EdgeFrames)]
  BY <1>1, <1>2 DEF Types, SendToAgent
<1>5. \A r \in Requests \ {q} : toAgent'[r] = toAgent[r]
  BY DEF Types, SendToAgent
<1>. QED
  BY <1>1, <1>3, <1>4, <1>5, Queue

\* The same for the agent; the response stays in order if it had not ended.
LEMMA SendsToEdge ==
    ASSUME Types, NEW q \in Requests, NEW f \in AgentFrames, SendToEdge(q, f)
    PROVE  /\ toEdge' \in [Requests -> Seq(AgentFrames)]
           /\ \A r \in Requests \ {q} : toEdge'[r] = toEdge[r]
           /\ \A g : Tally(toEdge'[q], g) = IF link = "up" /\ f = g THEN Tally(toEdge[q], g) + 1
                                                            ELSE Tally(toEdge[q], g)
           /\ EndsLast(toEdge[q]) /\ Ends(toEdge[q]) = 0 => EndsLast(toEdge'[q])
<1>1. toEdge[q] \in Seq(AgentFrames)
  BY DEF Types
<1>2. Append(toEdge[q], f) \in Seq(AgentFrames)
  BY <1>1, Queue
<1>3. toEdge'[q] = IF link = "up" THEN Append(toEdge[q], f) ELSE toEdge[q]
  BY DEF Types, SendToEdge
<1>4. toEdge' \in [Requests -> Seq(AgentFrames)]
  BY <1>1, <1>2 DEF Types, SendToEdge
<1>5. \A r \in Requests \ {q} : toEdge'[r] = toEdge[r]
  BY DEF Types, SendToEdge
<1>. QED
  BY <1>1, <1>3, <1>4, <1>5, Queue

\* The counter has a value.
LEMMA WrapPositive ==
    /\ Wrap \in Nat \ {0}
    /\ \A x \in Nat : x % Wrap \in 0 .. Wrap - 1
<1>1. Wrap \in Nat \ {0}
  BY WrapAssumption, FS_CardinalityType
<1>. QED
  BY <1>1

\* The counter before fetch_add and fetch_sub wrap it.
LEMMA CounterType ==
    ASSUME Types
    PROVE  /\ openStreams \in Nat /\ openStreams < Wrap
           /\ openStreams + 1 \in Nat /\ openStreams + Wrap - 1 \in Nat
<1>1. openStreams \in 0 .. Wrap - 1
  BY DEF Types
<1>. QED
  BY <1>1, WrapPositive

\* close_stream up to the counter: the entry goes, nobody else is touched.
LEMMA Closes ==
    ASSUME Types, NEW q \in Requests, CloseStream(q)
    PROVE  /\ entry' \in [Requests -> BOOLEAN] /\ closing' \in SUBSET Requests
           /\ UNCHANGED <<openStreams, raced, head>>
           /\ ~entry'[q] /\ \A r \in Requests \ {q} : entry'[r] = entry[r]
  BY DEF Types, CloseStream

-----------------------------------------------------------------------------
(* Types *)

\* The steps of one request.
StepOf(q) ==
    \/ Ingress(q) \/ HangUpEarly(q) \/ HangUpLate(q)
    \/ Pump(q) \/ PumpFail(q)
    \/ FromAgent(q) \/ FromEdge(q)
    \/ ServeStream(q) \/ LocalFails(q)
    \/ CloseDoomed(q) \/ CountDown(q)

\* Every step for a request keeps the types.
LEMMA TypesStep ==
    ASSUME Types, NEW q \in Requests, StepOf(q)
    PROVE  Types'
<1> USE DEF HandlerSteps, PumpSteps, TaskSteps, Outcomes, EdgeFrames, AgentFrames,
            edgeVars, countVars, linkVars, netVars, agentVars
<1>1. CASE Admit(q)
  <2>1. raced' = raced \/ raced' = raced \cup {q}
    BY <1>1 DEF Admit
  <2>. QED
    BY <1>1, <2>1 DEF Types, Admit, Finish
<1>2. CASE Insert(q)
  BY <1>2 DEF Types, Insert
<1>3. CASE Count(q)
  <2>1. openStreams' \in 0 .. Wrap - 1
    BY <1>3, CounterType, WrapPositive DEF Count
  <2>. QED
    BY <1>3, <2>1 DEF Types, Count
<1>4. CASE OpenSent(q)
  <2>1. PICK p \in {"data", "end"} : pump' = [pump EXCEPT ![q] = p]
    BY <1>4 DEF Types, OpenSent
  <2>. QED
    BY <1>4, <2>1, SendsToAgent DEF Types, OpenSent
<1>5. CASE OpenFailed(q)
  BY <1>5, Closes DEF Types, OpenFailed, Finish
<1>6. CASE HeadArrived(q)
  BY <1>6 DEF Types, HeadArrived
<1>7. CASE HeadDropped(q)
  BY <1>7, Closes DEF Types, HeadDropped, Finish
<1>8. CASE HeadTimeout(q)
  BY <1>8, Closes, SendsToAgent DEF Types, HeadTimeout, Finish
<1>9. CASE Deliver(q)
  <2>1. body' \in [Requests -> Seq({"data", "end", "reset"})]
    BY <1>9, Queue DEF Types, Deliver
  <2>2. CASE Head(body[q]) = "data"
    <3>1. received' \in [Requests -> Nat]
      <4>1. received \in [Requests -> Nat]
        BY DEF Types
      <4>2. received' = [received EXCEPT ![q] = @ + 1]
        BY <1>9, <2>2 DEF Deliver
      <4>. QED
        BY <4>1, <4>2
    <3>. QED
      BY <1>9, <2>1, <2>2, <3>1 DEF Types, Deliver
  <2>3. CASE Head(body[q]) # "data"
    BY <1>9, <2>1, <2>3, Closes, SendsToAgent
       DEF Types, Deliver, DropBody, TrySendToAgent, Finish
  <2>. QED
    BY <2>2, <2>3
<1>10. CASE BodyRunsOut(q)
  BY <1>10, Closes, SendsToAgent DEF Types, BodyRunsOut, DropBody, TrySendToAgent, Finish
<1>11. CASE HangUpEarly(q)
  BY <1>11 DEF Types, HangUpEarly, Finish
<1>12. CASE HangUpLate(q)
  BY <1>12, Closes, SendsToAgent DEF Types, HangUpLate, DropBody, TrySendToAgent, Finish
<1>13. CASE PumpData(q)
  BY <1>13, SendsToAgent DEF Types, PumpData
<1>14. CASE PumpEnd(q)
  BY <1>14, SendsToAgent DEF Types, PumpEnd
<1>15. CASE PumpFail(q)
  BY <1>15, Closes, SendsToAgent DEF Types, PumpFail
<1>16. CASE FromAgent(q)
  <2>1. toEdge' \in [Requests -> Seq(AgentFrames)]
    BY <1>16, Queue DEF Types, FromAgent
  <2>2. CASE OnHead(q)
    BY <1>16, <2>1, <2>2 DEF Types, FromAgent, OnHead
  <2>3. CASE OnData(q)
    <3>1. body' \in [Requests -> Seq({"data", "end", "reset"})]
      <4>1. body \in [Requests -> Seq({"data", "end", "reset"})]
        BY DEF Types
      <4>2. body' = body \/ body' = [body EXCEPT ![q] = Append(@, "data")]
        BY <2>3 DEF OnData
      <4>3. Append(body[q], "data") \in Seq({"data", "end", "reset"})
        BY <4>1
      <4>. QED
        BY <4>1, <4>2, <4>3
    <3>2. toAgent' \in [Requests -> Seq(EdgeFrames)]
      <4>1. CASE SendToAgent(q, "credit")
        BY <4>1, SendsToAgent
      <4>2. CASE UNCHANGED toAgent
        BY <4>2 DEF Types
      <4>. QED
        BY <2>3, <4>1, <4>2 DEF OnData
    <3>. QED
      BY <1>16, <2>1, <2>3, <3>1, <3>2, Closes DEF Types, FromAgent, OnData
  <2>4. ASSUME NEW f \in {"end", "reset"}, OnLast(q, f) PROVE Types'
    <3>1. body' \in [Requests -> Seq({"data", "end", "reset"})]
      BY <2>4, Queue DEF Types, OnLast
    <3>. QED
      BY <1>16, <2>1, <2>4, <3>1, Closes DEF Types, FromAgent, OnLast
  <2>. QED
    BY <1>16, <2>2, <2>3, <2>4 DEF Types, FromAgent
<1>17. CASE FromEdge(q)
  <2>1. toAgent' \in [Requests -> Seq(EdgeFrames)]
    BY <1>17, Queue DEF Types, FromEdge
  <2>2. CASE AgentOpen(q)
    BY <1>17, <2>1, <2>2, SizesAssumption DEF Types, FromEdge, AgentOpen
  <2>3. CASE AgentData(q)
    BY <1>17, <2>1, <2>3 DEF Types, FromEdge, AgentData, DropStream
  <2>4. CASE AgentEnd(q)
    BY <1>17, <2>1, <2>4 DEF Types, FromEdge, AgentEnd
  <2>5. CASE AgentReset(q)
    BY <1>17, <2>1, <2>5 DEF Types, FromEdge, AgentReset, DropStream
  <2>6. CASE AgentCredit(q)
    <3>1. credit' \in [Requests -> Nat]
      <4>1. credit \in [Requests -> Nat]
        BY DEF Types
      <4>. QED
        BY <2>6, <4>1 DEF AgentCredit
    <3>. QED
      BY <1>17, <2>1, <2>6, <3>1 DEF Types, FromEdge, AgentCredit
  <2>. QED
    BY <1>17, <2>2, <2>3, <2>4, <2>5, <2>6 DEF Types, FromEdge
<1>18. CASE LocalAnswers(q)
  <2>1. reading' \in [Requests -> BOOLEAN]
    BY <1>18, FlagAssumption DEF Types, LocalAnswers
  <2>2. toEdge' \in [Requests -> Seq(AgentFrames)]
    BY <1>18, SendsToEdge DEF Types, LocalAnswers
  <2>3. /\ task' \in [Requests -> TaskSteps] /\ agentHas' \in [Requests -> BOOLEAN]
        /\ uploaded' \in [Requests -> BOOLEAN]
    <3>1. CASE link = "up"
      BY <1>18, <3>1 DEF Types, LocalAnswers, TaskSteps
    <3>2. CASE link # "up"
      BY <1>18, <3>2 DEF Types, LocalAnswers, EndTask, DropStream, TaskSteps
    <3>. QED
      BY <3>1, <3>2
  <2>4. UNCHANGED <<edgeVars, countVars, linkVars, toAgent, left, credit>>
    BY <1>18 DEF LocalAnswers
  <2>. QED
    BY <2>1, <2>2, <2>3, <2>4 DEF Types
<1>19. CASE SendBody(q)
  <2>1. toEdge' \in [Requests -> Seq(AgentFrames)]
    BY <1>19, SendsToEdge DEF Types, SendBody
  <2>2. left' \in [Requests -> Nat] /\ credit' \in [Requests -> Nat]
    <3>1. left \in [Requests -> Nat] /\ credit \in [Requests -> Nat]
      BY DEF Types
    <3>2. /\ left[q] > 0 /\ left' = [left EXCEPT ![q] = @ - 1]
          /\ credit[q] > 0 /\ credit' = [credit EXCEPT ![q] = @ - 1]
      BY <1>19 DEF SendBody
    <3>. QED
      BY <3>1, <3>2
  <2>. QED
    <3>1. CASE link = "up"
      BY <1>19, <2>1, <2>2, <3>1 DEF Types, SendBody
    <3>2. CASE link # "up"
      BY <1>19, <2>1, <2>2, <3>2 DEF Types, SendBody, EndTask, DropStream
    <3>. QED
      BY <3>1, <3>2
<1>20. CASE SendAborted(q)
  BY <1>20 DEF Types, SendAborted, EndTask, DropStream
<1>21. CASE SendEnd(q)
  BY <1>21, SendsToEdge DEF Types, SendEnd, EndTask, DropStream
<1>22. CASE LocalFails(q)
  BY <1>22, SendsToEdge DEF Types, LocalFails, EndTask, DropStream
<1>23. CASE CloseDoomed(q)
  BY <1>23, Closes DEF Types, CloseDoomed
<1>24. CASE CountDown(q)
  <2>1. openStreams' \in 0 .. Wrap - 1
    BY <1>24, CounterType, WrapPositive DEF CountDown
  <2>. QED
    BY <1>24, <2>1 DEF Types, CountDown
<1>. QED
  BY <1>1, <1>2, <1>3, <1>4, <1>5, <1>6, <1>7, <1>8, <1>9, <1>10, <1>11, <1>12, <1>13,
     <1>14, <1>15, <1>16, <1>17, <1>18, <1>19, <1>20, <1>21, <1>22, <1>23, <1>24
     DEF StepOf, Ingress, Pump, ServeStream

-----------------------------------------------------------------------------
(* A step of one request leaves the others alone. *)

Same(r) ==
    /\ handler'[r] = handler[r] /\ entry'[r] = entry[r] /\ body'[r] = body[r]
    /\ pump'[r] = pump[r] /\ received'[r] = received[r] /\ outcome'[r] = outcome[r]
    /\ toAgent'[r] = toAgent[r] /\ toEdge'[r] = toEdge[r]
    /\ task'[r] = task[r] /\ left'[r] = left[r] /\ credit'[r] = credit[r]

\* What nobody touched stays in order.
LEMMA SameOK ==
    ASSUME NEW r \in Requests, RequestOK(r), Same(r), link' = link
    PROVE  RequestOK(r)'
  BY DEF Same, RequestOK, Unopened, Unserved, Ordered, Undropped, Produced, Paid

\* A step for one request is none of the others'.
LEMMA OthersSame ==
    ASSUME Types, NEW q \in Requests, StepOf(q), NEW r \in Requests \ {q}
    PROVE  Same(r) /\ link' = link
<1> USE DEF Types, Same, edgeVars, countVars, linkVars, netVars, agentVars
<1>1. CASE Admit(q)
  BY <1>1 DEF Admit, Finish
<1>2. CASE Insert(q)
  BY <1>2 DEF Insert
<1>3. CASE Count(q)
  BY <1>3 DEF Count
<1>4. CASE OpenSent(q)
  BY <1>4 DEF OpenSent, SendToAgent
<1>5. CASE OpenFailed(q)
  BY <1>5 DEF OpenFailed, CloseStream, Finish
<1>6. CASE HeadArrived(q)
  BY <1>6 DEF HeadArrived
<1>7. CASE HeadDropped(q)
  BY <1>7 DEF HeadDropped, CloseStream, Finish
<1>8. CASE HeadTimeout(q)
  BY <1>8 DEF HeadTimeout, CloseStream, SendToAgent, Finish
<1>9. CASE Deliver(q)
  BY <1>9 DEF Deliver, DropBody, TrySendToAgent, SendToAgent, CloseStream, Finish
<1>10. CASE BodyRunsOut(q)
  BY <1>10 DEF BodyRunsOut, DropBody, TrySendToAgent, SendToAgent, CloseStream, Finish
<1>11. CASE HangUpEarly(q)
  BY <1>11 DEF HangUpEarly, Finish
<1>12. CASE HangUpLate(q)
  BY <1>12 DEF HangUpLate, DropBody, TrySendToAgent, SendToAgent, CloseStream, Finish
<1>13. CASE PumpData(q)
  BY <1>13 DEF PumpData, SendToAgent
<1>14. CASE PumpEnd(q)
  BY <1>14 DEF PumpEnd, SendToAgent
<1>15. CASE PumpFail(q)
  BY <1>15 DEF PumpFail, CloseStream, SendToAgent
<1>16. CASE FromAgent(q)
  BY <1>16 DEF FromAgent, OnHead, OnData, OnLast, CloseStream, SendToAgent
<1>17. CASE FromEdge(q)
  BY <1>17 DEF FromEdge, AgentOpen, AgentData, AgentEnd, AgentReset, AgentCredit, DropStream
<1>18. CASE LocalAnswers(q)
  BY <1>18 DEF LocalAnswers, EndTask, DropStream, SendToEdge
<1>19. CASE SendBody(q)
  BY <1>19 DEF SendBody, EndTask, DropStream, SendToEdge
<1>20. CASE SendAborted(q)
  BY <1>20 DEF SendAborted, EndTask, DropStream
<1>21. CASE SendEnd(q)
  BY <1>21 DEF SendEnd, EndTask, DropStream, SendToEdge
<1>22. CASE LocalFails(q)
  BY <1>22 DEF LocalFails, EndTask, DropStream, SendToEdge
<1>23. CASE CloseDoomed(q)
  BY <1>23 DEF CloseDoomed, CloseStream
<1>24. CASE CountDown(q)
  BY <1>24 DEF CountDown
<1>. QED
  BY <1>1, <1>2, <1>3, <1>4, <1>5, <1>6, <1>7, <1>8, <1>9, <1>10, <1>11, <1>12, <1>13,
     <1>14, <1>15, <1>16, <1>17, <1>18, <1>19, <1>20, <1>21, <1>22, <1>23, <1>24
     DEF StepOf, Ingress, Pump, ServeStream

-----------------------------------------------------------------------------
(* A step of a request keeps its own invariant. *)

\* The tallies of a queue are numbers.
Numbers(s) ==
    /\ Tally(s, "data") \in Nat /\ Tally(s, "end") \in Nat /\ Tally(s, "reset") \in Nat
    /\ Tally(s, "open") \in Nat /\ Tally(s, "credit") \in Nat
    /\ Empty(s) => /\ Tally(s, "data") = 0 /\ Tally(s, "end") = 0 /\ Tally(s, "reset") = 0
                   /\ Tally(s, "open") = 0 /\ Tally(s, "credit") = 0
\* How they change with a frame e more.
Grows(s, t, e) ==
    /\ Tally(t, "data") = IF e = "data" THEN Tally(s, "data") + 1 ELSE Tally(s, "data")
    /\ Tally(t, "end") = IF e = "end" THEN Tally(s, "end") + 1 ELSE Tally(s, "end")
    /\ Tally(t, "reset") = IF e = "reset" THEN Tally(s, "reset") + 1 ELSE Tally(s, "reset")
    /\ Tally(t, "open") = IF e = "open" THEN Tally(s, "open") + 1 ELSE Tally(s, "open")
    /\ Tally(t, "credit") = IF e = "credit" THEN Tally(s, "credit") + 1 ELSE Tally(s, "credit")

\* Queues have numbers of frames.
LEMMA NumbersType ==
    ASSUME NEW S, NEW s \in Seq(S)
    PROVE  Numbers(s)
  BY TallyType, TallyEmpty DEF Numbers, Empty

\* A frame is put in.
LEMMA Appended ==
    ASSUME NEW S, NEW s \in Seq(S), NEW e \in S
    PROVE  /\ Numbers(Append(s, e)) /\ Grows(s, Append(s, e), e)
           /\ ~Empty(Append(s, e))
           /\ Ends(s) = 0 => EndsLast(Append(s, e))
<1>1. Append(s, e) \in Seq(S) /\ Len(Append(s, e)) = Len(s) + 1 /\ Len(s) \in Nat
  OBVIOUS
<1>2. Append(s, e) # <<>>
  BY <1>1
<1>3. Numbers(Append(s, e)) /\ (Ends(s) = 0 => EndsLast(Append(s, e)))
  BY <1>1, NumbersType, Queue
<1>4. Grows(s, Append(s, e), e)
  BY TallyAppend DEF Grows
<1>. QED
  BY <1>2, <1>3, <1>4 DEF Empty

\* A frame is taken out, from the front; nothing follows the last frame of a body.
LEMMA Taken ==
    ASSUME NEW S, NEW s \in Seq(S), s # <<>>
    PROVE  /\ ~Empty(s)
           /\ Head(s) \in S /\ Numbers(Tail(s)) /\ Grows(Tail(s), s, Head(s))
           /\ EndsLast(s) => EndsLast(Tail(s))
           /\ EndsLast(s) /\ Head(s) \in {"end", "reset"} => Empty(Tail(s))
  BY Queue, TallyTail, NumbersType DEF Grows, Empty

\* The numbers a request consists of.
LEMMA Tallies ==
    ASSUME Types, NEW q \in Requests
    PROVE  /\ Numbers(body[q]) /\ Numbers(toAgent[q]) /\ Numbers(toEdge[q])
           /\ received[q] \in Nat /\ left[q] \in Nat /\ credit[q] \in Nat
<1>1. /\ body[q] \in Seq({"data", "end", "reset"}) /\ toAgent[q] \in Seq(EdgeFrames)
      /\ toEdge[q] \in Seq(AgentFrames)
      /\ received[q] \in Nat /\ left[q] \in Nat /\ credit[q] \in Nat
  BY DEF Types
<1>. QED
  BY <1>1, NumbersType

\* A frame for the agent.
LEMMA ToAgent ==
    ASSUME Types, NEW q \in Requests, NEW f \in EdgeFrames, SendToAgent(q, f)
    PROVE  /\ Numbers(toAgent'[q])
           /\ toAgent'[q] = toAgent[q] \/ Grows(toAgent[q], toAgent'[q], f)
<1>1. toAgent[q] \in Seq(EdgeFrames)
  BY DEF Types
<1>2. toAgent'[q] = toAgent[q] \/ toAgent'[q] = Append(toAgent[q], f)
  BY DEF Types, SendToAgent
<1>. QED
  BY <1>1, <1>2, Appended, Tallies

\* A frame for the edge.
LEMMA ToEdge ==
    ASSUME Types, NEW q \in Requests, NEW f \in AgentFrames, SendToEdge(q, f),
           EndsLast(toEdge[q]), Ends(toEdge[q]) = 0
    PROVE  /\ Numbers(toEdge'[q]) /\ EndsLast(toEdge'[q])
           /\ \/ link # "up" /\ toEdge'[q] = toEdge[q]
              \/ link = "up" /\ Grows(toEdge[q], toEdge'[q], f) /\ ~Empty(toEdge'[q])
<1>1. toEdge[q] \in Seq(AgentFrames)
  BY DEF Types
<1>2. toEdge'[q] = IF link = "up" THEN Append(toEdge[q], f) ELSE toEdge[q]
  BY DEF Types, SendToEdge
<1>. QED
  BY <1>1, <1>2, Appended, Tallies

\* Frames that neither open a stream nor pay for one.
Plain == {"data", "end", "reset"}

\* The upload's frames neither open a stream nor pay for one.
LEMMA PlainFrame ==
    ASSUME Types, NEW q \in Requests, NEW f \in Plain, SendToAgent(q, f) \/ UNCHANGED toAgent
    PROVE  /\ Tally(toAgent'[q], "open") = Tally(toAgent[q], "open")
           /\ Tally(toAgent'[q], "credit") = Tally(toAgent[q], "credit")
<1>1. CASE SendToAgent(q, f)
  <2>1. f \in EdgeFrames /\ f # "open" /\ f # "credit"
    BY DEF Plain, EdgeFrames
  <2>. QED
    BY <1>1, <2>1, ToAgent DEF Grows
<1>. QED
  BY <1>1

\* A request is admitted or answered with 503.
LEMMA OwnAdmit ==
    ASSUME Types, NEW q \in Requests, RequestOK(q), Admit(q)
    PROVE  RequestOK(q)'
<1>0. /\ Numbers(body[q]) /\ Numbers(toAgent[q]) /\ Numbers(toEdge[q])
      /\ received[q] \in Nat /\ left[q] \in Nat /\ credit[q] \in Nat
  BY Tallies
<1>1. /\ handler[q] = "idle"
      /\ \/ handler'[q] = "admitted" /\ outcome'[q] = outcome[q]
         \/ handler'[q] = "over" /\ outcome'[q] = "503"
      /\ pump'[q] = pump[q] /\ entry'[q] = entry[q] /\ body'[q] = body[q]
      /\ received'[q] = received[q] /\ toAgent'[q] = toAgent[q] /\ toEdge'[q] = toEdge[q]
      /\ task'[q] = task[q] /\ left'[q] = left[q] /\ credit'[q] = credit[q] /\ link' = link
  BY DEF Types, Admit, Finish, edgeVars, countVars, linkVars, netVars, agentVars
<1>. QED
  BY <1>0, <1>1, SizesAssumption
     DEF RequestOK, Unopened, Unserved, Ordered, Undropped, Produced, Paid, Ends, Numbers,
         Grows

\* Its stream is entered in the table.
LEMMA OwnInsert ==
    ASSUME Types, NEW q \in Requests, RequestOK(q), Insert(q)
    PROVE  RequestOK(q)'
<1>0. /\ Numbers(body[q]) /\ Numbers(toAgent[q]) /\ Numbers(toEdge[q])
      /\ received[q] \in Nat /\ left[q] \in Nat /\ credit[q] \in Nat
  BY Tallies
<1>1. /\ handler[q] = "admitted" /\ handler'[q] = "inserted" /\ entry'[q]
      /\ outcome'[q] = outcome[q] /\ pump'[q] = pump[q] /\ received'[q] = received[q]
      /\ body'[q] = body[q] /\ toAgent'[q] = toAgent[q] /\ toEdge'[q] = toEdge[q]
      /\ task'[q] = task[q] /\ left'[q] = left[q] /\ credit'[q] = credit[q] /\ link' = link
  BY DEF Types, Insert, edgeVars, countVars, linkVars, netVars, agentVars
<1>. QED
  BY <1>0, <1>1, SizesAssumption
     DEF RequestOK, Unopened, Unserved, Ordered, Undropped, Produced, Paid, Ends, Numbers,
         Grows

\* The stream is counted.
LEMMA OwnCount ==
    ASSUME Types, NEW q \in Requests, RequestOK(q), Count(q)
    PROVE  RequestOK(q)'
<1>0. /\ Numbers(body[q]) /\ Numbers(toAgent[q]) /\ Numbers(toEdge[q])
      /\ received[q] \in Nat /\ left[q] \in Nat /\ credit[q] \in Nat
  BY Tallies
<1>1. /\ handler[q] = "inserted" /\ handler'[q] = "opening"
      /\ entry'[q] = entry[q] /\ outcome'[q] = outcome[q] /\ pump'[q] = pump[q]
      /\ received'[q] = received[q] /\ body'[q] = body[q] /\ toAgent'[q] = toAgent[q]
      /\ toEdge'[q] = toEdge[q] /\ task'[q] = task[q] /\ left'[q] = left[q]
      /\ credit'[q] = credit[q] /\ link' = link
  BY DEF Types, Count, edgeVars, countVars, linkVars, netVars, agentVars
<1>. QED
  BY <1>0, <1>1, SizesAssumption
     DEF RequestOK, Unopened, Unserved, Ordered, Undropped, Produced, Paid, Ends, Numbers,
         Grows

\* Open is queued; the response side starts.
LEMMA OwnOpenSent ==
    ASSUME Types, NEW q \in Requests, RequestOK(q), OpenSent(q)
    PROVE  RequestOK(q)'
<1>0. /\ Numbers(body[q]) /\ Numbers(toAgent[q]) /\ Numbers(toEdge[q])
      /\ received[q] \in Nat /\ left[q] \in Nat /\ credit[q] \in Nat
  BY Tallies
<1>1. PICK p \in {"data", "end"} : pump' = [pump EXCEPT ![q] = p]
  BY DEF OpenSent
<1>2. /\ Numbers(toAgent'[q])
      /\ toAgent'[q] = toAgent[q] \/ Grows(toAgent[q], toAgent'[q], "open")
  BY ToAgent DEF OpenSent, EdgeFrames
<1>3. /\ handler[q] = "opening" /\ handler'[q] = "waiting" /\ pump'[q] # "failed"
      /\ entry'[q] = entry[q] /\ outcome'[q] = outcome[q] /\ received'[q] = received[q]
      /\ body'[q] = body[q] /\ toEdge'[q] = toEdge[q] /\ task'[q] = task[q]
      /\ left'[q] = left[q] /\ credit'[q] = credit[q] /\ link' = link
  BY <1>1 DEF Types, OpenSent, edgeVars, countVars, linkVars, netVars, agentVars
<1>. QED
  BY <1>0, <1>2, <1>3, SizesAssumption
     DEF RequestOK, Unopened, Unserved, Ordered, Undropped, Produced, Paid, Ends, Numbers,
         Grows

\* Open cannot be queued because the session is gone: the request ends with an error.
LEMMA OwnOpenFailed ==
    ASSUME Types, NEW q \in Requests, RequestOK(q), OpenFailed(q)
    PROVE  RequestOK(q)'
<1>0. /\ Numbers(body[q]) /\ Numbers(toAgent[q]) /\ Numbers(toEdge[q])
      /\ received[q] \in Nat /\ left[q] \in Nat /\ credit[q] \in Nat
  BY Tallies
<1>1. /\ handler'[q] = "over" /\ outcome'[q] = "404"
      /\ pump'[q] = pump[q] /\ received'[q] = received[q] /\ body'[q] = body[q]
      /\ toAgent'[q] = toAgent[q] /\ toEdge'[q] = toEdge[q] /\ task'[q] = task[q]
      /\ left'[q] = left[q] /\ credit'[q] = credit[q] /\ link' = link
  BY DEF Types, OpenFailed, Finish, CloseStream, edgeVars, countVars, linkVars, netVars, agentVars
<1>. QED
  BY <1>0, <1>1, SizesAssumption
     DEF RequestOK, Unopened, Unserved, Ordered, Undropped, Produced, Paid, Ends, Numbers,
         Grows

\* The head is there: the answer begins.
LEMMA OwnHeadArrived ==
    ASSUME Types, NEW q \in Requests, RequestOK(q), HeadArrived(q)
    PROVE  RequestOK(q)'
<1>0. /\ Numbers(body[q]) /\ Numbers(toAgent[q]) /\ Numbers(toEdge[q])
      /\ received[q] \in Nat /\ left[q] \in Nat /\ credit[q] \in Nat
  BY Tallies
<1>1. /\ handler[q] = "waiting" /\ handler'[q] = "answering"
      /\ outcome'[q] = outcome[q] /\ entry'[q] = entry[q] /\ pump'[q] = pump[q]
      /\ received'[q] = received[q] /\ body'[q] = body[q] /\ toAgent'[q] = toAgent[q]
      /\ toEdge'[q] = toEdge[q] /\ task'[q] = task[q] /\ left'[q] = left[q]
      /\ credit'[q] = credit[q] /\ link' = link
  BY DEF Types, HeadArrived, edgeVars, countVars, linkVars, netVars, agentVars
<1>. QED
  BY <1>0, <1>1, SizesAssumption
     DEF RequestOK, Unopened, Unserved, Ordered, Undropped, Produced, Paid, Ends, Numbers,
         Grows

\* The head channel was dropped: 502.
LEMMA OwnHeadDropped ==
    ASSUME Types, NEW q \in Requests, RequestOK(q), HeadDropped(q)
    PROVE  RequestOK(q)'
<1>0. /\ Numbers(body[q]) /\ Numbers(toAgent[q]) /\ Numbers(toEdge[q])
      /\ received[q] \in Nat /\ left[q] \in Nat /\ credit[q] \in Nat
  BY Tallies
<1>1. /\ handler'[q] = "over" /\ outcome'[q] = "502"
      /\ pump'[q] = pump[q] /\ received'[q] = received[q] /\ body'[q] = body[q]
      /\ toAgent'[q] = toAgent[q] /\ toEdge'[q] = toEdge[q] /\ task'[q] = task[q]
      /\ left'[q] = left[q] /\ credit'[q] = credit[q] /\ link' = link
  BY DEF Types, HeadDropped, Finish, CloseStream, edgeVars, countVars, linkVars, netVars, agentVars
<1>. QED
  BY <1>0, <1>1, SizesAssumption
     DEF RequestOK, Unopened, Unserved, Ordered, Undropped, Produced, Paid, Ends, Numbers,
         Grows

\* No head in time: 504, and the stream is reset.
LEMMA OwnHeadTimeout ==
    ASSUME Types, NEW q \in Requests, RequestOK(q), HeadTimeout(q)
    PROVE  RequestOK(q)'
<1>0. /\ Numbers(body[q]) /\ Numbers(toAgent[q]) /\ Numbers(toEdge[q])
      /\ received[q] \in Nat /\ left[q] \in Nat /\ credit[q] \in Nat
  BY Tallies
<1>1. /\ handler'[q] = "over" /\ outcome'[q] = "504"
      /\ pump'[q] = pump[q] /\ received'[q] = received[q] /\ body'[q] = body[q]
      /\ toEdge'[q] = toEdge[q] /\ task'[q] = task[q] /\ left'[q] = left[q]
      /\ credit'[q] = credit[q] /\ link' = link
  BY DEF Types, HeadTimeout, Finish, CloseStream, SendToAgent, edgeVars, countVars, linkVars, netVars,
         agentVars
<1>2. /\ Tally(toAgent'[q], "open") = Tally(toAgent[q], "open")
      /\ Tally(toAgent'[q], "credit") = Tally(toAgent[q], "credit")
  BY PlainFrame DEF Plain, HeadTimeout
<1>. QED
  BY <1>0, <1>1, <1>2, SizesAssumption
     DEF RequestOK, Unopened, Unserved, Ordered, Undropped, Produced, Paid, Ends, Numbers,
         Grows

\* The visitor leaves before the head.
LEMMA OwnHangUpEarly ==
    ASSUME Types, NEW q \in Requests, RequestOK(q), HangUpEarly(q)
    PROVE  RequestOK(q)'
<1>0. /\ Numbers(body[q]) /\ Numbers(toAgent[q]) /\ Numbers(toEdge[q])
      /\ received[q] \in Nat /\ left[q] \in Nat /\ credit[q] \in Nat
  BY Tallies
<1>1. /\ handler'[q] = "over" /\ outcome'[q] = "gone"
      /\ pump'[q] = pump[q] /\ received'[q] = received[q] /\ body'[q] = body[q]
      /\ toAgent'[q] = toAgent[q] /\ toEdge'[q] = toEdge[q] /\ task'[q] = task[q]
      /\ left'[q] = left[q] /\ credit'[q] = credit[q] /\ link' = link
  BY DEF Types, HangUpEarly, Finish, edgeVars, countVars, linkVars, netVars, agentVars
<1>. QED
  BY <1>0, <1>1, SizesAssumption
     DEF RequestOK, Unopened, Unserved, Ordered, Undropped, Produced, Paid, Ends, Numbers,
         Grows

\* The body channel ran dry or closed: the response ends as it did.
LEMMA OwnBodyRunsOut ==
    ASSUME Types, NEW q \in Requests, RequestOK(q), BodyRunsOut(q)
    PROVE  RequestOK(q)'
<1>0. /\ Numbers(body[q]) /\ Numbers(toAgent[q]) /\ Numbers(toEdge[q])
      /\ received[q] \in Nat /\ left[q] \in Nat /\ credit[q] \in Nat
  BY Tallies
<1>1. /\ handler[q] = "answering" /\ Empty(body[q]) /\ ~entry[q] /\ handler'[q] = "over"
      /\ pump'[q] = pump[q] /\ received'[q] = received[q] /\ body'[q] = body[q]
      /\ toEdge'[q] = toEdge[q] /\ task'[q] = task[q] /\ left'[q] = left[q]
      /\ credit'[q] = credit[q] /\ link' = link
  BY DEF Types, BodyRunsOut, Empty, Finish, CloseStream, SendToAgent, DropBody,
         TrySendToAgent, edgeVars, countVars, linkVars, netVars, agentVars
<1>2. /\ Tally(toAgent'[q], "open") = Tally(toAgent[q], "open")
      /\ Tally(toAgent'[q], "credit") = Tally(toAgent[q], "credit")
  BY PlainFrame DEF Plain, BodyRunsOut, DropBody, TrySendToAgent
<1>. QED
  BY <1>0, <1>1, <1>2, SizesAssumption
     DEF RequestOK, Unopened, Unserved, Ordered, Undropped, Produced, Paid, Ends, Numbers,
         Grows

\* The visitor leaves during the body.
LEMMA OwnHangUpLate ==
    ASSUME Types, NEW q \in Requests, RequestOK(q), HangUpLate(q)
    PROVE  RequestOK(q)'
<1>0. /\ Numbers(body[q]) /\ Numbers(toAgent[q]) /\ Numbers(toEdge[q])
      /\ received[q] \in Nat /\ left[q] \in Nat /\ credit[q] \in Nat
  BY Tallies
<1>1. /\ handler'[q] = "over" /\ outcome'[q] = "hung up"
      /\ pump'[q] = pump[q] /\ received'[q] = received[q] /\ body'[q] = body[q]
      /\ toEdge'[q] = toEdge[q] /\ task'[q] = task[q] /\ left'[q] = left[q]
      /\ credit'[q] = credit[q] /\ link' = link
  BY DEF Types, HangUpLate, Finish, CloseStream, SendToAgent, DropBody, TrySendToAgent,
         edgeVars, countVars, linkVars, netVars, agentVars
<1>2. /\ Tally(toAgent'[q], "open") = Tally(toAgent[q], "open")
      /\ Tally(toAgent'[q], "credit") = Tally(toAgent[q], "credit")
  BY PlainFrame DEF Plain, HangUpLate, DropBody, TrySendToAgent
<1>. QED
  BY <1>0, <1>1, <1>2, SizesAssumption
     DEF RequestOK, Unopened, Unserved, Ordered, Undropped, Produced, Paid, Ends, Numbers,
         Grows

\* The pump queues a piece of the upload.
LEMMA OwnPumpData ==
    ASSUME Types, NEW q \in Requests, RequestOK(q), PumpData(q)
    PROVE  RequestOK(q)'
<1>0. /\ Numbers(body[q]) /\ Numbers(toAgent[q]) /\ Numbers(toEdge[q])
      /\ received[q] \in Nat /\ left[q] \in Nat /\ credit[q] \in Nat
  BY Tallies
<1>1. /\ pump[q] \notin {"none", "failed"}
      /\ handler'[q] = handler[q] /\ outcome'[q] = outcome[q] /\ entry'[q] = entry[q]
      /\ received'[q] = received[q] /\ body'[q] = body[q] /\ toEdge'[q] = toEdge[q]
      /\ task'[q] = task[q] /\ left'[q] = left[q] /\ credit'[q] = credit[q] /\ link' = link
  BY DEF Types, PumpData, SendToAgent, edgeVars, countVars, linkVars, netVars, agentVars
<1>2. /\ Tally(toAgent'[q], "open") = Tally(toAgent[q], "open")
      /\ Tally(toAgent'[q], "credit") = Tally(toAgent[q], "credit")
  BY PlainFrame DEF Plain, PumpData
<1>. QED
  BY <1>0, <1>1, <1>2, SizesAssumption
     DEF RequestOK, Unopened, Unserved, Ordered, Undropped, Produced, Paid, Ends, Numbers,
         Grows

\* The pump queues the end of the upload.
LEMMA OwnPumpEnd ==
    ASSUME Types, NEW q \in Requests, RequestOK(q), PumpEnd(q)
    PROVE  RequestOK(q)'
<1>0. /\ Numbers(body[q]) /\ Numbers(toAgent[q]) /\ Numbers(toEdge[q])
      /\ received[q] \in Nat /\ left[q] \in Nat /\ credit[q] \in Nat
  BY Tallies
<1>1. /\ pump[q] \notin {"none", "failed"}
      /\ handler'[q] = handler[q] /\ outcome'[q] = outcome[q] /\ entry'[q] = entry[q]
      /\ received'[q] = received[q] /\ body'[q] = body[q] /\ toEdge'[q] = toEdge[q]
      /\ task'[q] = task[q] /\ left'[q] = left[q] /\ credit'[q] = credit[q] /\ link' = link
  BY DEF Types, PumpEnd, SendToAgent, edgeVars, countVars, linkVars, netVars, agentVars
<1>2. /\ Tally(toAgent'[q], "open") = Tally(toAgent[q], "open")
      /\ Tally(toAgent'[q], "credit") = Tally(toAgent[q], "credit")
  BY PlainFrame DEF Plain, PumpEnd
<1>. QED
  BY <1>0, <1>1, <1>2, SizesAssumption
     DEF RequestOK, Unopened, Unserved, Ordered, Undropped, Produced, Paid, Ends, Numbers,
         Grows

\* The upload breaks: a reset is queued and the stream closed.
LEMMA OwnPumpFail ==
    ASSUME Types, NEW q \in Requests, RequestOK(q), PumpFail(q)
    PROVE  RequestOK(q)'
<1>0. /\ Numbers(body[q]) /\ Numbers(toAgent[q]) /\ Numbers(toEdge[q])
      /\ received[q] \in Nat /\ left[q] \in Nat /\ credit[q] \in Nat
  BY Tallies
<1>1. /\ pump[q] \notin {"none", "failed"} /\ pump'[q] = "failed"
      /\ handler'[q] = handler[q] /\ outcome'[q] = outcome[q]
      /\ received'[q] = received[q] /\ body'[q] = body[q] /\ toEdge'[q] = toEdge[q]
      /\ task'[q] = task[q] /\ left'[q] = left[q] /\ credit'[q] = credit[q] /\ link' = link
  BY DEF Types, PumpFail, CloseStream, SendToAgent, edgeVars, countVars, linkVars, netVars, agentVars
<1>2. /\ Tally(toAgent'[q], "open") = Tally(toAgent[q], "open")
      /\ Tally(toAgent'[q], "credit") = Tally(toAgent[q], "credit")
  BY PlainFrame DEF Plain, PumpFail
<1>. QED
  BY <1>0, <1>1, <1>2, SizesAssumption
     DEF RequestOK, Unopened, Unserved, Ordered, Undropped, Produced, Paid, Ends, Numbers,
         Grows

\* The credit semaphore is closed: the agent's task gives up.
LEMMA OwnSendAborted ==
    ASSUME Types, NEW q \in Requests, RequestOK(q), SendAborted(q)
    PROVE  RequestOK(q)'
<1>0. /\ Numbers(body[q]) /\ Numbers(toAgent[q]) /\ Numbers(toEdge[q])
      /\ received[q] \in Nat /\ left[q] \in Nat /\ credit[q] \in Nat
  BY Tallies
<1>1. /\ task[q] = "body" /\ task'[q] = "done"
      /\ handler'[q] = handler[q] /\ outcome'[q] = outcome[q] /\ entry'[q] = entry[q]
      /\ pump'[q] = pump[q] /\ received'[q] = received[q] /\ body'[q] = body[q]
      /\ toAgent'[q] = toAgent[q] /\ toEdge'[q] = toEdge[q] /\ left'[q] = left[q]
      /\ credit'[q] = credit[q] /\ link' = link
  BY DEF Types, SendAborted, EndTask, DropStream, edgeVars, countVars, linkVars, netVars, agentVars
<1>. QED
  BY <1>0, <1>1, SizesAssumption
     DEF RequestOK, Unopened, Unserved, Ordered, Undropped, Produced, Paid, Ends, Numbers,
         Grows

\* close_all takes the stream out.
LEMMA OwnCloseDoomed ==
    ASSUME Types, NEW q \in Requests, RequestOK(q), CloseDoomed(q)
    PROVE  RequestOK(q)'
<1>0. /\ Numbers(body[q]) /\ Numbers(toAgent[q]) /\ Numbers(toEdge[q])
      /\ received[q] \in Nat /\ left[q] \in Nat /\ credit[q] \in Nat
  BY Tallies
<1>1. /\ link = "closing" /\ ~entry'[q]
      /\ handler'[q] = handler[q] /\ outcome'[q] = outcome[q] /\ pump'[q] = pump[q]
      /\ received'[q] = received[q] /\ body'[q] = body[q] /\ toAgent'[q] = toAgent[q]
      /\ toEdge'[q] = toEdge[q] /\ task'[q] = task[q] /\ left'[q] = left[q]
      /\ credit'[q] = credit[q] /\ link' = link
  BY DEF Types, CloseDoomed, CloseStream, edgeVars, countVars, linkVars, netVars, agentVars
<1>. QED
  BY <1>0, <1>1, SizesAssumption
     DEF RequestOK, Unopened, Unserved, Ordered, Undropped, Produced, Paid, Ends, Numbers,
         Grows

\* The counter goes down: nothing else of the request changes but its head channel.
LEMMA OwnCountDown ==
    ASSUME NEW q \in Requests, RequestOK(q), CountDown(q)
    PROVE  RequestOK(q)'
<1>1. Same(q) /\ link' = link
  BY DEF CountDown, Same, linkVars, netVars, agentVars
<1>. QED
  BY <1>1, SameOK

\* A frame reaches the visitor: data is counted, End finishes the response and Reset
\* breaks it off.
LEMMA OwnDeliver ==
    ASSUME Types, NEW q \in Requests, RequestOK(q), Deliver(q)
    PROVE  RequestOK(q)'
<1>0. /\ Numbers(body[q]) /\ Numbers(toAgent[q]) /\ Numbers(toEdge[q])
      /\ received[q] \in Nat /\ left[q] \in Nat /\ credit[q] \in Nat
  BY Tallies
<1>1. body[q] \in Seq(Plain) /\ body[q] # <<>> /\ body'[q] = Tail(body[q])
  BY DEF Types, Plain, Deliver
<1>2. EndsLast(body[q])
  BY DEF RequestOK, Ordered
<1>3. PICK f : /\ f = Head(body[q])
               /\ EndsLast(body'[q]) /\ Grows(body'[q], body[q], f) /\ Numbers(body'[q])
               /\ ~Empty(body[q]) /\ f \in Plain
               /\ f \in {"end", "reset"} => Empty(body'[q])
  BY <1>1, <1>2, Taken
<1>4. /\ handler[q] = "answering" /\ pump'[q] = pump[q] /\ toEdge'[q] = toEdge[q]
      /\ task'[q] = task[q] /\ left'[q] = left[q] /\ credit'[q] = credit[q] /\ link' = link
  BY DEF Types, Deliver, edgeVars, countVars, linkVars, netVars, agentVars
<1>5. \/ /\ f = "data" /\ received'[q] = received[q] + 1
         /\ handler'[q] = handler[q] /\ outcome'[q] = outcome[q] /\ entry'[q] = entry[q]
         /\ toAgent'[q] = toAgent[q]
      \/ /\ f \in {"end", "reset"} /\ received'[q] = received[q] /\ handler'[q] = "over"
         /\ f = "reset" => outcome'[q] = "aborted"
         /\ SendToAgent(q, "reset") \/ UNCHANGED toAgent
  BY <1>3 DEF Types, Deliver, DropBody, TrySendToAgent, Finish
<1>6. CASE f = "data"
  BY <1>0, <1>3, <1>4, <1>5, <1>6, SizesAssumption
     DEF RequestOK, Unopened, Unserved, Ordered, Undropped, Produced, Paid, Ends, Numbers,
         Grows
<1>7. CASE f \in {"end", "reset"}
  <2>1. /\ Tally(toAgent'[q], "open") = Tally(toAgent[q], "open")
        /\ Tally(toAgent'[q], "credit") = Tally(toAgent[q], "credit")
    BY <1>5, <1>7, PlainFrame DEF Plain
  <2>. QED
    BY <1>0, <1>3, <1>4, <1>5, <1>7, <2>1, SizesAssumption
       DEF RequestOK, Unopened, Unserved, Ordered, Undropped, Produced, Paid, Ends, Numbers,
           Grows
<1>. QED
  BY <1>3, <1>6, <1>7 DEF Plain

\* The edge's read loop handles a frame of the agent.
LEMMA OwnFromAgent ==
    ASSUME Types, NEW q \in Requests, RequestOK(q), FromAgent(q)
    PROVE  RequestOK(q)'
<1>0. /\ Numbers(body[q]) /\ Numbers(toAgent[q]) /\ Numbers(toEdge[q])
      /\ received[q] \in Nat /\ left[q] \in Nat /\ credit[q] \in Nat
  BY Tallies
<1>1. toEdge[q] \in Seq(AgentFrames) /\ toEdge[q] # <<>> /\ toEdge'[q] = Tail(toEdge[q])
  BY DEF Types, FromAgent
<1>2. EndsLast(toEdge[q])
  BY DEF RequestOK, Ordered
<1>3. PICK f : /\ f = Head(toEdge[q])
               /\ EndsLast(toEdge'[q]) /\ Grows(toEdge'[q], toEdge[q], f)
               /\ Numbers(toEdge'[q])
               /\ ~Empty(toEdge[q]) /\ f \in AgentFrames
               /\ f \in {"end", "reset"} => Empty(toEdge'[q])
  BY <1>1, <1>2, Taken
<1>4. /\ handler'[q] = handler[q] /\ outcome'[q] = outcome[q] /\ pump'[q] = pump[q]
      /\ received'[q] = received[q] /\ task'[q] = task[q] /\ left'[q] = left[q]
      /\ credit'[q] = credit[q] /\ link' = link
  BY DEF Types, FromAgent, edgeVars, countVars, linkVars, netVars, agentVars
<1>5. \/ f = "head" /\ OnHead(q)
      \/ f = "data" /\ OnData(q)
      \/ f \in {"end", "reset"} /\ OnLast(q, f)
  BY <1>3 DEF FromAgent
<1>6. task[q] # "none" /\ Ends(body[q]) = 0
  BY <1>0, <1>3 DEF RequestOK, Unserved, Ordered, Numbers, Ends
<1>h. handler[q] \in HandlerSteps /\ body[q] \in Seq(Plain)
  BY DEF Types, Plain
<1>7. CASE f = "head" /\ OnHead(q)
  <2>1. entry'[q] = entry[q] /\ body'[q] = body[q] /\ toAgent'[q] = toAgent[q]
    BY <1>7 DEF OnHead
  <2>. QED
    BY <1>0, <1>3, <1>4, <1>6, <1>7, <2>1, SizesAssumption
       DEF RequestOK, Unopened, Unserved, Ordered, Undropped, Produced, Paid, Ends, Numbers,
           Grows
<1>8. CASE f = "data" /\ OnData(q)
  <2>1. CASE entry[q] /\ BodyHeld(q)
    <3>1. /\ body'[q] = Append(body[q], "data") /\ entry'[q] = entry[q]
          /\ SendToAgent(q, "credit")
      BY <1>8, <2>1 DEF Types, OnData
    <3>2. EndsLast(body'[q]) /\ Numbers(body'[q]) /\ Grows(body[q], body'[q], "data")
      BY <1>6, <1>h, <3>1, Appended DEF Plain
    <3>3. /\ Numbers(toAgent'[q])
          /\ toAgent'[q] = toAgent[q] \/ Grows(toAgent[q], toAgent'[q], "credit")
      BY <3>1, ToAgent DEF EdgeFrames
    <3>4. handler[q] \in {"waiting", "answering"} /\ entry'[q]
      BY <2>1, <3>1 DEF BodyHeld
    <3>. QED
      BY <1>0, <1>3, <1>4, <1>6, <1>8, <3>2, <3>3, <3>4, SizesAssumption
         DEF RequestOK, Unopened, Unserved, Ordered, Undropped, Produced, Paid, Ends,
             Numbers, Grows
  <2>2. CASE entry[q] /\ ~BodyHeld(q)
    <3>1. ~entry'[q] /\ body'[q] = body[q] /\ toAgent'[q] = toAgent[q]
      BY <1>8, <2>2 DEF Types, OnData, CloseStream
    <3>2. handler[q] = "over"
      BY <1>0, <1>h, <1>6, <2>2 DEF BodyHeld, HandlerSteps, RequestOK, Unopened
    <3>. QED
      BY <1>0, <1>3, <1>4, <1>6, <1>8, <3>1, <3>2, SizesAssumption
         DEF RequestOK, Unopened, Unserved, Ordered, Undropped, Produced, Paid, Ends,
             Numbers, Grows
  <2>3. CASE ~entry[q]
    <3>1. entry'[q] = entry[q] /\ body'[q] = body[q] /\ toAgent'[q] = toAgent[q]
      BY <1>8, <2>3 DEF OnData
    <3>2. handler[q] \in {"waiting", "answering", "over"}
      BY <1>h, <1>6 DEF HandlerSteps, RequestOK, Unopened
    <3>. QED
      BY <1>0, <1>3, <1>4, <1>6, <1>8, <2>3, <3>1, <3>2, SizesAssumption
         DEF RequestOK, Unopened, Unserved, Ordered, Undropped, Produced, Paid, Ends,
             Numbers, Grows
  <2>. QED
    BY <2>1, <2>2, <2>3
<1>9. CASE f \in {"end", "reset"} /\ OnLast(q, f)
  <2>1. ~entry'[q] /\ toAgent'[q] = toAgent[q] /\ f \in Plain
        /\ body'[q] = IF entry[q] /\ BodyHeld(q) THEN Append(body[q], f) ELSE body[q]
    BY <1>9 DEF Types, OnLast, CloseStream, Plain
  <2>2. task[q] = "done" /\ (f = "end" => left[q] = 0) /\ Empty(toEdge'[q])
    BY <1>0, <1>3, <1>9 DEF RequestOK, Ordered, Numbers, Grows, Ends
  <2>3. CASE entry[q] /\ BodyHeld(q)
    <3>1. EndsLast(body'[q]) /\ Numbers(body'[q]) /\ Grows(body[q], body'[q], f)
      BY <1>6, <1>h, <2>1, <2>3, Appended
    <3>2. handler[q] \in {"waiting", "answering"}
      BY <2>3 DEF BodyHeld
    <3>. QED
      BY <1>0, <1>3, <1>4, <1>6, <1>9, <2>1, <2>2, <3>1, <3>2, SizesAssumption
         DEF RequestOK, Unopened, Unserved, Ordered, Undropped, Produced, Paid, Ends,
             Numbers, Grows
  <2>4. CASE ~(entry[q] /\ BodyHeld(q))
    <3>1. body'[q] = body[q]
      BY <2>1, <2>4
    <3>2. handler[q] = "over" \/ (~entry[q] /\ handler[q] \in {"waiting", "answering"})
      BY <1>h, <1>6, <2>4 DEF BodyHeld, HandlerSteps, RequestOK, Unopened
    <3>. QED
      BY <1>0, <1>3, <1>4, <1>6, <1>9, <2>1, <2>2, <3>1, <3>2, SizesAssumption
         DEF RequestOK, Unopened, Unserved, Ordered, Undropped, Produced, Paid, Ends,
             Numbers, Grows
  <2>. QED
    BY <2>3, <2>4
<1>. QED
  BY <1>5, <1>7, <1>8, <1>9

\* The agent's read loop handles a frame of the edge.
LEMMA OwnFromEdge ==
    ASSUME Types, NEW q \in Requests, RequestOK(q), FromEdge(q)
    PROVE  RequestOK(q)'
<1>0. /\ Numbers(body[q]) /\ Numbers(toAgent[q]) /\ Numbers(toEdge[q])
      /\ received[q] \in Nat /\ left[q] \in Nat /\ credit[q] \in Nat
  BY Tallies
<1>1. toAgent[q] \in Seq(EdgeFrames) /\ toAgent[q] # <<>> /\ toAgent'[q] = Tail(toAgent[q])
  BY DEF Types, FromEdge
<1>2. PICK f : /\ f = Head(toAgent[q]) /\ f \in EdgeFrames
               /\ Grows(toAgent'[q], toAgent[q], f) /\ Numbers(toAgent'[q])
               /\ ~Empty(toAgent[q])
  BY <1>1, Taken
<1>3. /\ handler'[q] = handler[q] /\ outcome'[q] = outcome[q] /\ pump'[q] = pump[q]
      /\ entry'[q] = entry[q] /\ received'[q] = received[q] /\ body'[q] = body[q]
      /\ toEdge'[q] = toEdge[q] /\ left'[q] = left[q] /\ link' = link
  BY DEF Types, FromEdge, edgeVars, countVars, linkVars, netVars, agentVars
<1>4. \/ f = "open" /\ task'[q] = "serving" /\ credit'[q] = Window
      \/ f = "credit" /\ task'[q] = task[q] /\ credit'[q] \in {credit[q], credit[q] + 1}
      \/ f \in Plain /\ task'[q] = task[q] /\ credit'[q] = credit[q]
  BY <1>2
     DEF Types, FromEdge, Plain, AgentOpen, AgentData, AgentEnd, AgentReset, AgentCredit
<1>5. CASE f = "open"
  <2>1. task[q] = "none" /\ Tally(toAgent'[q], "open") = 0
    BY <1>0, <1>2, <1>5 DEF RequestOK, Unserved, Numbers, Grows
  <2>2. task'[q] = "serving" /\ credit'[q] = Window
    BY <1>4, <1>5 DEF Plain
  <2>. QED
    BY <1>0, <1>2, <1>3, <1>5, <2>1, <2>2, SizesAssumption
       DEF RequestOK, Unopened, Unserved, Ordered, Undropped, Produced, Paid, Ends, Numbers,
           Grows
<1>6. CASE f = "credit"
  <2>1. task'[q] = task[q] /\ credit'[q] \in {credit[q], credit[q] + 1}
    BY <1>4, <1>6 DEF Plain
  <2>. QED
    BY <1>0, <1>2, <1>3, <1>6, <2>1, SizesAssumption
       DEF RequestOK, Unopened, Unserved, Ordered, Undropped, Produced, Paid, Ends, Numbers,
           Grows
<1>7. CASE f \in Plain
  <2>1. task'[q] = task[q] /\ credit'[q] = credit[q] /\ f # "open" /\ f # "credit"
    BY <1>4, <1>7 DEF Plain
  <2>. QED
    BY <1>0, <1>2, <1>3, <2>1, SizesAssumption
       DEF RequestOK, Unopened, Unserved, Ordered, Undropped, Produced, Paid, Ends, Numbers,
           Grows
<1>. QED
  BY <1>4, <1>5, <1>6, <1>7

\* The local service answers: the head is queued.
LEMMA OwnLocalAnswers ==
    ASSUME Types, NEW q \in Requests, RequestOK(q), LocalAnswers(q)
    PROVE  RequestOK(q)'
<1>0. /\ Numbers(body[q]) /\ Numbers(toAgent[q]) /\ Numbers(toEdge[q])
      /\ received[q] \in Nat /\ left[q] \in Nat /\ credit[q] \in Nat
  BY Tallies
<1>1. task[q] \in {"serving"}
  BY DEF LocalAnswers
<1>2. EndsLast(toEdge[q]) /\ Ends(toEdge[q]) = 0 /\ Ends(body[q]) = 0
  BY <1>0, <1>1 DEF RequestOK, Ordered, Ends, Numbers
<1>3. /\ Numbers(toEdge'[q]) /\ EndsLast(toEdge'[q])
      /\ \/ link # "up" /\ toEdge'[q] = toEdge[q]
         \/ link = "up" /\ Grows(toEdge[q], toEdge'[q], "head") /\ ~Empty(toEdge'[q])
  BY <1>2, ToEdge DEF LocalAnswers, AgentFrames
<1>4. /\ handler'[q] = handler[q] /\ outcome'[q] = outcome[q] /\ pump'[q] = pump[q]
      /\ received'[q] = received[q] /\ entry'[q] = entry[q] /\ body'[q] = body[q]
      /\ toAgent'[q] = toAgent[q] /\ link' = link
      /\ task'[q] \in {"body", "done"} /\ left'[q] = left[q] /\ credit'[q] = credit[q]
  BY DEF Types, LocalAnswers, EndTask, DropStream, edgeVars, countVars, linkVars, netVars, agentVars
<1>. QED
  BY <1>0, <1>1, <1>2, <1>3, <1>4, SizesAssumption
     DEF RequestOK, Unopened, Unserved, Ordered, Undropped, Produced, Paid, Ends, Numbers,
         Grows

\* The agent's task spends credit on a piece of the body.
LEMMA OwnSendBody ==
    ASSUME Types, NEW q \in Requests, RequestOK(q), SendBody(q)
    PROVE  RequestOK(q)'
<1>0. /\ Numbers(body[q]) /\ Numbers(toAgent[q]) /\ Numbers(toEdge[q])
      /\ received[q] \in Nat /\ left[q] \in Nat /\ credit[q] \in Nat
  BY Tallies
<1>1. task[q] \in {"body"}
  BY DEF SendBody
<1>2. EndsLast(toEdge[q]) /\ Ends(toEdge[q]) = 0 /\ Ends(body[q]) = 0
  BY <1>0, <1>1 DEF RequestOK, Ordered, Ends, Numbers
<1>3. /\ Numbers(toEdge'[q]) /\ EndsLast(toEdge'[q])
      /\ \/ link # "up" /\ toEdge'[q] = toEdge[q]
         \/ link = "up" /\ Grows(toEdge[q], toEdge'[q], "data") /\ ~Empty(toEdge'[q])
  BY <1>2, ToEdge DEF SendBody, AgentFrames
<1>4. /\ handler'[q] = handler[q] /\ outcome'[q] = outcome[q] /\ pump'[q] = pump[q]
      /\ received'[q] = received[q] /\ entry'[q] = entry[q] /\ body'[q] = body[q]
      /\ toAgent'[q] = toAgent[q] /\ link' = link
      /\ task'[q] \in {"body", "done"} /\ left[q] > 0 /\ credit[q] > 0
      /\ left'[q] = left[q] - 1 /\ credit'[q] = credit[q] - 1
  BY DEF Types, SendBody, EndTask, DropStream, edgeVars, countVars, linkVars, netVars, agentVars
<1>. QED
  BY <1>0, <1>1, <1>2, <1>3, <1>4, SizesAssumption
     DEF RequestOK, Unopened, Unserved, Ordered, Undropped, Produced, Paid, Ends, Numbers,
         Grows

\* The agent's task ends the body.
LEMMA OwnSendEnd ==
    ASSUME Types, NEW q \in Requests, RequestOK(q), SendEnd(q)
    PROVE  RequestOK(q)'
<1>0. /\ Numbers(body[q]) /\ Numbers(toAgent[q]) /\ Numbers(toEdge[q])
      /\ received[q] \in Nat /\ left[q] \in Nat /\ credit[q] \in Nat
  BY Tallies
<1>1. task[q] \in {"body"}
  BY DEF SendEnd
<1>2. EndsLast(toEdge[q]) /\ Ends(toEdge[q]) = 0 /\ Ends(body[q]) = 0
  BY <1>0, <1>1 DEF RequestOK, Ordered, Ends, Numbers
<1>3. /\ Numbers(toEdge'[q]) /\ EndsLast(toEdge'[q])
      /\ \/ link # "up" /\ toEdge'[q] = toEdge[q]
         \/ link = "up" /\ Grows(toEdge[q], toEdge'[q], "end") /\ ~Empty(toEdge'[q])
  BY <1>2, ToEdge DEF SendEnd, AgentFrames
<1>4. /\ handler'[q] = handler[q] /\ outcome'[q] = outcome[q] /\ pump'[q] = pump[q]
      /\ received'[q] = received[q] /\ entry'[q] = entry[q] /\ body'[q] = body[q]
      /\ toAgent'[q] = toAgent[q] /\ link' = link
      /\ task'[q] = "done" /\ left[q] = 0 /\ left'[q] = left[q] /\ credit'[q] = credit[q]
  BY DEF Types, SendEnd, EndTask, DropStream, edgeVars, countVars, linkVars, netVars, agentVars
<1>. QED
  BY <1>0, <1>1, <1>2, <1>3, <1>4, SizesAssumption
     DEF RequestOK, Unopened, Unserved, Ordered, Undropped, Produced, Paid, Ends, Numbers,
         Grows

\* The local service fails: a reset is queued.
LEMMA OwnLocalFails ==
    ASSUME Types, NEW q \in Requests, RequestOK(q), LocalFails(q)
    PROVE  RequestOK(q)'
<1>0. /\ Numbers(body[q]) /\ Numbers(toAgent[q]) /\ Numbers(toEdge[q])
      /\ received[q] \in Nat /\ left[q] \in Nat /\ credit[q] \in Nat
  BY Tallies
<1>1. task[q] \in {"serving", "body"}
  BY DEF LocalFails
<1>2. EndsLast(toEdge[q]) /\ Ends(toEdge[q]) = 0 /\ Ends(body[q]) = 0
  BY <1>0, <1>1 DEF RequestOK, Ordered, Ends, Numbers
<1>3. /\ Numbers(toEdge'[q]) /\ EndsLast(toEdge'[q])
      /\ \/ link # "up" /\ toEdge'[q] = toEdge[q]
         \/ link = "up" /\ Grows(toEdge[q], toEdge'[q], "reset") /\ ~Empty(toEdge'[q])
  BY <1>2, ToEdge DEF LocalFails, AgentFrames
<1>4. /\ handler'[q] = handler[q] /\ outcome'[q] = outcome[q] /\ pump'[q] = pump[q]
      /\ received'[q] = received[q] /\ entry'[q] = entry[q] /\ body'[q] = body[q]
      /\ toAgent'[q] = toAgent[q] /\ link' = link
      /\ task'[q] = "done" /\ left'[q] = left[q] /\ credit'[q] = credit[q]
  BY DEF Types, LocalFails, EndTask, DropStream, edgeVars, countVars, linkVars, netVars, agentVars
<1>. QED
  BY <1>0, <1>1, <1>2, <1>3, <1>4, SizesAssumption
     DEF RequestOK, Unopened, Unserved, Ordered, Undropped, Produced, Paid, Ends, Numbers,
         Grows

\* Every step for a request keeps that request in order.
LEMMA OwnStep ==
    ASSUME Types, NEW q \in Requests, RequestOK(q), StepOf(q)
    PROVE  RequestOK(q)'
  BY OwnAdmit, OwnInsert, OwnCount, OwnOpenSent, OwnOpenFailed, OwnHeadArrived,
     OwnHeadDropped, OwnHeadTimeout, OwnDeliver, OwnBodyRunsOut, OwnHangUpEarly,
     OwnHangUpLate, OwnPumpData, OwnPumpEnd, OwnPumpFail, OwnFromAgent, OwnFromEdge,
     OwnLocalAnswers, OwnSendBody, OwnSendAborted, OwnSendEnd, OwnLocalFails, OwnCloseDoomed,
     OwnCountDown
     DEF StepOf, Ingress, Pump, ServeStream

-----------------------------------------------------------------------------
(* The counter *)

\* A step that moves no request into or out of the making.
NoneMoved == Inserted' = Inserted /\ Early' = Early /\ Admitted' = Admitted

\* What a step of a request does to the table and its counter.
LEMMA TableStep ==
    ASSUME Types, NEW q \in Requests, StepOf(q)
    PROVE  \/ NoneMoved /\ UNCHANGED <<entry, openStreams, closing, raced>>
           \/ NoneMoved /\ CloseStream(q)
           \/ Admit(q) \/ Insert(q) \/ Count(q) \/ CountDown(q)
<1> USE DEF Types, NoneMoved, Inserted, Early, Admitted, edgeVars, countVars
<1>4. CASE OpenSent(q)
  BY <1>4 DEF OpenSent
<1>5. CASE OpenFailed(q)
  BY <1>5 DEF OpenFailed, Finish
<1>6. CASE HeadArrived(q)
  BY <1>6 DEF HeadArrived
<1>7. CASE HeadDropped(q)
  BY <1>7 DEF HeadDropped, Finish
<1>8. CASE HeadTimeout(q)
  BY <1>8 DEF HeadTimeout, Finish
<1>9. CASE Deliver(q)
  BY <1>9 DEF Deliver, DropBody, Finish
<1>10. CASE BodyRunsOut(q)
  BY <1>10 DEF BodyRunsOut, DropBody, Finish
<1>11. CASE HangUpEarly(q)
  BY <1>11 DEF HangUpEarly, Finish
<1>12. CASE HangUpLate(q)
  BY <1>12 DEF HangUpLate, DropBody, Finish
<1>13. CASE PumpData(q)
  BY <1>13 DEF PumpData
<1>14. CASE PumpEnd(q)
  BY <1>14 DEF PumpEnd
<1>15. CASE PumpFail(q)
  BY <1>15 DEF PumpFail
<1>16. CASE FromAgent(q)
  BY <1>16 DEF FromAgent, OnHead, OnData, OnLast
<1>17. CASE FromEdge(q)
  BY <1>17 DEF FromEdge
<1>18. CASE LocalAnswers(q)
  BY <1>18 DEF LocalAnswers
<1>19. CASE SendBody(q)
  BY <1>19 DEF SendBody
<1>20. CASE SendAborted(q)
  BY <1>20 DEF SendAborted
<1>21. CASE SendEnd(q)
  BY <1>21 DEF SendEnd
<1>22. CASE LocalFails(q)
  BY <1>22 DEF LocalFails
<1>23. CASE CloseDoomed(q)
  BY <1>23 DEF CloseDoomed
<1>. QED
  BY <1>4, <1>5, <1>6, <1>7, <1>8, <1>9, <1>10, <1>11, <1>12, <1>13, <1>14, <1>15,
     <1>16, <1>17, <1>18, <1>19, <1>20, <1>21, <1>22, <1>23
     DEF StepOf, Ingress, Pump, ServeStream

\* The table and the streams not counted yet are smaller than the counter's range.
LEMMA Sizes ==
    ASSUME Types
    PROVE  /\ IsFiniteSet(Inserted) /\ IsFiniteSet(Held) /\ IsFiniteSet(Slots)
           /\ Cardinality(Inserted) \in Nat /\ Cardinality(Inserted) < Wrap
           /\ Cardinality(Held) \in Nat /\ Cardinality(Held) < Wrap
           /\ Cardinality(Slots) \in Nat
           /\ openStreams \in Nat /\ openStreams < Wrap /\ Wrap \in Nat
<1>1. Inserted \subseteq Requests /\ Held \subseteq Requests /\ Slots \subseteq Requests
  BY DEF Inserted, Held, Slots, Admitted, Types
<1>2. /\ IsFiniteSet(Inserted) /\ Cardinality(Inserted) <= Cardinality(Requests)
      /\ IsFiniteSet(Held) /\ Cardinality(Held) <= Cardinality(Requests)
      /\ IsFiniteSet(Slots)
  BY <1>1, WrapAssumption, FS_Subset
<1>3. /\ Cardinality(Inserted) \in Nat /\ Cardinality(Held) \in Nat
      /\ Cardinality(Slots) \in Nat /\ Cardinality(Requests) \in Nat
  BY <1>2, WrapAssumption, FS_CardinalityType
<1>. QED
  BY <1>2, <1>3, WrapAssumption, CounterType

\* One up and one down, around the end of the counter's range.
LEMMA UpAndDown ==
    ASSUME NEW w \in Nat, NEW o \in Nat, o < w
    PROVE  /\ (o + 1) % w = IF o = w - 1 THEN 0 ELSE o + 1
           /\ (o + w - 1) % w = IF o = 0 THEN w - 1 ELSE o - 1
<1>1. \A x \in 0 .. w - 1 : x % w = x
  OBVIOUS
<1>2. \A x \in 0 .. w - 1 : (x + w) % w = x
  OBVIOUS
<1>3. CASE o = w - 1
  <2>1. (0 + w) % w = 0
    BY <1>2
  <2>. QED
    BY <1>1, <1>2, <1>3, <2>1
<1>. QED
  BY <1>1, <1>2, <1>3

\* close_stream takes an entry out of the table and holds it until the counter goes down.
LEMMA HeldOn ==
    ASSUME Types, NEW q \in Requests, CloseStream(q)
    PROVE  Held' = Held
<1>1. CASE entry[q]
  BY <1>1 DEF CloseStream, Held, Types
<1>2. CASE ~entry[q]
  BY <1>2 DEF CloseStream, Held, Types
<1>. QED
  BY <1>1, <1>2

\* What the other steps do to the sets the counter stands for.
LEMMA HeldStep ==
    ASSUME Types, NEW q \in Requests, RequestOK(q), ClosedOnce
    PROVE  /\ Admit(q) => Held' = Held /\ Inserted' = Inserted /\ openStreams' = openStreams
           /\ Insert(q) => /\ q \notin Inserted /\ Inserted' = Inserted \cup {q}
                           /\ q \notin Held /\ Held' = Held \cup {q}
                           /\ openStreams' = openStreams
           /\ Count(q) => /\ q \in Inserted /\ Inserted' = Inserted \ {q} /\ Held' = Held
                          /\ openStreams' = (openStreams + 1) % Wrap
           /\ CountDown(q) => /\ Inserted' = Inserted /\ q \in Held /\ Held' = Held \ {q}
                              /\ openStreams' = (openStreams + Wrap - 1) % Wrap
<1> USE DEF Types, Inserted, Held, countVars
<1>1. ASSUME Admit(q)
      PROVE  Held' = Held /\ Inserted' = Inserted /\ openStreams' = openStreams
  BY <1>1 DEF Admit, Finish
<1>2. ASSUME Insert(q)
      PROVE  /\ q \notin Inserted /\ Inserted' = Inserted \cup {q}
             /\ q \notin Held /\ Held' = Held \cup {q} /\ openStreams' = openStreams
  <2>1. q \notin closing /\ ~entry[q]
    BY <1>2 DEF Insert, ClosedOnce, Early, RequestOK, Unopened
  <2>. QED
    BY <1>2, <2>1 DEF Insert
<1>3. ASSUME Count(q)
      PROVE  /\ q \in Inserted /\ Inserted' = Inserted \ {q} /\ Held' = Held
             /\ openStreams' = (openStreams + 1) % Wrap
  BY <1>3 DEF Count
<1>4. ASSUME CountDown(q)
      PROVE  /\ Inserted' = Inserted /\ q \in Held /\ Held' = Held \ {q}
             /\ openStreams' = (openStreams + Wrap - 1) % Wrap
  <2>1. ~entry[q]
    BY <1>4 DEF CountDown, ClosedOnce
  <2>. QED
    BY <1>4, <2>1 DEF CountDown
<1>. QED
  BY <1>1, <1>2, <1>3, <1>4

\* Every step keeps counter and table together: a stream is counted exactly between
\* its Count and its CountDown.
LEMMA CountedStep ==
    ASSUME Types, NEW q \in Requests, RequestOK(q), StepOf(q), Counted, ClosedOnce
    PROVE  Counted'
<1>0. /\ IsFiniteSet(Inserted) /\ IsFiniteSet(Held)
      /\ Cardinality(Inserted) \in Nat /\ Cardinality(Inserted) < Wrap
      /\ Cardinality(Held) \in Nat /\ Cardinality(Held) < Wrap
      /\ openStreams \in Nat /\ openStreams < Wrap /\ Wrap \in Nat
  BY Sizes
<1>1. CASE NoneMoved /\ UNCHANGED <<entry, openStreams, closing, raced>>
  BY <1>1 DEF Counted, Held, NoneMoved
<1>2. CASE NoneMoved /\ CloseStream(q)
  <2>1. Held' = Held /\ openStreams' = openStreams
    BY <1>2, HeldOn, Closes
  <2>. QED
    BY <1>2, <2>1 DEF Counted, NoneMoved
<1>3. CASE Admit(q)
  <2>1. Held' = Held /\ Inserted' = Inserted /\ openStreams' = openStreams
    BY <1>3, HeldStep
  <2>. QED
    BY <2>1 DEF Counted
<1>4. CASE Insert(q)
  <2>1. /\ q \notin Inserted /\ Inserted' = Inserted \cup {q}
        /\ q \notin Held /\ Held' = Held \cup {q} /\ openStreams' = openStreams
    BY <1>4, HeldStep
  <2>2. /\ Cardinality(Inserted') = Cardinality(Inserted) + 1
        /\ Cardinality(Held') = Cardinality(Held) + 1
    BY <1>0, <2>1, FS_AddElement
  <2>. QED
    BY <1>0, <2>1, <2>2 DEF Counted
<1>5. CASE Count(q)
  <2>1. /\ q \in Inserted /\ Inserted' = Inserted \ {q} /\ Held' = Held
        /\ openStreams' = (openStreams + 1) % Wrap
    BY <1>5, HeldStep
  <2>2. Cardinality(Inserted') = Cardinality(Inserted) - 1
    BY <1>0, <2>1, FS_RemoveElement
  <2>3. openStreams' = IF openStreams = Wrap - 1 THEN 0 ELSE openStreams + 1
    BY <1>0, <2>1, UpAndDown
  <2>4. Cardinality(Inserted) # 0
    BY <1>0, <2>1, FS_EmptySet
  <2>. QED
    BY <1>0, <2>1, <2>2, <2>3, <2>4 DEF Counted
<1>6. CASE CountDown(q)
  <2>1. /\ Inserted' = Inserted /\ q \in Held /\ Held' = Held \ {q}
        /\ openStreams' = (openStreams + Wrap - 1) % Wrap
    BY <1>6, HeldStep
  <2>2. Cardinality(Held') = Cardinality(Held) - 1
    BY <1>0, <2>1, FS_RemoveElement
  <2>3. openStreams' = IF openStreams = 0 THEN Wrap - 1 ELSE openStreams - 1
    BY <1>0, <2>1, UpAndDown
  <2>4. Cardinality(Held) # 0
    BY <1>0, <2>1, FS_EmptySet
  <2>. QED
    BY <1>0, <2>1, <2>2, <2>3, <2>4 DEF Counted
<1>. QED
  BY <1>1, <1>2, <1>3, <1>4, <1>5, <1>6, TableStep

\* A stream is closed once: no step puts a stream that is being closed back.
LEMMA ClosedOnceStep ==
    ASSUME Types, NEW q \in Requests, RequestOK(q), StepOf(q), ClosedOnce
    PROVE  ClosedOnce'
<1> USE DEF Types, ClosedOnce, countVars
<1>1. CASE NoneMoved /\ UNCHANGED <<entry, openStreams, closing, raced>>
  BY <1>1 DEF NoneMoved
<1>2. CASE NoneMoved /\ CloseStream(q)
  <2>1. entry[q] => q \notin Early
    BY DEF Early, RequestOK, Unopened
  <2>. QED
    BY <1>2, <2>1 DEF NoneMoved, CloseStream
<1>3. CASE Admit(q)
  BY <1>3 DEF Admit, Finish, Early
<1>4. CASE Insert(q)
  BY <1>4 DEF Insert, Early
<1>5. CASE Count(q)
  BY <1>5 DEF Count, Early
<1>6. CASE CountDown(q)
  BY <1>6 DEF CountDown, Early
<1>. QED
  BY <1>1, <1>2, <1>3, <1>4, <1>5, <1>6, TableStep

\* A request that passes the limit test while no other is between its own test and its
\* count finds the counter equal to the table, and a slot free.
LEMMA SlotFound ==
    ASSUME Types, NEW q \in Requests, Counted, SlotsKept, Admit(q)
    PROVE  SlotsKept'
<1>0. /\ IsFiniteSet(Held) /\ IsFiniteSet(Slots) /\ Cardinality(Slots) \in Nat
      /\ Cardinality(Held) \in Nat /\ Cardinality(Held) < Wrap
      /\ openStreams \in Nat /\ openStreams < Wrap /\ Wrap \in Nat
  BY Sizes
<1>1. Held' = Held
  BY DEF Admit, Held
<1>2. CASE handler'[q] = "over" \/ Between # {}
  <2>1. Slots' \subseteq Slots
    BY <1>1, <1>2 DEF Admit, Finish, Slots, Admitted, Types
  <2>. QED
    BY <1>0, <2>1, FS_Subset, FS_CardinalityType, SizesAssumption DEF SlotsKept
<1>3. CASE handler'[q] # "over" /\ Between = {}
  <2>1. ~(Limit > 0 /\ openStreams >= Limit)
    BY <1>3 DEF Admit, Finish, Types
  <2>2. Admitted = {} /\ Inserted = {}
    BY <1>3 DEF Between, Admitted, Inserted
  <2>3. openStreams = Cardinality(Held)
    BY <1>0, <2>2, FS_EmptySet DEF Counted
  <2>4. Admitted' \subseteq {q}
    BY <2>2 DEF Admit, Finish, Admitted, Types
  <2>5. Slots' \subseteq Held \cup {q}
    BY <1>1, <2>4 DEF Slots
  <2>6. /\ IsFiniteSet(Held \cup {q})
        /\ Cardinality(Held \cup {q}) = Cardinality(Held)
              \/ Cardinality(Held \cup {q}) = Cardinality(Held) + 1
    BY <1>0, FS_AddElement
  <2>7. Cardinality(Slots') <= Cardinality(Held \cup {q}) /\ IsFiniteSet(Slots')
    BY <2>5, <2>6, FS_Subset
  <2>8. Cardinality(Slots') \in Nat
    BY <2>7, FS_CardinalityType
  <2>. QED
    BY <1>0, <2>1, <2>3, <2>6, <2>7, <2>8, SizesAssumption DEF SlotsKept
<1>. QED
  BY <1>2, <1>3

\* Every step keeps the streams that did not race within the limit.
LEMMA SlotsStep ==
    ASSUME Types, NEW q \in Requests, RequestOK(q), StepOf(q), Counted, ClosedOnce, SlotsKept
    PROVE  SlotsKept'
<1>1. CASE Admit(q)
  BY <1>1, SlotFound
<1>2. CASE ~Admit(q)
  <2>1. Slots' \subseteq Slots
    <3>1. CASE NoneMoved /\ UNCHANGED <<entry, openStreams, closing, raced>>
      BY <3>1 DEF NoneMoved, Slots, Held
    <3>2. CASE NoneMoved /\ CloseStream(q)
      BY <3>2, HeldOn, Closes DEF NoneMoved, Slots
    <3>3. CASE Insert(q)
      <4>1. Held' = Held \cup {q} /\ q \in Admitted /\ raced' = raced
        BY <3>3, HeldStep DEF Insert, Admitted, countVars
      <4>2. Admitted' \subseteq Admitted
        BY <3>3 DEF Insert, Admitted, Types
      <4>. QED
        BY <4>1, <4>2 DEF Slots
    <3>4. CASE Count(q)
      <4>1. Held' = Held /\ raced' = raced
        BY <3>4, HeldStep DEF Count
      <4>2. Admitted' \subseteq Admitted
        BY <3>4 DEF Count, Admitted, Types
      <4>. QED
        BY <4>1, <4>2 DEF Slots
    <3>5. CASE CountDown(q)
      <4>1. Held' \subseteq Held /\ raced' = raced /\ handler' = handler
        BY <3>5, HeldStep DEF CountDown
      <4>. QED
        BY <4>1 DEF Slots, Admitted
    <3>. QED
      BY <1>2, <3>1, <3>2, <3>3, <3>4, <3>5, TableStep
  <2>2. IsFiniteSet(Slots) /\ Cardinality(Slots) \in Nat
    BY Sizes
  <2>. QED
    BY <2>1, <2>2, FS_Subset, FS_CardinalityType, SizesAssumption DEF SlotsKept
<1>. QED
  BY <1>1, <1>2

-----------------------------------------------------------------------------
(* The inductive invariant *)

\* The steps of the connection as a whole.
LEMMA LinkStep ==
    ASSUME IndInv, ConnectionLost \/ Teardown \/ Closed
    PROVE  IndInv'
<1> USE DEF edgeVars, countVars, netVars, agentVars
<1>1. Types'
  <2>1. CASE ConnectionLost
    BY <2>1 DEF IndInv, Types, ConnectionLost, Links
  <2>2. CASE Teardown
    BY <2>2 DEF IndInv, Types, Teardown, Links
  <2>3. CASE Closed
    BY <2>3 DEF IndInv, Types, Closed, Links
  <2>. QED
    BY <2>1, <2>2, <2>3
<1>2. Counted' /\ ClosedOnce' /\ SlotsKept'
  <2>1. UNCHANGED <<handler, entry, countVars>>
    BY DEF ConnectionLost, Teardown, Closed
  <2>. QED
    BY <2>1 DEF IndInv, Counted, ClosedOnce, SlotsKept, Inserted, Held, Early, Slots, Admitted,
       countVars
<1>3. ASSUME NEW q \in Requests PROVE RequestOK(q)'
  <2>1. /\ Numbers(body[q]) /\ Numbers(toAgent[q]) /\ Numbers(toEdge[q])
        /\ received[q] \in Nat /\ left[q] \in Nat /\ credit[q] \in Nat
    BY Tallies DEF IndInv
  <2>2. RequestOK(q) /\ UNCHANGED edgeVars /\ UNCHANGED agentVars
    BY DEF IndInv, RequestsOK, ConnectionLost, Teardown, Closed
  <2>3. Empty(<<>>) /\ Numbers(<<>>) /\ EndsLast(<<>>)
    BY TallyEmpty DEF Empty, Numbers, EndsLast
  <2>4. CASE ConnectionLost
    <3>1. toAgent'[q] = <<>> /\ toEdge' = toEdge /\ link = "up" /\ link' = "down"
      BY <2>4 DEF ConnectionLost
    <3>2. Empty(toAgent'[q]) /\ Numbers(toAgent'[q])
      BY <2>3, <3>1
    <3>3. toEdge' = toEdge /\ link = "up" /\ link' = "down"
      BY <3>1
    <3>. QED
      BY <2>1, <2>2, <3>2, <3>3, SizesAssumption
      DEF RequestOK, Unopened, Unserved, Ordered, Undropped, Produced, Paid, Ends, Numbers
  <2>5. CASE Teardown
    <3>1. toEdge'[q] = <<>> /\ toAgent' = toAgent /\ link' = "closing"
      BY <2>5 DEF Teardown
    <3>2. Empty(toEdge'[q]) /\ Numbers(toEdge'[q]) /\ EndsLast(toEdge'[q])
      BY <2>3, <3>1
    <3>3. toAgent' = toAgent /\ link' = "closing"
      BY <3>1
    <3>. QED
      BY <2>1, <2>2, <3>2, <3>3, SizesAssumption
      DEF RequestOK, Unopened, Unserved, Ordered, Undropped, Produced, Paid, Ends, Numbers
  <2>6. CASE Closed
    <3>1. toAgent' = toAgent /\ toEdge' = toEdge /\ link' = "closed"
      BY <2>6 DEF Closed
    <3>. QED
      BY <2>2, <3>1
      DEF RequestOK, Unopened, Unserved, Ordered, Undropped, Produced, Paid, Ends
  <2>. QED
    BY <2>4, <2>5, <2>6
<1>. QED
  BY <1>1, <1>2, <1>3 DEF IndInv, RequestsOK

\* Before the first request everything is in order.
LEMMA InitOK == Init => IndInv
<1> SUFFICES ASSUME Init PROVE IndInv
  OBVIOUS
<1>1. Types
  <2>1. 0 \in 0 .. Wrap - 1
    BY WrapPositive
  <2>. QED
    BY <2>1, SizesAssumption
       DEF Init, Types, HandlerSteps, PumpSteps, TaskSteps, Outcomes, Links
<1>2. Counted /\ ClosedOnce /\ SlotsKept
  <2>1. Inserted = {} /\ Held = {} /\ Slots = {} /\ openStreams = 0 /\ closing = {}
    BY DEF Init, Inserted, Held, Slots, Admitted
  <2>. QED
    BY <2>1, FS_EmptySet, SizesAssumption DEF Counted, ClosedOnce, SlotsKept
<1>3. ASSUME NEW q \in Requests PROVE RequestOK(q)
  <2>1. Empty(<<>>) /\ Numbers(<<>>) /\ EndsLast(<<>>)
    BY TallyEmpty DEF Empty, Numbers, EndsLast
  <2>2. body[q] = <<>> /\ toAgent[q] = <<>> /\ toEdge[q] = <<>>
    BY DEF Init
  <2>3. /\ Empty(body[q]) /\ Numbers(body[q]) /\ EndsLast(body[q])
        /\ Empty(toAgent[q]) /\ Numbers(toAgent[q])
        /\ Empty(toEdge[q]) /\ Numbers(toEdge[q]) /\ EndsLast(toEdge[q])
    BY <2>1, <2>2
  <2>4. /\ handler[q] = "idle" /\ pump[q] = "none" /\ outcome[q] = "none" /\ ~entry[q]
        /\ task[q] = "none" /\ left[q] = Body /\ received[q] = 0 /\ credit[q] = 0
    BY DEF Init
  <2>. QED
    BY <2>3, <2>4, SizesAssumption
    DEF RequestOK, Unopened, Unserved, Ordered, Undropped, Produced, Paid, Ends, Numbers
<1>. QED
  BY <1>1, <1>2, <1>3 DEF IndInv, RequestsOK

\* Every step of requests, agent and connection keeps IndInv.
LEMMA StepOK == IndInv /\ [Next]_vars => IndInv'
<1> SUFFICES ASSUME IndInv, [Next]_vars PROVE IndInv'
  OBVIOUS
<1>1. ASSUME NEW q \in Requests, StepOf(q) PROVE IndInv'
  <2>0. /\ Types /\ Counted /\ ClosedOnce /\ SlotsKept
        /\ \A r \in Requests : RequestOK(r)
    BY DEF IndInv, RequestsOK
  <2>1. Types'
    BY <1>1, <2>0, TypesStep
  <2>2. Counted' /\ ClosedOnce' /\ SlotsKept'
    BY <1>1, <2>0, CountedStep, ClosedOnceStep, SlotsStep
  <2>3. ASSUME NEW r \in Requests PROVE RequestOK(r)'
    <3>1. CASE r = q
      BY <1>1, <2>0, <3>1, OwnStep
    <3>2. CASE r # q
      BY <1>1, <2>0, <3>2, OthersSame, SameOK
    <3>. QED
      BY <3>1, <3>2
  <2>. QED
    BY <2>1, <2>2, <2>3 DEF IndInv, RequestsOK
<1>2. CASE UNCHANGED vars
  BY <1>2
     DEF vars, edgeVars, countVars, linkVars, netVars, agentVars, IndInv, Types, Counted, Inserted,
         Held, ClosedOnce, Early, SlotsKept, Slots, Admitted,
     RequestsOK, RequestOK, Unopened, Unserved, Ordered, Undropped, Produced, Paid
<1>. QED
  BY <1>1, <1>2, LinkStep DEF Next, StepOf

\* IndInv holds at all times: the types, the order of every request's frames and the
\* agreement of counter and table (SessionStreams, agent read loop).
THEOREM Invariance == Spec => []IndInv
  BY InitOK, StepOK, PTL DEF Spec

-----------------------------------------------------------------------------
(* What follows from it *)

\* Every variable keeps its type and its bound, however many streams a session
\* carries: open_streams stays a number of its width, a client never receives more
\* frames than the response has, and the send_credit of serve_stream never holds
\* more permits than the initial window, so a grant is never paid twice.
THEOREM TypeCorrect == Spec => []TypeOK
<1>1. IndInv => TypeOK
  <2> SUFFICES ASSUME IndInv PROVE TypeOK
    OBVIOUS
  <2>1. Types
    BY DEF IndInv
  <2>2. ASSUME NEW q \in Requests
        PROVE  received[q] \in 0 .. Body /\ left[q] \in 0 .. Body /\ credit[q] \in 0 .. Window
    <3>1. /\ Numbers(body[q]) /\ Numbers(toAgent[q]) /\ Numbers(toEdge[q])
          /\ received[q] \in Nat /\ left[q] \in Nat /\ credit[q] \in Nat
      BY <2>1, Tallies
    <3>2. Produced(q) <= Body /\ Paid(q) <= Window
      BY DEF IndInv, RequestsOK, RequestOK
    <3>. QED
      BY <3>1, <3>2, SizesAssumption DEF Produced, Paid, Numbers
  <2>3. /\ received \in [Requests -> 0 .. Body] /\ left \in [Requests -> 0 .. Body]
        /\ credit \in [Requests -> 0 .. Window]
    BY <2>1, <2>2 DEF Types
  <2>. QED
    BY <2>1, <2>3 DEF Types, TypeOK
<1>. QED
  BY <1>1, Invariance, PTL

\* Session::close_stream and open_http_stream keep open_streams in step with the
\* table for any number of concurrent requests: but for the streams inserted and not
\* yet counted, and those removed and not yet counted down, the wrapping counter is
\* the number of entries, whichever of the ingress task, the pump, the guard, the read
\* loop and close_all_streams closed the others, and however often each was closed.
THEOREM CounterAgrees == Spec => []StreamsCounted
<1>1. IndInv => StreamsCounted
  <2> SUFFICES ASSUME IndInv PROVE StreamsCounted
    OBVIOUS
  <2>1. /\ Cardinality(Inserted) \in Nat
        /\ Cardinality(Held) \in Nat /\ Cardinality(Held) < Wrap
        /\ openStreams \in Nat /\ openStreams < Wrap /\ Wrap \in Nat
    BY Sizes DEF IndInv
  <2>2. \A x \in 0 .. Wrap - 1 : x % Wrap = x /\ (x + Wrap) % Wrap = x
    BY <2>1
  <2>3. (openStreams + Cardinality(Inserted)) % Wrap = Cardinality(Held)
    BY <2>1, <2>2 DEF IndInv, Counted
  <2>. QED
    BY <2>3 DEF StreamsCounted, Inserted
<1>. QED
  BY <1>1, Invariance, PTL

\* The limit test of open_http_stream and the count after it let a session exceed its
\* limit by one race only: for any limit and any number of requests, all streams held
\* beyond the limit are of requests that passed the test while another was between its
\* test and its count, whatever close_stream does between removal and fetch_sub.
THEOREM LimitIsHeld == Spec => []LimitHeld
<1>1. IndInv => LimitHeld
  <2> SUFFICES ASSUME IndInv, Limit > 0 PROVE Cardinality(Held \ raced) <= Limit
    BY DEF LimitHeld
  <2>1. IsFiniteSet(Slots) /\ Cardinality(Slots) \in Nat /\ Cardinality(Slots) <= Limit
    BY Sizes DEF IndInv, SlotsKept
  <2>2. Held \ raced \subseteq Slots
    BY DEF Slots
  <2>3. /\ Cardinality(Held \ raced) <= Cardinality(Slots)
        /\ Cardinality(Held \ raced) \in Nat
    BY <2>1, <2>2, FS_Subset, FS_CardinalityType
  <2>. QED
    BY <2>1, <2>3, SizesAssumption
<1>. QED
  BY <1>1, Invariance, PTL

\* No response is cut short unnoticed while the connection holds: whatever the
\* interleaving of timeout, reset, hang-up, late frames and the guard, and for
\* bodies and windows of any length, a body the public client takes for complete is.
THEOREM ResponseComplete == Spec => []ResponseIntact
<1>1. IndInv => ResponseIntact
  BY DEF IndInv, RequestsOK, RequestOK, Undropped, ResponseIntact
<1>. QED
  BY <1>1, Invariance, PTL

-----------------------------------------------------------------------------
(* StreamMux implements ResponsePipe. *)

\* The handler's last step gives the client its verdict.
LEMMA PipeFinish ==
    ASSUME Types, NEW q \in Requests, NEW o, Finish(q, o),
           UNCHANGED <<pump, received, left, link>>
    PROVE  Pipe!Becomes(q, Verdict(o))
<1>1. /\ handler \in [Requests -> HandlerSteps] /\ outcome \in [Requests -> Outcomes]
  BY DEF Types
<1>2. \A r \in Requests : Seen(r)' = IF r = q THEN Verdict(o) ELSE Seen(r)
  BY <1>1 DEF Finish, Seen
<1> QED
  BY <1>2 DEF Pipe!Becomes

\* A step of the handler that the client does not see.
LEMMA PipeHidden ==
    ASSUME Types, NEW q \in Requests, NEW h \in HandlerSteps,
           handler' = [handler EXCEPT ![q] = h],
           handler[q] \notin {"answering", "over"}, h \notin {"answering", "over"},
           outcome' = outcome,
           \A r \in Requests : pump'[r] = "failed" <=> pump[r] = "failed",
           UNCHANGED <<received, left, link>>
    PROVE  UNCHANGED Pipe!pipeVars
<1>1. handler \in [Requests -> HandlerSteps]
  BY DEF Types
<1>2. \A r \in Requests : Seen(r)' = Seen(r)
  BY <1>1 DEF Seen
<1> QED
  BY <1>2 DEF Pipe!pipeVars

\* A step elsewhere.
LEMMA PipeElsewhere ==
    ASSUME UNCHANGED <<handler, outcome, received, left>>,
           \A r \in Requests : (link' = "up" /\ pump'[r] # "failed")
                               <=> (link = "up" /\ pump[r] # "failed")
    PROVE  UNCHANGED Pipe!pipeVars
<1>1. \A r \in Requests : Seen(r)' = Seen(r)
  BY DEF Seen
<1> QED
  BY <1>1 DEF Pipe!pipeVars

\* Every step for a request is a step of the pipe or leaves it alone.
LEMMA PipeStep ==
    ASSUME IndInv, IndInv', NEW q \in Requests, StepOf(q)
    PROVE  Pipe!PipeNext \/ UNCHANGED Pipe!pipeVars
<1> DEFINE OfClient == Pipe!Refuse(q) \/ Pipe!Answer(q) \/ Pipe!Produce(q) \/ Pipe!Receive(q)
                       \/ Pipe!Complete(q) \/ Pipe!Cut(q) \/ Pipe!Leave(q)
<1> SUFFICES \/ OfClient
             \/ \E Q \in SUBSET Requests : Pipe!Break(Q)
             \/ UNCHANGED Pipe!pipeVars
  BY DEF Pipe!PipeNext
<1> USE DEF edgeVars, countVars, linkVars, netVars, agentVars
<1>1. Types
  BY DEF IndInv
<1>2. ASSUME NEW o \in {"404", "502", "503", "504"}, Finish(q, o),
             handler[q] \notin {"answering", "over"}, UNCHANGED <<pump, received, left, link>>
      PROVE  Pipe!Refuse(q)
  <2>1. Verdict(o) = "refused" /\ Seen(q) = "asked"
    BY <1>2 DEF Verdict, Seen
  <2>2. Pipe!Becomes(q, Verdict(o))
    BY <1>1, <1>2, PipeFinish
  <2> QED
    BY <2>1, <2>2 DEF Pipe!Refuse
<1>3. ASSUME NEW o \in {"hung up", "gone"}, Finish(q, o),
             handler[q] # "over", UNCHANGED <<pump, received, left, link>>
      PROVE  Pipe!Leave(q)
  <2>1. Verdict(o) = "left" /\ Seen(q) \in {"asked", "answering"}
    BY <1>3 DEF Verdict, Seen
  <2>2. Pipe!Becomes(q, Verdict(o))
    BY <1>1, <1>3, PipeFinish
  <2> QED
    BY <2>1, <2>2 DEF Pipe!Leave
<1>4. ASSUME Finish(q, "finished"), handler[q] = "answering",
             UNCHANGED <<pump, received, left, link>>
      PROVE  Pipe!Complete(q)
  <2>1. Verdict("finished") = "complete" /\ Seen(q) = "answering"
    BY <1>4 DEF Verdict, Seen
  <2>2. Pipe!Becomes(q, Verdict("finished"))
    BY <1>1, <1>4, PipeFinish
  <2>3. outcome'[q] = "finished"
    BY <1>1, <1>4 DEF Finish, Types
  <2>4. link = "up" /\ pump[q] # "failed" => received[q] = Body
    BY <1>4, <2>3 DEF IndInv, RequestsOK, RequestOK, Undropped
  <2> QED
    BY <2>1, <2>2, <2>4 DEF Pipe!Complete
<1>5. ASSUME Finish(q, "aborted"), handler[q] = "answering",
             UNCHANGED <<pump, received, left, link>>
      PROVE  Pipe!Cut(q)
  <2>1. Verdict("aborted") = "cut" /\ Seen(q) = "answering"
    BY <1>5 DEF Verdict, Seen
  <2>2. Pipe!Becomes(q, Verdict("aborted"))
    BY <1>1, <1>5, PipeFinish
  <2> QED
    BY <2>1, <2>2 DEF Pipe!Cut
<1>6. CASE Admit(q)
  <2>1. handler[q] = "idle" /\ UNCHANGED <<pump, received, left, link>>
    BY <1>6 DEF Admit
  <2>2. Finish(q, "503") \/ (handler' = [handler EXCEPT ![q] = "admitted"] /\ outcome' = outcome)
    BY <1>6 DEF Admit
  <2>3. CASE Finish(q, "503")
    BY <1>2, <2>1, <2>3
  <2>4. CASE handler' = [handler EXCEPT ![q] = "admitted"] /\ outcome' = outcome
    BY <1>1, <2>1, <2>4, PipeHidden DEF HandlerSteps
  <2> QED
    BY <2>2, <2>3, <2>4
<1>7. CASE Insert(q)
  BY <1>1, <1>7, PipeHidden DEF Insert, HandlerSteps
<1>8. CASE Count(q)
  BY <1>1, <1>8, PipeHidden DEF Count, HandlerSteps
<1>9. CASE OpenSent(q)
  <2>1. handler[q] = "opening" /\ handler' = [handler EXCEPT ![q] = "waiting"]
    BY <1>9 DEF OpenSent
  <2>2. outcome' = outcome /\ UNCHANGED <<received, left, link>>
    BY <1>9 DEF OpenSent
  <2>3. pump[q] = "none"
    BY <2>1 DEF IndInv, RequestsOK, RequestOK, Unopened
  <2>4. \A r \in Requests : pump'[r] = "failed" <=> pump[r] = "failed"
    <3>1. PICK p \in {"data", "end"} : pump' = [pump EXCEPT ![q] = p]
      BY <1>9 DEF OpenSent
    <3> QED
      BY <1>1, <2>3, <3>1 DEF Types
  <2> QED
    BY <1>1, <2>1, <2>2, <2>4, PipeHidden DEF HandlerSteps
<1>10. CASE OpenFailed(q)
  BY <1>2, <1>10 DEF OpenFailed
<1>11. CASE HeadArrived(q)
  <2>1. handler[q] = "waiting" /\ handler' = [handler EXCEPT ![q] = "answering"]
    BY <1>11 DEF HeadArrived
  <2>2. UNCHANGED <<outcome, pump, received, left, link>>
    BY <1>11 DEF HeadArrived
  <2>3. \A r \in Requests : Seen(r)' = IF r = q THEN "answering" ELSE Seen(r)
    BY <1>1, <2>1, <2>2 DEF Seen, Types
  <2>4. Seen(q) = "asked"
    BY <2>1 DEF Seen
  <2> QED
    BY <2>2, <2>3, <2>4 DEF Pipe!Answer, Pipe!Becomes
<1>12. CASE HeadDropped(q)
  BY <1>2, <1>12 DEF HeadDropped
<1>13. CASE HeadTimeout(q)
  BY <1>2, <1>13 DEF HeadTimeout
<1>14. CASE HangUpEarly(q)
  BY <1>3, <1>14 DEF HangUpEarly
<1>15. CASE Deliver(q)
  <2>1. handler[q] = "answering" /\ UNCHANGED <<pump, left, link>>
    BY <1>15 DEF Deliver
  <2>2. CASE Head(body[q]) = "data"
    <3>1. received' = [received EXCEPT ![q] = @ + 1] /\ UNCHANGED <<handler, outcome>>
      BY <1>15, <2>2 DEF Deliver
    <3>2. received[q] < Body - left[q]
      <4>1. body[q] \in Seq({"data", "end", "reset"}) /\ body[q] # <<>>
        BY <1>1, <1>15 DEF Types, Deliver
      <4>2. /\ Tally(body[q], "data") = Tally(Tail(body[q]), "data") + 1
            /\ Tail(body[q]) \in Seq({"data", "end", "reset"})
        BY <2>2, <4>1, Queue
      <4>3. Tally(Tail(body[q]), "data") \in Nat
        BY <4>2, Queue
      <4>4. toEdge[q] \in Seq(AgentFrames) /\ received[q] \in Nat /\ left[q] \in Nat
        BY <1>1 DEF Types
      <4>5. Tally(toEdge[q], "data") \in Nat
        BY <4>4, Queue
      <4>6. received[q] + Tally(body[q], "data") + Tally(toEdge[q], "data") + left[q] <= Body
        BY DEF IndInv, RequestsOK, RequestOK, Produced
      <4>7. Body \in Nat
        BY SizesAssumption
      <4> QED
        BY <4>2, <4>3, <4>4, <4>5, <4>6, <4>7
    <3>3. Seen(q) = "answering" /\ \A r \in Requests : Seen(r)' = Seen(r)
      BY <2>1, <3>1 DEF Seen
    <3> QED
      BY <2>1, <3>1, <3>2, <3>3 DEF Pipe!Receive
  <2>3. CASE Head(body[q]) = "end"
    BY <1>4, <1>15, <2>1, <2>3 DEF Deliver, DropBody
  <2>4. CASE Head(body[q]) = "reset"
    BY <1>5, <1>15, <2>1, <2>4 DEF Deliver, DropBody
  <2> QED
    BY <1>15, <2>2, <2>3, <2>4 DEF Deliver
<1>16. CASE BodyRunsOut(q)
  BY <1>4, <1>16 DEF BodyRunsOut, DropBody
<1>17. CASE HangUpLate(q)
  BY <1>3, <1>17 DEF HangUpLate, DropBody
<1>18. CASE PumpFail(q)
  <2>1. UNCHANGED <<handler, outcome, received, left, link>>
    BY <1>18 DEF PumpFail
  <2>2. pump' = [pump EXCEPT ![q] = "failed"] /\ pump \in [Requests -> PumpSteps]
    BY <1>1, <1>18 DEF PumpFail, Types
  <2>3. \A r \in Requests : Seen(r)' = Seen(r)
    BY <2>1 DEF Seen
  <2>4. Pipe!Break({q})
    BY <2>1, <2>2, <2>3 DEF Pipe!Break
  <2> QED
    BY <2>4
<1>19. CASE SendBody(q)
  <2>1. UNCHANGED <<handler, outcome, received, pump, link>>
    BY <1>19 DEF SendBody
  <2>2. left[q] > 0 /\ left' = [left EXCEPT ![q] = @ - 1] /\ left \in [Requests -> Nat]
    BY <1>1, <1>19 DEF SendBody, Types
  <2>3. \A r \in Requests : Seen(r)' = Seen(r)
    BY <2>1 DEF Seen
  <2>4. Body \in Nat
    BY SizesAssumption
  <2>5. \A r \in Requests : Body - left'[r] = IF r = q THEN Body - left[r] + 1 ELSE Body - left[r]
    BY <2>2, <2>4
  <2>6. Body - left[q] < Body
    BY <2>2, <2>4
  <2>7. Pipe!Produce(q)
    BY <2>1, <2>3, <2>5, <2>6 DEF Pipe!Produce
  <2> QED
    BY <2>7
<1>20. CASE PumpData(q) \/ PumpEnd(q)
  <2>1. UNCHANGED <<handler, outcome, received, left, link>>
    BY <1>20 DEF PumpData, PumpEnd
  <2>2. \A r \in Requests : pump'[r] = "failed" <=> pump[r] = "failed"
    BY <1>1, <1>20 DEF PumpData, PumpEnd, Types
  <2> QED
    BY <2>1, <2>2, PipeElsewhere
<1>21. CASE FromAgent(q) \/ FromEdge(q) \/ CloseDoomed(q) \/ CountDown(q) \/ LocalFails(q)
            \/ LocalAnswers(q) \/ SendAborted(q) \/ SendEnd(q)
  <2>1. UNCHANGED <<handler, outcome, received, left, pump, link>>
    BY <1>21
       DEF FromAgent, FromEdge, CloseDoomed, CountDown, LocalFails, LocalAnswers, SendAborted,
           SendEnd
  <2> QED
    BY <2>1, PipeElsewhere
<1> QED
  BY <1>6, <1>7, <1>8, <1>9, <1>10, <1>11, <1>12, <1>13, <1>14, <1>15, <1>16, <1>17, <1>18,
     <1>19, <1>20, <1>21 DEF StepOf, Ingress, Pump, ServeStream

\* The steps of the connection can break it for all requests, and do nothing else to them.
LEMMA PipeLink ==
    ASSUME IndInv, ConnectionLost \/ Teardown \/ Closed
    PROVE  Pipe!PipeNext \/ UNCHANGED Pipe!pipeVars
<1> USE DEF edgeVars, countVars, linkVars, netVars, agentVars
<1>1. CASE ConnectionLost
  <2>1. UNCHANGED <<handler, outcome, received, left, pump>> /\ link' = "down"
    BY <1>1 DEF ConnectionLost
  <2>2. \A r \in Requests : Seen(r)' = Seen(r)
    BY <2>1 DEF Seen
  <2>3. Pipe!Break(Requests)
    BY <2>1, <2>2 DEF Pipe!Break
  <2> QED
    BY <2>3 DEF Pipe!PipeNext
<1>2. CASE Teardown \/ Closed
  <2>1. UNCHANGED <<handler, outcome, received, left, pump>> /\ link # "up" /\ link' # "up"
    BY <1>2 DEF Teardown, Closed
  <2> QED
    BY <2>1, PipeElsewhere
<1> QED
  BY <1>1, <1>2

\* For any number of requests, and bodies and windows of any length, what a tunnel does
\* to a request is what ResponsePipe promises: an error page or the response from its
\* beginning, and no clean end before its end while the request is intact.
THEOREM PipeRefined == Spec => ImplementsPipe
<1>1. Init => Pipe!PipeInit
  <2> SUFFICES ASSUME Init PROVE Pipe!PipeInit
    OBVIOUS
  <2>1. Body \in Nat
    BY SizesAssumption
  <2>2. \A r \in Requests : Seen(r) = "asked" /\ Body - left[r] = 0
    BY <2>1 DEF Init, Seen
  <2> QED
    BY <2>2 DEF Init, Pipe!PipeInit
<1>2. ASSUME IndInv, IndInv', Next PROVE Pipe!PipeNext \/ UNCHANGED Pipe!pipeVars
  <2>1. (\E q \in Requests : StepOf(q)) \/ ConnectionLost \/ Teardown \/ Closed
    BY <1>2 DEF Next, StepOf
  <2> QED
    BY <1>2, <2>1, PipeStep, PipeLink
<1>3. UNCHANGED vars => UNCHANGED Pipe!pipeVars
  <2> SUFFICES ASSUME UNCHANGED vars PROVE UNCHANGED Pipe!pipeVars
    OBVIOUS
  <2>1. UNCHANGED <<handler, outcome, received, left, pump, link>>
    BY DEF vars, edgeVars, countVars, linkVars, netVars, agentVars
  <2> QED
    BY <2>1, PipeElsewhere
<1> QED
  BY <1>1, <1>2, <1>3, Invariance, PTL DEF Spec, ImplementsPipe, Pipe!PipeSpec
-----------------------------------------------------------------------------
(* No response waits for nothing. *)

\* The head of a response, and a local request that gave up on its body, come with
\* the response.
Headed(q) ==
    /\ handler[q] = "answering" => head[q] = "sent"
    /\ head[q] = "sent" \/ At(toEdge[q], "head") # {} \/ ~reading[q] =>
          task[q] \in {"body", "done"}

\* While the edge waits for a response whose upload is being read, the agent is not
\* told to stop, its task keeps the stream with all of its credit, and if it is over,
\* its last frame is on the way.
Alive(q) ==
    link = "up" /\ entry[q] /\ handler[q] \in {"waiting", "answering"} /\ reading[q] =>
        /\ Tally(toAgent[q], "reset") = 0
        /\ task[q] \in {"serving", "body"} => agentHas[q] /\ Paid(q) = Window
        /\ task[q] = "done" => Ends(toEdge[q]) > 0

Going(q) == Headed(q) /\ Alive(q)
MoveInv == IndInv /\ \A q \in Requests : Going(q)

\* The steps of a request on the edge but for the frames it reads.
EdgeStep(q) ==
    \/ Ingress(q) \/ HangUpEarly(q) \/ HangUpLate(q) \/ Pump(q) \/ PumpFail(q)
    \/ CloseDoomed(q) \/ CountDown(q)

\* They neither send a head nor take one away.
LEMMA HeadKept ==
    ASSUME Types, NEW q \in Requests, EdgeStep(q)
    PROVE  /\ head'[q] = "sent" <=> head[q] = "sent"
           /\ toEdge' = toEdge /\ reading' = reading /\ task' = task
           /\ handler'[q] = "answering" => handler[q] = "answering" \/ head[q] = "sent"
<1> USE DEF Types, edgeVars, countVars, linkVars, netVars, agentVars
<1>1. CASE Admit(q) \/ Insert(q) \/ Count(q) \/ OpenSent(q) \/ HeadArrived(q) \/ HangUpEarly(q)
           \/ PumpData(q) \/ PumpEnd(q)
  BY <1>1 DEF Admit, Insert, Count, OpenSent, HeadArrived, HangUpEarly, PumpData, PumpEnd, Finish
<1>2. CASE OpenFailed(q) \/ HeadDropped(q) \/ HeadTimeout(q)
  BY <1>2 DEF OpenFailed, HeadDropped, HeadTimeout, CloseStream, Finish
<1>3. CASE BodyRunsOut(q) \/ HangUpLate(q) \/ Deliver(q)
  BY <1>3 DEF BodyRunsOut, HangUpLate, Deliver, DropBody, CloseStream, Finish
<1>4. CASE PumpFail(q) \/ CloseDoomed(q)
  BY <1>4 DEF PumpFail, CloseDoomed, CloseStream
<1>5. CASE CountDown(q)
  BY <1>5 DEF CountDown
<1> QED
  BY <1>1, <1>2, <1>3, <1>4, <1>5 DEF EdgeStep, Ingress, Pump

\* A frame that is still in a queue after its first is taken was in it before.
LEMMA HeadsTaken ==
    ASSUME NEW S, NEW s \in Seq(S), s # <<>>, NEW f, At(Tail(s), f) # {} \/ Head(s) = f
    PROVE  At(s, f) # {}
<1>1. Len(s) \in Nat \ {0} /\ Len(Tail(s)) = Len(s) - 1 /\ Head(s) = s[1]
  OBVIOUS
<1>2. \A i \in 1 .. Len(s) - 1 : Tail(s)[i] = s[i + 1]
  OBVIOUS
<1>3. CASE Head(s) = f
  <2>1. 1 \in At(s, f)
    BY <1>1, <1>3 DEF At
  <2> QED
    BY <2>1
<1>4. CASE At(Tail(s), f) # {}
  <2>1. PICK i \in 1 .. Len(s) - 1 : Tail(s)[i] = f
    BY <1>1, <1>4 DEF At
  <2>2. i + 1 \in 1 .. Len(s) /\ s[i + 1] = f
    BY <1>1, <1>2, <2>1
  <2>3. i + 1 \in At(s, f)
    BY <2>2 DEF At
  <2> QED
    BY <2>3
<1> QED
  BY <1>3, <1>4

\* No step of a request has a head without its response.
LEMMA HeadedStep ==
    ASSUME Types, NEW q \in Requests, RequestOK(q), Headed(q), StepOf(q)
    PROVE  Headed(q)'
<1> USE DEF edgeVars, countVars, linkVars, netVars, agentVars
<1>1. CASE EdgeStep(q)
  BY <1>1, HeadKept DEF Headed
<1>2. CASE FromAgent(q)
  <2>1. toEdge[q] \in Seq(AgentFrames) /\ toEdge[q] # <<>> /\ toEdge'[q] = Tail(toEdge[q])
    BY <1>2 DEF Types, FromAgent
  <2>2. UNCHANGED <<handler, reading, task>>
    BY <1>2 DEF FromAgent
  <2>3. \/ head'[q] = head[q]
        \/ head'[q] # "sent" /\ head[q] # "sent"
        \/ head'[q] = "sent" /\ Head(toEdge[q]) = "head"
    BY <1>2 DEF Types, FromAgent, OnHead, OnData, OnLast, CloseStream
  <2>4. At(toEdge'[q], "head") # {} \/ Head(toEdge[q]) = "head" => At(toEdge[q], "head") # {}
    BY <2>1, HeadsTaken
  <2> QED
    BY <2>2, <2>3, <2>4 DEF Headed
<1>3. CASE FromEdge(q)
  <2>1. UNCHANGED <<handler, head, toEdge>>
    BY <1>3 DEF FromEdge
  <2>2. toAgent[q] \in Seq(EdgeFrames) /\ toAgent[q] # <<>>
    BY <1>3 DEF Types, FromEdge
  <2>3. reading' = reading /\ (task'[q] = task[q] \/ Head(toAgent[q]) = "open")
    BY <1>3
       DEF Types, FromEdge, AgentOpen, AgentData, AgentEnd, AgentReset, AgentCredit
  <2>4. Head(toAgent[q]) = "open" => task[q] = "none"
    <3>1. Numbers(Tail(toAgent[q])) /\ Grows(Tail(toAgent[q]), toAgent[q], Head(toAgent[q]))
      BY <2>2, Taken
    <3> QED
      BY <3>1 DEF RequestOK, Unserved, Numbers, Grows
  <2> QED
    BY <2>1, <2>3, <2>4 DEF Headed
<1>4. CASE ServeStream(q) \/ LocalFails(q)
  <2>1. UNCHANGED <<handler, head>> /\ task'[q] \in {"body", "done"}
    BY <1>4
       DEF Types, ServeStream, LocalAnswers, SendBody, SendAborted, SendEnd, LocalFails, EndTask
  <2> QED
    BY <2>1 DEF Headed
<1> QED
  BY <1>1, <1>2, <1>3, <1>4 DEF StepOf, EdgeStep

\* The steps on the edge end the wait, or leave the response alone.
LEMMA AliveEdge ==
    ASSUME Types, NEW q \in Requests, RequestOK(q), Alive(q), EdgeStep(q)
    PROVE  Alive(q)'
<1> USE DEF edgeVars, countVars, linkVars, netVars, agentVars
<1>0. Numbers(toAgent[q])
  BY Tallies
<1>1. CASE \/ Admit(q) \/ Insert(q) \/ Count(q) \/ OpenFailed(q) \/ HeadDropped(q)
           \/ HeadTimeout(q) \/ HangUpEarly(q) \/ BodyRunsOut(q) \/ HangUpLate(q)
           \/ (Deliver(q) /\ Head(body[q]) # "data")
  <2>1. handler'[q] \notin {"waiting", "answering"}
    BY <1>1
       DEF Types, Admit, Insert, Count, OpenFailed, HeadDropped, HeadTimeout, HangUpEarly,
           BodyRunsOut, HangUpLate, Deliver, DropBody, Finish
  <2> QED
    BY <2>1 DEF Alive
<1>2. CASE PumpFail(q) \/ CloseDoomed(q)
  <2>1. ~entry'[q]
    BY <1>2 DEF Types, PumpFail, CloseDoomed, CloseStream
  <2> QED
    BY <2>1 DEF Alive
<1>3. CASE OpenSent(q)
  <2>1. handler[q] = "opening" /\ SendToAgent(q, "open") /\ task' = task
    BY <1>3 DEF OpenSent
  <2>2. Empty(toAgent[q]) /\ task[q] = "none"
    BY <2>1 DEF RequestOK, Unopened
  <2>3. /\ Numbers(toAgent'[q])
        /\ toAgent'[q] = toAgent[q] \/ Grows(toAgent[q], toAgent'[q], "open")
    BY <2>1, ToAgent DEF EdgeFrames
  <2>4. Tally(toAgent'[q], "reset") = 0
    BY <1>0, <2>2, <2>3 DEF Numbers, Grows
  <2> QED
    BY <2>1, <2>2, <2>4 DEF Alive
<1>4. CASE HeadArrived(q) \/ (Deliver(q) /\ Head(body[q]) = "data")
  <2>1. /\ handler[q] \in {"waiting", "answering"}
        /\ UNCHANGED <<entry, link, toAgent, toEdge, agentHas, task, credit, reading>>
    BY <1>4 DEF HeadArrived, Deliver
  <2> QED
    BY <2>1 DEF Alive, Paid
<1>5. CASE PumpData(q) \/ PumpEnd(q)
  <2>1. UNCHANGED <<handler, entry, link, toEdge, agentHas, task, credit, reading>>
    BY <1>5 DEF PumpData, PumpEnd
  <2>2. PICK f \in {"data", "end"} : SendToAgent(q, f) \/ UNCHANGED toAgent
    BY <1>5 DEF PumpData, PumpEnd
  <2>3. Tally(toAgent'[q], "credit") = Tally(toAgent[q], "credit")
    BY <2>2, PlainFrame DEF Plain
  <2>4. Tally(toAgent'[q], "reset") = Tally(toAgent[q], "reset")
    <3>1. CASE SendToAgent(q, f)
      <4>1. toAgent'[q] = toAgent[q] \/ Grows(toAgent[q], toAgent'[q], f)
        BY <3>1, ToAgent DEF EdgeFrames
      <4> QED
        BY <4>1 DEF Grows
    <3> QED
      BY <2>2, <3>1
  <2> QED
    BY <2>1, <2>3, <2>4 DEF Alive, Paid
<1>6. CASE CountDown(q)
  <2>1. UNCHANGED <<handler, entry, link, toAgent, toEdge, agentHas, task, credit, reading>>
    BY <1>6 DEF CountDown
  <2> QED
    BY <2>1 DEF Alive, Paid
<1> QED
  BY <1>1, <1>2, <1>3, <1>4, <1>5, <1>6 DEF EdgeStep, Ingress, Pump

\* What the edge reads it pays for, and with the last frame its wait ends.
LEMMA AliveFromAgent ==
    ASSUME Types, NEW q \in Requests, RequestOK(q), Alive(q), FromAgent(q)
    PROVE  Alive(q)'
<1> USE DEF edgeVars, countVars, linkVars, netVars, agentVars
<1>0. /\ Numbers(toAgent[q]) /\ Numbers(toEdge[q]) /\ credit[q] \in Nat
  BY Tallies
<1>1. toEdge[q] \in Seq(AgentFrames) /\ toEdge[q] # <<>> /\ toEdge'[q] = Tail(toEdge[q])
  BY DEF Types, FromAgent
<1>2. PICK f : /\ f = Head(toEdge[q])
               /\ Grows(toEdge'[q], toEdge[q], f) /\ Numbers(toEdge'[q])
  BY <1>1, Taken
<1>3. UNCHANGED <<handler, link, agentHas, task, credit, reading>>
  BY DEF FromAgent
<1>4. \/ f = "head" /\ OnHead(q)
      \/ f = "data" /\ OnData(q)
      \/ f \in {"end", "reset"} /\ OnLast(q, f)
  BY <1>2 DEF FromAgent
<1>5. CASE f = "head" /\ OnHead(q)
  <2>1. UNCHANGED <<entry, toAgent>>
    BY <1>5 DEF OnHead
  <2> QED
    BY <1>2, <1>3, <1>5, <2>1 DEF Alive, Paid, Grows, Ends
<1>6. CASE f = "data" /\ OnData(q)
  <2>1. CASE entry[q] /\ BodyHeld(q) /\ link = "up"
    <3>1. entry' = entry /\ SendToAgent(q, "credit")
      BY <1>6, <2>1 DEF OnData
    <3>2. toAgent'[q] = Append(toAgent[q], "credit") /\ toAgent[q] \in Seq(EdgeFrames)
      BY <2>1, <3>1 DEF SendToAgent, Types
    <3>3. Grows(toAgent[q], toAgent'[q], "credit")
      BY <3>2, Appended DEF EdgeFrames
    <3>4. /\ Tally(toEdge[q], "data") = Tally(toEdge'[q], "data") + 1
          /\ Tally(toAgent'[q], "credit") = Tally(toAgent[q], "credit") + 1
          /\ Tally(toEdge'[q], "data") \in Nat /\ Tally(toAgent[q], "credit") \in Nat
      BY <1>0, <1>2, <1>6, <3>3 DEF Grows, Numbers
    <3>5. Paid(q)' = Paid(q)
      BY <1>0, <1>3, <3>4 DEF Paid
    <3>6. /\ Tally(toAgent'[q], "reset") = Tally(toAgent[q], "reset")
          /\ Ends(toEdge'[q]) = Ends(toEdge[q])
      BY <1>2, <1>6, <3>3 DEF Grows, Ends
    <3> QED
      BY <1>3, <3>1, <3>5, <3>6 DEF Alive
  <2>2. CASE ~(entry[q] /\ BodyHeld(q) /\ link = "up")
    <3>1. entry'[q] => entry[q]
      BY <1>6 DEF OnData, CloseStream, Types
    <3> QED
      BY <1>3, <2>2, <3>1 DEF Alive, BodyHeld
  <2> QED
    BY <2>1, <2>2
<1>7. CASE f \in {"end", "reset"} /\ OnLast(q, f)
  <2>1. ~entry'[q]
    BY <1>7 DEF OnLast, CloseStream, Types
  <2> QED
    BY <2>1 DEF Alive
<1> QED
  BY <1>4, <1>5, <1>6, <1>7

\* The agent's read loop keeps the stream, and adds the credit that comes in.
LEMMA AliveFromEdge ==
    ASSUME Types, NEW q \in Requests, RequestOK(q), Alive(q), FromEdge(q)
    PROVE  Alive(q)'
<1> USE DEF edgeVars, countVars, linkVars, netVars, agentVars
<1>0. /\ Numbers(toAgent[q]) /\ Numbers(toEdge[q]) /\ credit[q] \in Nat /\ Window \in Nat
  BY Tallies, SizesAssumption
<1>1. toAgent[q] \in Seq(EdgeFrames) /\ toAgent[q] # <<>> /\ toAgent'[q] = Tail(toAgent[q])
  BY DEF Types, FromEdge
<1>2. PICK f : /\ f = Head(toAgent[q])
               /\ Grows(toAgent'[q], toAgent[q], f) /\ Numbers(toAgent'[q])
  BY <1>1, Taken
<1>3. UNCHANGED <<handler, entry, link, toEdge, reading>>
  BY DEF FromEdge, AgentOpen, AgentData, AgentEnd, AgentReset, AgentCredit
<1>4. \/ f = "open" /\ AgentOpen(q)
      \/ f = "data" /\ AgentData(q)
      \/ f = "end" /\ AgentEnd(q)
      \/ f = "reset" /\ AgentReset(q)
      \/ f = "credit" /\ AgentCredit(q)
  BY <1>2 DEF FromEdge
<1> SUFFICES ASSUME link = "up", entry[q], handler[q] \in {"waiting", "answering"}, reading[q]
             PROVE  Alive(q)'
  BY <1>3 DEF Alive
<1>5. Tally(toAgent[q], "reset") = 0
  BY DEF Alive
<1>6. f # "reset" /\ Tally(toAgent'[q], "reset") = 0
  BY <1>0, <1>2, <1>5 DEF Grows, Numbers
<1>7. CASE f = "open" /\ AgentOpen(q)
  <2>1. agentHas'[q] /\ credit'[q] = Window /\ task'[q] = "serving"
    BY <1>7 DEF AgentOpen, Types
  <2>2. task[q] = "none"
    BY <1>0, <1>2, <1>7 DEF RequestOK, Unserved, Numbers, Grows
  <2>3. Tally(toEdge'[q], "data") = 0 /\ Tally(toAgent[q], "credit") = 0
    BY <1>0, <1>3, <2>2 DEF RequestOK, Unserved, Numbers
  <2>4. Tally(toAgent'[q], "credit") = 0
    BY <1>2, <1>7, <2>3 DEF Grows
  <2>5. Paid(q)' = Window
    BY <1>0, <2>1, <2>3, <2>4 DEF Paid
  <2> QED
    BY <1>6, <2>1, <2>5 DEF Alive
<1>8. CASE (f = "data" /\ AgentData(q)) \/ (f = "end" /\ AgentEnd(q))
  <2>1. UNCHANGED <<agentHas, credit, task>>
    BY <1>8 DEF AgentData, AgentEnd
  <2>2. Tally(toAgent'[q], "credit") = Tally(toAgent[q], "credit")
    BY <1>2, <1>8 DEF Grows
  <2> QED
    BY <1>3, <1>6, <2>1, <2>2 DEF Alive, Paid
<1>9. CASE f = "credit" /\ AgentCredit(q)
  <2>1. UNCHANGED <<agentHas, task>> /\ (agentHas[q] => credit'[q] = credit[q] + 1)
    BY <1>9 DEF AgentCredit, Types
  <2>2. Tally(toAgent[q], "credit") = Tally(toAgent'[q], "credit") + 1
    BY <1>2, <1>9 DEF Grows
  <2>3. Tally(toAgent'[q], "credit") \in Nat /\ Tally(toEdge[q], "data") \in Nat
    BY <1>0, <1>2 DEF Numbers
  <2>4. agentHas[q] => Paid(q)' = Paid(q)
    BY <1>0, <1>3, <2>1, <2>2, <2>3 DEF Paid
  <2> QED
    BY <1>3, <1>6, <2>1, <2>4 DEF Alive
<1> QED
  BY <1>4, <1>6, <1>7, <1>8, <1>9

\* The agent's task keeps its credit in balance, and says when it is over.
LEMMA AliveTask ==
    ASSUME Types, NEW q \in Requests, RequestOK(q), Going(q), ServeStream(q) \/ LocalFails(q)
    PROVE  Alive(q)'
<1> USE DEF edgeVars, countVars, linkVars, netVars, agentVars
<1>0. /\ Numbers(body[q]) /\ Numbers(toAgent[q]) /\ Numbers(toEdge[q]) /\ credit[q] \in Nat
  BY Tallies
<1>1. UNCHANGED <<handler, entry, link, toAgent>>
  BY DEF ServeStream, LocalAnswers, SendBody, SendAborted, SendEnd, LocalFails
<1>2. task[q] \in {"serving", "body"}
  BY DEF ServeStream, LocalAnswers, SendBody, SendAborted, SendEnd, LocalFails
<1>3. EndsLast(toEdge[q]) /\ Ends(toEdge[q]) = 0
  BY <1>0, <1>2 DEF RequestOK, Ordered, Ends, Numbers
<1>4. reading'[q] => reading[q]
  <2>1. CASE LocalAnswers(q)
    BY <2>1 DEF LocalAnswers, Going, Headed
  <2> QED
    BY <2>1 DEF ServeStream, SendBody, SendAborted, SendEnd, LocalFails
<1> SUFFICES ASSUME link = "up", entry[q], handler[q] \in {"waiting", "answering"}, reading[q]
             PROVE  Alive(q)'
  BY <1>1, <1>4 DEF Alive
<1>5. Tally(toAgent'[q], "reset") = 0 /\ agentHas[q] /\ Paid(q) = Window
  BY <1>1, <1>2 DEF Going, Alive
<1>6. ASSUME NEW f \in AgentFrames, SendToEdge(q, f)
      PROVE  Numbers(toEdge'[q]) /\ Grows(toEdge[q], toEdge'[q], f)
  BY <1>3, <1>6, ToEdge
<1>7. CASE LocalAnswers(q)
  <2>1. Grows(toEdge[q], toEdge'[q], "head")
    BY <1>6, <1>7 DEF LocalAnswers, AgentFrames
  <2>2. task'[q] = "body" /\ agentHas' = agentHas /\ credit' = credit
    BY <1>7 DEF LocalAnswers, Types
  <2>3. Paid(q)' = Paid(q)
    BY <1>1, <2>1, <2>2 DEF Paid, Grows
  <2> QED
    BY <1>5, <2>2, <2>3 DEF Alive
<1>8. CASE SendBody(q)
  <2>1. Grows(toEdge[q], toEdge'[q], "data")
    BY <1>6, <1>8 DEF SendBody, AgentFrames
  <2>2. /\ task[q] = "body" /\ UNCHANGED <<task, agentHas>>
        /\ credit[q] > 0 /\ credit'[q] = credit[q] - 1
    BY <1>8 DEF SendBody, Types
  <2>3. Tally(toEdge'[q], "data") = Tally(toEdge[q], "data") + 1
    BY <2>1 DEF Grows
  <2>4. Tally(toEdge[q], "data") \in Nat /\ Tally(toAgent[q], "credit") \in Nat
    BY <1>0 DEF Numbers
  <2>5. Paid(q)' = Paid(q)
    BY <1>0, <1>1, <2>2, <2>3, <2>4 DEF Paid
  <2> QED
    BY <1>5, <2>2, <2>5 DEF Alive
<1>9. CASE SendEnd(q) \/ LocalFails(q)
  <2>1. PICK f \in {"end", "reset"} : SendToEdge(q, f) /\ task'[q] = "done"
    BY <1>9 DEF SendEnd, LocalFails, EndTask, Types
  <2>2. Numbers(toEdge'[q]) /\ Grows(toEdge[q], toEdge'[q], f)
    BY <1>6, <2>1 DEF AgentFrames
  <2>3. Ends(toEdge'[q]) > 0
    BY <1>0, <2>2 DEF Ends, Grows, Numbers
  <2> QED
    BY <1>5, <2>1, <2>3 DEF Alive
<1>10. CASE SendAborted(q)
  BY <1>5, <1>10 DEF SendAborted
<1> QED
  BY <1>7, <1>8, <1>9, <1>10 DEF ServeStream

\* What the invariant says of the others is not touched.
LEMMA OthersGoing ==
    ASSUME Types, NEW q \in Requests, StepOf(q), NEW r \in Requests \ {q}
    PROVE  head'[r] = head[r] /\ agentHas'[r] = agentHas[r] /\ reading'[r] = reading[r]
<1> USE DEF Types, edgeVars, countVars, linkVars, netVars, agentVars
<1>1. CASE EdgeStep(q)
  BY <1>1
     DEF EdgeStep, Ingress, Pump, Admit, Insert, Count, OpenSent, OpenFailed, HeadArrived,
         HeadDropped, HeadTimeout, Deliver, BodyRunsOut, HangUpEarly, HangUpLate, PumpData,
         PumpEnd, PumpFail, CloseDoomed, CountDown, DropBody, CloseStream
<1>2. CASE FromAgent(q)
  BY <1>2 DEF FromAgent, OnHead, OnData, OnLast, CloseStream
<1>3. CASE FromEdge(q)
  BY <1>3 DEF FromEdge, AgentOpen, AgentData, AgentEnd, AgentReset, AgentCredit, DropStream
<1>4. CASE ServeStream(q) \/ LocalFails(q)
  BY <1>4
     DEF ServeStream, LocalAnswers, SendBody, SendAborted, SendEnd, LocalFails, EndTask, DropStream
<1> QED
  BY <1>1, <1>2, <1>3, <1>4 DEF StepOf, EdgeStep

\* Every step keeps every response going, or ends the connection.
LEMMA GoingStep ==
    ASSUME MoveInv, [Next]_vars, NEW r \in Requests
    PROVE  Going(r)'
<1>0. Types /\ RequestOK(r) /\ Going(r)
  BY DEF MoveInv, IndInv, RequestsOK
<1>1. ASSUME StepOf(r) PROVE Going(r)'
  BY <1>0, <1>1, HeadedStep, AliveEdge, AliveFromAgent, AliveFromEdge, AliveTask
     DEF StepOf, EdgeStep, Going
<1>2. ASSUME NEW q \in Requests, StepOf(q), q # r PROVE Going(r)'
  <2>1. Same(r) /\ link' = link
    BY <1>0, <1>2, OthersSame
  <2>2. head'[r] = head[r] /\ agentHas'[r] = agentHas[r] /\ reading'[r] = reading[r]
    BY <1>0, <1>2, OthersGoing
  <2> QED
    BY <1>0, <2>1, <2>2 DEF Going, Headed, Alive, Same, Paid
<1>3. ASSUME ConnectionLost \/ Teardown \/ Closed PROVE Going(r)'
  <2>1. link' # "up" /\ UNCHANGED <<handler, head, reading, task>>
    BY <1>3 DEF ConnectionLost, Teardown, Closed, edgeVars, countVars, agentVars
  <2>2. toEdge'[r] = toEdge[r] \/ toEdge'[r] = <<>>
    BY <1>3 DEF ConnectionLost, Teardown, Closed, netVars
  <2>3. At(<<>>, "head") = {}
    BY DEF At
  <2> QED
    BY <1>0, <2>1, <2>2, <2>3 DEF Going, Headed, Alive
<1>4. ASSUME UNCHANGED vars PROVE Going(r)'
  BY <1>0, <1>4 DEF Going, Headed, Alive, Paid, vars, edgeVars, countVars, linkVars, netVars, agentVars
<1> QED
  BY <1>1, <1>2, <1>3, <1>4 DEF Next, StepOf

\* In the beginning nothing has been asked.
LEMMA GoingInit ==
    ASSUME Init, NEW q \in Requests
    PROVE  Going(q)
<1>1. At(<<>>, "head") = {}
  BY DEF At
<1> QED
  BY <1>1 DEF Init, Going, Headed, Alive

\* No response is ever stuck: for any window that is not zero, any number of requests
\* and bodies of any length, the edge never waits for a frame while the agent waits for
\* credit, whatever timeouts, resets and hang-ups of other requests come between.
THEOREM ResponsesMove == Spec => []AnswersMove
<1>1. Init => MoveInv
  BY InitOK, GoingInit DEF MoveInv
<1>2. MoveInv /\ [Next]_vars => MoveInv'
  BY StepOK, GoingStep DEF MoveInv
<1>3. MoveInv => AnswersMove
  <2> SUFFICES ASSUME MoveInv, Window > 0, NEW q \in Requests, handler[q] = "answering", entry[q],
                      link = "up", reading[q], body[q] = <<>>, toEdge[q] = <<>>,
                      ~(task[q] = "body" /\ (left[q] = 0 \/ credit[q] > 0))
               PROVE  \E i \in 1 .. Len(toAgent[q]) : toAgent[q][i] = "credit"
    BY DEF AnswersMove
  <2>1. Types /\ Going(q)
    BY DEF MoveInv, IndInv
  <2>2. /\ Numbers(toAgent[q]) /\ Numbers(toEdge[q]) /\ credit[q] \in Nat /\ Window \in Nat
    BY <2>1, Tallies, SizesAssumption
  <2>3. Tally(toEdge[q], "data") = 0 /\ Ends(toEdge[q]) = 0
    BY <2>2 DEF Numbers, Ends, Empty
  <2>4. task[q] = "body"
    BY <2>1, <2>3 DEF Going, Headed, Alive
  <2>5. Paid(q) = Window /\ credit[q] = 0
    BY <2>1, <2>2, <2>4 DEF Going, Alive
  <2>6. Tally(toAgent[q], "credit") > 0
    BY <2>2, <2>3, <2>5 DEF Paid, Numbers
  <2>7. At(toAgent[q], "credit") # {}
    <3>1. At(toAgent[q], "credit") = {} => Tally(toAgent[q], "credit") = 0
      BY FS_EmptySet, Zenon DEF Tally
    <3> QED
      BY <2>6, <3>1
  <2> QED
    BY <2>7 DEF At
<1> QED
  BY <1>1, <1>2, <1>3, PTL DEF Spec
-----------------------------------------------------------------------------
(* Uploads end for the local service after all of their data. *)

EndAfterData(s) == \A i, j \in 1 .. Len(s) : i < j /\ s[i] = "end" => s[j] # "data"

\* The request body of a stream that is not open yet has not ended; End is queued when
\* the pump is done, behind all data; and what has ended for the local service has
\* left the queue.
UploadOK(q) ==
    /\ task[q] = "none" => ~uploaded[q] /\ ~agentHas[q]
    /\ At(toAgent[q], "end") # {} => pump[q] = "ended"
    /\ EndAfterData(toAgent[q])
    /\ /\ handler[q] \in {"waiting", "answering"} /\ entry[q] /\ link = "up"
       /\ reading[q] /\ uploaded[q] /\ task[q] # "done"
       => pump[q] = "ended" /\ At(toAgent[q], "data") = {}

UploadInv == MoveInv /\ \A q \in Requests : UploadOK(q)

\* What a frame more does to the frames that are there.
LEMMA FrameMore ==
    ASSUME NEW S, NEW s \in Seq(S), NEW f \in S
    PROVE  /\ \A g : g # f => At(Append(s, f), g) = At(s, g)
           /\ EndAfterData(s) /\ (f # "data" \/ At(s, "end") = {}) => EndAfterData(Append(s, f))
<1>1. Len(Append(s, f)) = Len(s) + 1 /\ Len(s) \in Nat /\ Append(s, f)[Len(s) + 1] = f
  OBVIOUS
<1>2. \A i \in 1 .. Len(s) : Append(s, f)[i] = s[i]
  OBVIOUS
<1>3. ASSUME NEW g, g # f PROVE At(Append(s, f), g) = At(s, g)
  BY <1>1, <1>2, <1>3 DEF At
<1>4. ASSUME EndAfterData(s), f # "data" \/ At(s, "end") = {} PROVE EndAfterData(Append(s, f))
  BY <1>1, <1>2, <1>4 DEF EndAfterData, At
<1> QED
  BY <1>3, <1>4

\* The frames that are left when the first is taken.
LEMMA FrameLess ==
    ASSUME NEW S, NEW s \in Seq(S), s # <<>>, EndAfterData(s)
    PROVE  EndAfterData(Tail(s)) /\ (Head(s) = "end" => At(Tail(s), "data") = {})
<1>1. Len(s) \in Nat \ {0} /\ Len(Tail(s)) = Len(s) - 1 /\ Head(s) = s[1]
  OBVIOUS
<1>2. \A i \in 1 .. Len(s) - 1 : Tail(s)[i] = s[i + 1]
  OBVIOUS
<1>3. EndAfterData(Tail(s))
  BY <1>1, <1>2 DEF EndAfterData
<1>4. ASSUME Head(s) = "end" PROVE At(Tail(s), "data") = {}
  BY <1>1, <1>2, <1>4 DEF EndAfterData, At
<1> QED
  BY <1>3, <1>4

\* What a frame for the agent, sent or lost, does to its queue.
LEMMA SendKeeps ==
    ASSUME Types, NEW q \in Requests, NEW f \in EdgeFrames, SendToAgent(q, f) \/ UNCHANGED toAgent
    PROVE  /\ \A g : g # f => At(toAgent'[q], g) = At(toAgent[q], g)
           /\ EndAfterData(toAgent[q]) /\ (f # "data" \/ At(toAgent[q], "end") = {})
              => EndAfterData(toAgent'[q])
<1>1. toAgent[q] \in Seq(EdgeFrames)
  BY DEF Types
<1>2. toAgent'[q] = toAgent[q] \/ toAgent'[q] = Append(toAgent[q], f)
  BY DEF Types, SendToAgent
<1>3. CASE toAgent'[q] = Append(toAgent[q], f)
  <2>1. \A g : g # f => At(Append(toAgent[q], f), g) = At(toAgent[q], g)
    BY <1>1, FrameMore
  <2>2. EndAfterData(toAgent[q]) /\ (f # "data" \/ At(toAgent[q], "end") = {})
        => EndAfterData(Append(toAgent[q], f))
    BY <1>1, FrameMore
  <2> QED
    BY <1>3, <2>1, <2>2
<1> QED
  BY <1>2, <1>3

\* The steps on the edge.
LEMMA UploadEdge ==
    ASSUME Types, NEW q \in Requests, RequestOK(q), UploadOK(q), EdgeStep(q)
    PROVE  UploadOK(q)'
<1> USE DEF edgeVars, countVars, linkVars, netVars, agentVars
<1>0. UNCHANGED <<task, uploaded, agentHas, reading>>
  BY DEF EdgeStep, Ingress, Pump, Admit, Insert, Count, OpenSent, OpenFailed, HeadArrived,
         HeadDropped, HeadTimeout, Deliver, BodyRunsOut, HangUpEarly, HangUpLate, PumpData,
         PumpEnd, PumpFail, CloseDoomed, CountDown
<1>1. CASE Admit(q) \/ Insert(q) \/ Count(q) \/ HangUpEarly(q) \/ OpenFailed(q) \/ HeadDropped(q)
  <2>1. handler'[q] \notin {"waiting", "answering"} /\ UNCHANGED <<pump, toAgent>>
    BY <1>1 DEF Types, Admit, Insert, Count, HangUpEarly, OpenFailed, HeadDropped, Finish
  <2> QED
    BY <1>0, <2>1 DEF UploadOK
<1>2. CASE HeadTimeout(q) \/ BodyRunsOut(q) \/ HangUpLate(q)
           \/ (Deliver(q) /\ Head(body[q]) # "data")
  <2>1. handler'[q] \notin {"waiting", "answering"} /\ UNCHANGED pump
    BY <1>2 DEF Types, HeadTimeout, BodyRunsOut, HangUpLate, Deliver, DropBody, Finish
  <2>2. SendToAgent(q, "reset") \/ UNCHANGED toAgent
    BY <1>2 DEF HeadTimeout, BodyRunsOut, HangUpLate, Deliver, DropBody, TrySendToAgent
  <2>3. /\ At(toAgent'[q], "end") = At(toAgent[q], "end")
        /\ EndAfterData(toAgent[q]) => EndAfterData(toAgent'[q])
    BY <2>2, SendKeeps DEF EdgeFrames
  <2> QED
    BY <1>0, <2>1, <2>3 DEF UploadOK
<1>3. CASE HeadArrived(q) \/ (Deliver(q) /\ Head(body[q]) = "data")
  <2>1. handler[q] \in {"waiting", "answering"} /\ UNCHANGED <<entry, link, pump, toAgent>>
    BY <1>3 DEF HeadArrived, Deliver
  <2> QED
    BY <1>0, <2>1 DEF UploadOK
<1>4. CASE PumpFail(q)
  <2>1. ~entry'[q] /\ pump[q] # "ended" /\ SendToAgent(q, "reset")
    BY <1>4 DEF Types, PumpFail, CloseStream
  <2>2. /\ At(toAgent'[q], "end") = At(toAgent[q], "end")
        /\ EndAfterData(toAgent[q]) => EndAfterData(toAgent'[q])
    BY <2>1, SendKeeps DEF EdgeFrames
  <2> QED
    BY <1>0, <2>1, <2>2 DEF UploadOK
<1>5. CASE CloseDoomed(q)
  <2>1. ~entry'[q] /\ UNCHANGED <<pump, toAgent>>
    BY <1>5 DEF Types, CloseDoomed, CloseStream
  <2> QED
    BY <1>0, <2>1 DEF UploadOK
<1>6. CASE OpenSent(q)
  <2>1. handler[q] = "opening" /\ SendToAgent(q, "open")
    BY <1>6 DEF OpenSent
  <2>2. pump[q] = "none" /\ task[q] = "none"
    BY <2>1 DEF RequestOK, Unopened
  <2>3. /\ At(toAgent'[q], "end") = At(toAgent[q], "end")
        /\ EndAfterData(toAgent[q]) => EndAfterData(toAgent'[q])
    BY <2>1, SendKeeps DEF EdgeFrames
  <2> QED
    BY <1>0, <2>2, <2>3 DEF UploadOK
<1>7. CASE PumpData(q)
  <2>1. pump[q] = "data" /\ (SendToAgent(q, "data") \/ UNCHANGED toAgent)
    BY <1>7 DEF PumpData
  <2>2. At(toAgent[q], "end") = {}
    BY <2>1 DEF UploadOK
  <2>3. /\ At(toAgent'[q], "end") = At(toAgent[q], "end")
        /\ EndAfterData(toAgent[q]) => EndAfterData(toAgent'[q])
    BY <2>1, <2>2, SendKeeps DEF EdgeFrames
  <2>4. UNCHANGED <<handler, entry, link>>
    BY <1>7 DEF PumpData
  <2> QED
    BY <1>0, <2>1, <2>2, <2>3, <2>4 DEF UploadOK
<1>8. CASE PumpEnd(q)
  <2>1. pump[q] = "end" /\ SendToAgent(q, "end") /\ pump'[q] = "ended"
    BY <1>8 DEF Types, PumpEnd
  <2>2. /\ At(toAgent'[q], "data") = At(toAgent[q], "data")
        /\ EndAfterData(toAgent[q]) => EndAfterData(toAgent'[q])
    BY <2>1, SendKeeps DEF EdgeFrames
  <2>3. UNCHANGED <<handler, entry, link>>
    BY <1>8 DEF PumpEnd
  <2> QED
    BY <1>0, <2>1, <2>2, <2>3 DEF UploadOK
<1>9. CASE CountDown(q)
  <2>1. UNCHANGED <<handler, entry, link, pump, toAgent>>
    BY <1>9 DEF CountDown
  <2> QED
    BY <1>0, <2>1 DEF UploadOK
<1> QED
  BY <1>1, <1>2, <1>3, <1>4, <1>5, <1>6, <1>7, <1>8, <1>9 DEF EdgeStep, Ingress, Pump

\* The read loops and the agent's task.
LEMMA UploadElsewhere ==
    ASSUME Types, NEW q \in Requests, RequestOK(q), Going(q), UploadOK(q),
           FromAgent(q) \/ FromEdge(q) \/ ServeStream(q) \/ LocalFails(q)
    PROVE  UploadOK(q)'
<1> USE DEF edgeVars, countVars, linkVars, netVars, agentVars
<1>1. CASE FromAgent(q)
  <2>1. UNCHANGED <<handler, link, pump, task, uploaded, agentHas, reading>>
    BY <1>1 DEF FromAgent
  <2>2. entry'[q] => entry[q]
    BY <1>1 DEF Types, FromAgent, OnHead, OnData, OnLast, CloseStream
  <2>3. SendToAgent(q, "credit") \/ UNCHANGED toAgent
    BY <1>1 DEF FromAgent, OnHead, OnData, OnLast
  <2>4. At(toAgent'[q], "end") = At(toAgent[q], "end")
    BY <2>3, SendKeeps DEF EdgeFrames
  <2>5. At(toAgent'[q], "data") = At(toAgent[q], "data")
    BY <2>3, SendKeeps DEF EdgeFrames
  <2>6. EndAfterData(toAgent[q]) => EndAfterData(toAgent'[q])
    BY <2>3, SendKeeps DEF EdgeFrames
  <2> QED
    BY <2>1, <2>2, <2>4, <2>5, <2>6 DEF UploadOK
<1>2. CASE FromEdge(q)
  <2>1. toAgent[q] \in Seq(EdgeFrames) /\ toAgent[q] # <<>> /\ toAgent'[q] = Tail(toAgent[q])
    BY <1>2 DEF Types, FromEdge
  <2>2. UNCHANGED <<handler, entry, link, pump, reading>>
    BY <1>2 DEF FromEdge, AgentOpen, AgentData, AgentEnd, AgentReset, AgentCredit
  <2> DEFINE f == Head(toAgent[q])
  <2>3. \A g : At(toAgent'[q], g) # {} \/ f = g => At(toAgent[q], g) # {}
    BY <2>1, HeadsTaken
  <2>4. EndAfterData(toAgent'[q]) /\ (f = "end" => At(toAgent'[q], "data") = {})
    BY <2>1, FrameLess DEF UploadOK
  <2>5. /\ Numbers(toAgent'[q]) /\ Grows(toAgent'[q], toAgent[q], f)
    BY <2>1, Taken
  <2>6. task'[q] = "none" => task[q] = "none" /\ ~uploaded'[q] /\ ~agentHas'[q]
    BY <1>2
       DEF Types, FromEdge, AgentOpen, AgentData, AgentEnd, AgentReset, AgentCredit, DropStream,
           UploadOK
  <2>7. At(toAgent'[q], "end") # {} => pump'[q] = "ended"
    BY <2>2, <2>3 DEF UploadOK
  <2>8. ASSUME handler[q] \in {"waiting", "answering"}, entry[q], link = "up", reading[q],
               uploaded'[q], task'[q] # "done"
        PROVE  pump[q] = "ended" /\ At(toAgent'[q], "data") = {}
    <3>1. f # "reset"
      BY <2>5, <2>8 DEF Going, Alive, Grows, Numbers
    <3>2. CASE f = "open"
      <4>1. task[q] = "none"
        BY <2>5, <3>2 DEF RequestOK, Unserved, Numbers, Grows
      <4>2. uploaded'[q] = uploaded[q]
        BY <1>2, <3>2 DEF FromEdge, AgentOpen
      <4> QED
        BY <2>8, <4>1, <4>2 DEF UploadOK
    <3>3. CASE f = "end"
      BY <2>3, <2>4, <3>3 DEF UploadOK
    <3>4. CASE f \in {"data", "credit"}
      <4>1. uploaded'[q] = uploaded[q] /\ task'[q] = task[q]
        BY <1>2, <2>8, <3>4 DEF FromEdge, AgentData, AgentCredit
      <4> QED
        BY <2>3, <2>8, <4>1 DEF UploadOK
    <3> QED
      BY <1>2, <3>1, <3>2, <3>3, <3>4 DEF FromEdge
  <2> QED
    BY <2>2, <2>4, <2>6, <2>7, <2>8 DEF UploadOK
<1>3. CASE ServeStream(q) \/ LocalFails(q)
  <2>1. UNCHANGED <<handler, entry, link, pump, toAgent>>
    BY <1>3 DEF ServeStream, LocalAnswers, SendBody, SendAborted, SendEnd, LocalFails
  <2>2. /\ task[q] # "none" /\ task'[q] # "none"
        /\ task'[q] = "done" \/ (uploaded'[q] = uploaded[q] /\ task[q] # "done")
    BY <1>3
       DEF Types, ServeStream, LocalAnswers, SendBody, SendAborted, SendEnd, LocalFails, EndTask
  <2>3. reading'[q] => reading[q]
    <3>1. CASE LocalAnswers(q)
      BY <3>1 DEF LocalAnswers, Going, Headed
    <3> QED
      BY <1>3, <3>1 DEF ServeStream, SendBody, SendAborted, SendEnd, LocalFails
  <2> QED
    BY <2>1, <2>2, <2>3 DEF UploadOK
<1> QED
  BY <1>1, <1>2, <1>3

\* What the invariant says of the others is not touched.
LEMMA OthersUpload ==
    ASSUME Types, NEW q \in Requests, StepOf(q), NEW r \in Requests \ {q}
    PROVE  uploaded'[r] = uploaded[r]
<1> USE DEF Types, edgeVars, countVars, linkVars, netVars, agentVars
<1>1. CASE EdgeStep(q) \/ FromAgent(q)
  BY <1>1
     DEF EdgeStep, Ingress, Pump, Admit, Insert, Count, OpenSent, OpenFailed, HeadArrived,
         HeadDropped, HeadTimeout, Deliver, BodyRunsOut, HangUpEarly, HangUpLate, PumpData,
         PumpEnd, PumpFail, CloseDoomed, CountDown, FromAgent
<1>2. CASE FromEdge(q)
  BY <1>2 DEF FromEdge, AgentOpen, AgentData, AgentEnd, AgentReset, AgentCredit, DropStream
<1>3. CASE ServeStream(q) \/ LocalFails(q)
  BY <1>3
     DEF ServeStream, LocalAnswers, SendBody, SendAborted, SendEnd, LocalFails, EndTask, DropStream
<1> QED
  BY <1>1, <1>2, <1>3 DEF StepOf, EdgeStep

\* Every step keeps every upload in order.
LEMMA UploadStep ==
    ASSUME UploadInv, [Next]_vars, NEW r \in Requests
    PROVE  UploadOK(r)'
<1>0. Types /\ RequestOK(r) /\ Going(r) /\ UploadOK(r)
  BY DEF UploadInv, MoveInv, IndInv, RequestsOK
<1>1. ASSUME StepOf(r) PROVE UploadOK(r)'
  BY <1>0, <1>1, UploadEdge, UploadElsewhere DEF StepOf, EdgeStep
<1>2. ASSUME NEW q \in Requests, StepOf(q), q # r PROVE UploadOK(r)'
  <2>1. Same(r) /\ link' = link
    BY <1>0, <1>2, OthersSame
  <2>2. agentHas'[r] = agentHas[r] /\ reading'[r] = reading[r] /\ uploaded'[r] = uploaded[r]
    BY <1>0, <1>2, OthersGoing, OthersUpload
  <2> QED
    BY <1>0, <2>1, <2>2 DEF UploadOK, Same
<1>3. ASSUME ConnectionLost \/ Teardown \/ Closed PROVE UploadOK(r)'
  <2>1. link' # "up" /\ UNCHANGED <<pump, task, uploaded, agentHas>>
    BY <1>3 DEF ConnectionLost, Teardown, Closed, edgeVars, countVars, agentVars
  <2>2. toAgent'[r] = toAgent[r] \/ toAgent'[r] = <<>>
    BY <1>3 DEF ConnectionLost, Teardown, Closed, netVars
  <2>3. At(<<>>, "end") = {} /\ EndAfterData(<<>>)
    BY DEF At, EndAfterData
  <2> QED
    BY <1>0, <2>1, <2>2, <2>3 DEF UploadOK
<1>4. ASSUME UNCHANGED vars PROVE UploadOK(r)'
  BY <1>0, <1>4 DEF UploadOK, vars, edgeVars, countVars, linkVars, netVars, agentVars
<1> QED
  BY <1>1, <1>2, <1>3, <1>4 DEF Next, StepOf

\* For any number of requests, the local service takes no part of a request body for the
\* whole while its response is awaited: End overtakes no data, and neither a timeout nor
\* the end of another stream closes the body early.
THEOREM UploadsWhole == Spec => []UploadWhole
<1>1. Init => UploadInv
  <2> SUFFICES ASSUME Init, NEW q \in Requests PROVE UploadOK(q)
    BY InitOK, GoingInit DEF UploadInv, MoveInv
  <2>1. At(<<>>, "end") = {} /\ EndAfterData(<<>>)
    BY DEF At, EndAfterData
  <2> QED
    BY <2>1 DEF Init, UploadOK
<1>2. UploadInv /\ [Next]_vars => UploadInv'
  BY StepOK, GoingStep, UploadStep DEF UploadInv, MoveInv
<1>3. UploadInv => UploadWhole
  BY DEF UploadInv, UploadOK, UploadWhole, At
<1> QED
  BY <1>1, <1>2, <1>3, PTL DEF Spec
=============================================================================
