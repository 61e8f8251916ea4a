------------------ MODULE SlidingWindowDecentralized_proofs ------------------
(***************************************************************************)
(* Proofs about SlidingWindowDecentralized, for every number of nodes,     *)
(* window, life, period, queue and set of requests.                        *)
(***************************************************************************)
EXTENDS SlidingWindowDecentralized, FiniteSetTheorems, TLAPS

USE DEF Attempts, LastAttempt

LEMMA NodesFacts ==
  /\ 0..NodesNumber \subseteq Int
  /\ 0 \in 0..NodesNumber
  /\ \A i \in 0..NodesNumber : i < NodesNumber => i \in Nodes /\ i + 1 \in 0..NodesNumber
  BY NodesAssumption DEF Nodes

LEMMA OneMore ==
  ASSUME NEW S, NEW x, IsFiniteSet(S)
  PROVE  /\ IsFiniteSet(S \cup {x})
         /\ Cardinality(S) \in Nat
         /\ Cardinality(S \cup {x}) \in Nat
         /\ Cardinality(S \cup {x}) <= Cardinality(S) + 1
  BY FS_AddElement, FS_CardinalityType

LEMMA OneLess ==
  ASSUME NEW S, NEW x, IsFiniteSet(S)
  PROVE  /\ IsFiniteSet(S \ {x})
         /\ Cardinality(S) \in Nat
         /\ Cardinality(S \ {x}) \in Nat
         /\ Cardinality(S \ {x}) <= Cardinality(S)
         /\ x \in S => Cardinality(S \ {x}) = Cardinality(S) - 1
<1>1. /\ IsFiniteSet(S \ {x})
      /\ Cardinality(S \ {x}) =
           IF x \in S THEN Cardinality(S) - 1 ELSE Cardinality(S)
  BY FS_RemoveElement
<1>2. Cardinality(S) \in Nat /\ Cardinality(S \ {x}) \in Nat
  BY <1>1, FS_CardinalityType
<1> QED
  BY <1>1, <1>2

LEMMA AdmissionType ==
  ASSUME NEW n, NEW x \in Response, stamp[n] \in Nat
  PROVE  /\ Admission(n, x) \in Response
         /\ Admission(n, x).allowed = TRUE
         /\ Admission(n, x).ts = stamp[n]
         /\ Admission(n, x).attempt = x.attempt
         /\ Asked(Admission(n, x)) = Asked(x)
  BY DEF Admission, Response, Asked

LEMMA RejectionType ==
  ASSUME now \in Nat, NEW r \in Requests
  PROVE  /\ Rejection(r) \in Response
         /\ Rejection(r).allowed = FALSE
         /\ Rejection(r).retry = (Rejection(r).attempt < LastAttempt)
         /\ Asked(Rejection(r)) = r
  BY RequestsAssumption DEF Rejection, Response, Asked

LEMMA TypeInit == Init => Typed /\ Finite
  BY NodesFacts, FS_EmptySet DEF Init, Typed, Finite, Pcs

LEMMA TypeStep == Typed /\ Finite /\ [Next]_vars => Typed' /\ Finite'
<1> SUFFICES ASSUME Typed, Finite, [Next]_vars PROVE Typed' /\ Finite'
  OBVIOUS
<1> USE DEF Typed, Finite, Pcs, nodeVars, Goto
<1>1. CASE UNCHANGED vars
  BY <1>1 DEF vars
<1>2. CASE Tick
  BY <1>2 DEF Tick
<1>3. ASSUME NEW n \in Nodes, Step(n) PROVE Typed' /\ Finite'
  <2>1. CASE StartSync(n)
    BY <2>1, NodesFacts DEF StartSync
  <2>2. CASE SkipSync(n)
    BY <2>2 DEF SkipSync
  <2>3. CASE ReadSize(n)
    <3>1. /\ at[n] \in Nodes
          /\ at[n] + 1 \in 0..NodesNumber
      BY <2>3, NodesFacts DEF ReadSize
    <3>2. Cardinality(infly[at[n]]) \in Nat
      BY <3>1, FS_CardinalityType
    <3> QED
      BY <2>3, <3>1, <3>2 DEF ReadSize
  <2>4. CASE EndSync(n)
    BY <2>4, NodesFacts DEF EndSync
  <2>5. CASE Return(n)
    BY <2>5 DEF Return
  <2>6. CASE Proceed(n)
    BY <2>6 DEF Proceed
  <2>7. CASE Expire(n)
    <3>1. PICK e \in Expired(n) : infly' = [infly EXCEPT ![n] = @ \ {e}]
      BY <2>7 DEF Expire
    <3>2. IsFiniteSet(infly[n] \ {e})
      BY FS_RemoveElement
    <3> QED
      BY <2>7, <3>1, <3>2 DEF Expire
  <2>8. CASE ExpireDone(n)
    BY <2>8 DEF ExpireDone
  <2>9. CASE Stamp(n)
    BY <2>9 DEF Stamp
  <2>10. CASE Book(n)
    <3>1. PICK x \in queue[n] :
            /\ out' = [out EXCEPT ![n] = @ \cup {Admission(n, x)}]
            /\ infly' = [infly EXCEPT ![n] =
                           @ \cup {[of |-> Admission(n, x), end |-> EndOfLife]}]
            /\ queue' = [queue EXCEPT ![n] = @ \ {x}]
      BY <2>10 DEF Book
    <3>2. Admission(n, x) \in Response
      BY AdmissionType
    <3>3. [of |-> Admission(n, x), end |-> EndOfLife] \in [of : Response, end : Nat]
      BY <3>2, LimitsAssumption DEF EndOfLife
    <3>4. /\ IsFiniteSet(infly[n] \cup {[of |-> Admission(n, x), end |-> EndOfLife]})
          /\ IsFiniteSet(queue[n] \ {x})
      BY FS_AddElement, FS_RemoveElement
    <3>5. Typed'
      BY <2>10, <3>1, <3>2, <3>3 DEF Book
    <3>6. Finite'
      BY <3>1, <3>4
    <3> QED
      BY <3>5, <3>6
  <2>11. CASE AdmitDone(n)
    BY <2>11 DEF AdmitDone
  <2>12. CASE Flush(n)
    BY <2>12 DEF Flush
  <2>13. CASE ReadNothing(n)
    BY <2>13 DEF ReadNothing
  <2>14. CASE AddRequest(n)
    <3>1. PICK r \in unread : Enqueue(n, Rejection(r)) \/ Evict(n, Rejection(r))
                                \/ TurnAway(n, Rejection(r))
      BY <2>14 DEF AddRequest
    <3> DEFINE new == Rejection(r)
    <3>2. new \in Response
      BY RejectionType
    <3> HIDE DEF new
    <3>3. /\ queue' \in [Nodes -> SUBSET Response]
          /\ out' \in [Nodes -> SUBSET Response]
          /\ \A m \in Nodes : IsFiniteSet(queue'[m])
      <4>1. CASE Enqueue(n, new)
        BY <4>1, <3>2, FS_AddElement DEF Enqueue
      <4>2. CASE Evict(n, new)
        <5>1. PICK last \in queue[n] :
                /\ out' = [out EXCEPT ![n] = @ \cup {last}]
                /\ queue' = [queue EXCEPT ![n] = (@ \ {last}) \cup {new}]
          BY <4>2 DEF Evict
        <5>2. IsFiniteSet((queue[n] \ {last}) \cup {new})
          <6>1. IsFiniteSet(queue[n] \ {last})
            BY FS_RemoveElement
          <6> QED
            BY <6>1, FS_AddElement
        <5> QED
          BY <5>1, <5>2, <3>2
      <4>3. CASE TurnAway(n, new)
        BY <4>3, <3>2 DEF TurnAway
      <4> QED
        BY <3>1, <4>1, <4>2, <4>3 DEF new
    <3> QED
      BY <2>14, <3>3 DEF AddRequest
  <2> QED
    BY <1>3, <2>1, <2>2, <2>3, <2>4, <2>5, <2>6, <2>7, <2>8, <2>9, <2>10,
       <2>11, <2>12, <2>13, <2>14 DEF Step
<1> QED
  BY <1>1, <1>2, <1>3 DEF Next

-------------------------------------------------------------------------------
(* The window of one node: its summary covers what it has in flight.       *)

LEMMA WindowInit == Init => CountsOwn /\ RoomToBook /\ WindowHeld
  BY FS_EmptySet, LimitsAssumption DEF Init, CountsOwn, RoomToBook, WindowHeld

LEMMA WindowStep ==
  ASSUME Typed, Finite, CountsOwn, RoomToBook, WindowHeld, [Next]_vars
  PROVE  CountsOwn' /\ RoomToBook' /\ WindowHeld'
<1> USE DEF CountsOwn, RoomToBook, WindowHeld, Full, Goto, nodeVars
<1>1. \A n \in Nodes : Cardinality(infly[n]) \in Nat
  BY FS_CardinalityType DEF Finite
<1>2. CASE UNCHANGED vars
  BY <1>2 DEF vars
<1>3. CASE Tick
  BY <1>3 DEF Tick
<1>4. ASSUME NEW n \in Nodes, Step(n)
      PROVE  CountsOwn' /\ RoomToBook' /\ WindowHeld'
  <2>0. n \in Int /\ 0 <= n /\ n < NodesNumber /\ NodesNumber \in Int
    BY NodesAssumption DEF Nodes
  <2> USE DEF Typed
  <2>1. CASE StartSync(n)
    BY <2>0, <2>1 DEF StartSync
  <2>2. CASE SkipSync(n)
    BY <2>2 DEF SkipSync
  <2>3. CASE ReadSize(n)
    <3>1. at[n] \in Nodes /\ Cardinality(infly[at[n]]) \in Nat
      BY <1>1, <2>3, NodesFacts DEF ReadSize
    <3>2. (at[n] + 1 > n) => Cardinality(infly[n]) <= summary'[n]
      <4>1. CASE at[n] = n
        BY <1>1, <2>3, <3>1, <4>1 DEF ReadSize
      <4>2. CASE at[n] > n
        BY <1>1, <2>3, <3>1, <4>2 DEF ReadSize
      <4> QED
        BY <2>0, <4>1, <4>2
    <3> QED
      BY <2>3, <3>2 DEF ReadSize
  <2>4. CASE EndSync(n)
    BY <2>0, <2>4 DEF EndSync
  <2>5. CASE Return(n)
    BY <2>5 DEF Return
  <2>6. CASE Proceed(n)
    BY <2>6 DEF Proceed
  <2>7. CASE Expire(n)
    <3>1. PICK e \in Expired(n) : infly' = [infly EXCEPT ![n] = @ \ {e}]
      BY <2>7 DEF Expire
    <3>2. Cardinality(infly[n] \ {e}) \in Nat
          /\ Cardinality(infly[n] \ {e}) <= Cardinality(infly[n])
      BY OneLess DEF Finite
    <3>3. infly'[n] = infly[n] \ {e}
      BY <3>1
    <3>4. Cardinality(infly'[n]) <= Window
          /\ (Cardinality(infly[n]) <= summary[n] => Cardinality(infly'[n]) <= summary[n])
      BY <1>1, <3>2, <3>3, LimitsAssumption
    <3> QED
      BY <2>7, <3>1, <3>4 DEF Expire
  <2>8. CASE ExpireDone(n)
    BY <2>8 DEF ExpireDone
  <2>9. CASE Stamp(n)
    BY <2>9 DEF Stamp
  <2>10. CASE Book(n)
    <3>1. PICK x \in queue[n] :
            infly' = [infly EXCEPT ![n] =
                        @ \cup {[of |-> Admission(n, x), end |-> EndOfLife]}]
      BY <2>10 DEF Book
    <3> DEFINE new == [of |-> Admission(n, x), end |-> EndOfLife]
    <3>2. infly'[n] = infly[n] \cup {new}
      BY <3>1
    <3> HIDE DEF new
    <3>3. Cardinality(infly'[n]) \in Nat
          /\ Cardinality(infly'[n]) <= Cardinality(infly[n]) + 1
      BY <3>2, OneMore DEF Finite
    <3>4. Cardinality(infly[n]) <= summary[n] /\ summary[n] < Window
      BY <2>10, LimitsAssumption DEF Book
    <3>5. summary'[n] = summary[n] + 1
      BY <2>10 DEF Book
    <3>6. Cardinality(infly'[n]) <= Window /\ Cardinality(infly'[n]) <= summary'[n]
      BY <1>1, <3>3, <3>4, <3>5, LimitsAssumption
    <3> QED
      BY <2>10, <3>1, <3>6 DEF Book
  <2>11. CASE AdmitDone(n)
    BY <2>11 DEF AdmitDone
  <2>12. CASE Flush(n)
    BY <2>12 DEF Flush
  <2>13. CASE ReadNothing(n)
    BY <2>13 DEF ReadNothing
  <2>14. CASE AddRequest(n)
    BY <2>14 DEF AddRequest
  <2> QED
    BY <1>4, <2>1, <2>2, <2>3, <2>4, <2>5, <2>6, <2>7, <2>8, <2>9, <2>10,
       <2>11, <2>12, <2>13, <2>14 DEF Step
<1> QED
  BY <1>2, <1>3, <1>4 DEF Next

-------------------------------------------------------------------------------
(* A request is in one place, so that it is answered once.                 *)

LEMMA OnePlaceInit == Init => OnePlace
  BY DEF Init, OnePlace

\* Reading a request touches the queue of the reader only, and what comes in
\* is the request that has left unread.
LEMMA ReadRequest ==
  ASSUME Typed, NEW n \in Nodes, AddRequest(n)
  PROVE  \E r \in unread :
           /\ unread' = unread \ {r}
           /\ \/ Enqueue(n, Rejection(r))
              \/ Evict(n, Rejection(r))
              \/ TurnAway(n, Rejection(r))
           /\ Asked(Rejection(r)) = r
           /\ Rejection(r).allowed = FALSE
           /\ Rejection(r).retry = (Rejection(r).attempt < LastAttempt)
           /\ \A m \in Nodes \ {n} : queue'[m] = queue[m]
           /\ queue'[n] \subseteq queue[n] \cup {Rejection(r)}
<1>1. PICK r \in unread : /\ unread' = unread \ {r}
                          /\ \/ Enqueue(n, Rejection(r))
                             \/ Evict(n, Rejection(r))
                             \/ TurnAway(n, Rejection(r))
  BY DEF AddRequest
<1>2. /\ Asked(Rejection(r)) = r
      /\ Rejection(r).allowed = FALSE
      /\ Rejection(r).retry = (Rejection(r).attempt < LastAttempt)
  BY RejectionType DEF Typed
<1> DEFINE new == Rejection(r)
<1> HIDE DEF new
<1>3. /\ \A m \in Nodes \ {n} : queue'[m] = queue[m]
      /\ queue'[n] \subseteq queue[n] \cup {new}
  <2>1. CASE Enqueue(n, new)
    BY <2>1 DEF Enqueue, Typed
  <2>2. CASE Evict(n, new)
    BY <2>2 DEF Evict, Typed
  <2>3. CASE TurnAway(n, new)
    BY <2>3 DEF TurnAway, Typed
  <2> QED
    BY <1>1, <2>1, <2>2, <2>3 DEF new
<1> QED
  BY <1>1, <1>2, <1>3 DEF new

LEMMA OnePlaceStep ==
  ASSUME Typed, OnePlace, [Next]_vars
  PROVE  OnePlace'
<1>1. CASE UNCHANGED <<queue, unread>>
  BY <1>1 DEF OnePlace
<1>2. ASSUME NEW n \in Nodes, Book(n) PROVE OnePlace'
  <2>1. /\ unread' = unread
        /\ \A m \in Nodes : queue'[m] \subseteq queue[m]
    BY <1>2 DEF Book, Typed
  <2> QED
    BY <2>1 DEF OnePlace
<1>3. ASSUME NEW n \in Nodes, AddRequest(n) PROVE OnePlace'
  <2>1. PICK r \in unread :
           /\ unread' = unread \ {r}
           /\ Asked(Rejection(r)) = r
           /\ Rejection(r).allowed = FALSE
           /\ Rejection(r).retry = (Rejection(r).attempt < LastAttempt)
           /\ \A m \in Nodes \ {n} : queue'[m] = queue[m]
           /\ queue'[n] \subseteq queue[n] \cup {Rejection(r)}
    BY <1>3, ReadRequest
  <2> DEFINE new == Rejection(r)
  <2> HIDE DEF new
  <2>2. /\ Asked(new) = r /\ ~new.allowed
        /\ new.retry = (new.attempt < LastAttempt)
        /\ queue'[n] \subseteq queue[n] \cup {new}
    BY <2>1 DEF new
  <2>3. ASSUME NEW m \in Nodes \ {n}, NEW x \in queue'[m]
        PROVE  /\ Asked(x) \notin unread'
               /\ ~x.allowed /\ x.retry = (x.attempt < LastAttempt)
               /\ \A y \in queue'[m] : Asked(x) = Asked(y) => x = y
    BY <2>1 DEF OnePlace
  <2>4. ASSUME NEW x \in queue'[n]
        PROVE  /\ Asked(x) \notin unread'
               /\ ~x.allowed /\ x.retry = (x.attempt < LastAttempt)
               /\ \A y \in queue'[n] : Asked(x) = Asked(y) => x = y
    BY <2>1, <2>2 DEF OnePlace
  <2> QED
    BY <2>3, <2>4 DEF OnePlace
<1> QED
  BY <1>1, <1>2, <1>3
     DEF Next, vars, nodeVars, Tick, Step, StartSync, SkipSync, ReadSize, EndSync,
         Return, Proceed, Expire, ExpireDone, Stamp, AdmitDone, Flush, ReadNothing

-------------------------------------------------------------------------------
(* The rate of one node: an admission stays in the in-flight set for as    *)
(* long as its stamp is less than a life old.                              *)

LEMMA PastInit == Init => InFlightOrPast /\ RateHeld
<1> SUFFICES ASSUME Init PROVE InFlightOrPast /\ RateHeld
  OBVIOUS
<1>1. \A n \in Nodes : Answers(n) = {} /\ infly[n] = {} /\ stamp[n] = 0 /\ now = 0
  BY DEF Init, Answers
<1>2. \A n \in Nodes, t \in 0..MaxTime : Limit!InFlight(Answers(n), t) = {}
  BY <1>1 DEF Limit!InFlight
<1> QED
  BY <1>1, <1>2, FS_EmptySet, LimitsAssumption DEF InFlightOrPast, RateHeld

\* A set of admissions each of which some entry of S is for is no larger
\* than S.
LEMMA OfBound ==
  ASSUME NEW S, IsFiniteSet(S), NEW T, \A a \in T : \E e \in S : e.of = a
  PROVE  /\ IsFiniteSet(T)
         /\ Cardinality(T) \in Nat
         /\ Cardinality(T) <= Cardinality(S)
<1> DEFINE R == {e \in S : e.of \in T}
           f == [e \in R |-> e.of]
<1>1. /\ IsFiniteSet(R)
      /\ Cardinality(R) <= Cardinality(S)
  BY FS_Subset
<1>2. f \in Surjection(R, T)
  BY DEF Surjection
<1>3. IsFiniteSet(T) /\ Cardinality(T) <= Cardinality(R)
  BY <1>1, <1>2, FS_Surjection
<1>4. /\ Cardinality(T) \in Nat
      /\ Cardinality(R) \in Nat
      /\ Cardinality(S) \in Nat
  BY <1>1, <1>3, FS_CardinalityType
<1> QED
  BY <1>1, <1>3, <1>4

\* While a node books an admission, those that share an instant of their lives
\* with it are all still in its in-flight set, and leave room for one more.
LEMMA RoomInTheWindow ==
  ASSUME Typed, Finite, CountsOwn, RoomToBook, InFlightOrPast,
         NEW n \in Nodes, pc[n] = "book", NEW t \in Int, stamp[n] <= t
  PROVE  /\ IsFiniteSet(Limit!InFlight(Answers(n), t))
         /\ Cardinality(Limit!InFlight(Answers(n), t)) \in Nat
         /\ Cardinality(Limit!InFlight(Answers(n), t)) < Window
<1> DEFINE T == Limit!InFlight(Answers(n), t)
<1>1. \A a \in T : \E e \in infly[n] : e.of = a
  <2> SUFFICES ASSUME NEW a \in T PROVE \E e \in infly[n] : e.of = a
    OBVIOUS
  <2>1. a \in Answers(n) /\ a.allowed /\ t < a.ts + Life
    BY DEF Limit!InFlight
  <2>2. a.ts + Life \in Int /\ stamp[n] \in Int
    BY <2>1, LimitsAssumption DEF Typed, Answers, Response
  <2>3. ~(a.ts + Life <= stamp[n])
    BY <2>1, <2>2
  <2> QED
    BY <2>1, <2>3 DEF InFlightOrPast
<1>2. /\ IsFiniteSet(T)
      /\ Cardinality(T) \in Nat
      /\ Cardinality(T) <= Cardinality(infly[n])
  <2> HIDE DEF T
  <2> QED
    BY <1>1, OfBound DEF Finite
<1>3. Cardinality(infly[n]) <= summary[n] /\ summary[n] < Window
  BY LimitsAssumption DEF CountsOwn, RoomToBook, Full, Typed
<1>4. Cardinality(infly[n]) \in Nat /\ summary[n] \in Nat
  BY FS_CardinalityType DEF Finite, Typed
<1> QED
  BY <1>2, <1>3, <1>4, LimitsAssumption

LEMMA PastStep ==
  ASSUME Typed, OnePlace, InFlightOrPast, [Next]_vars
  PROVE  InFlightOrPast'
<1> USE LimitsAssumption DEF Goto, Answers
<1>0. /\ \A n \in Nodes : \A a \in Answers(n) : a.ts + Life \in Int
      /\ \A n \in Nodes : \A e \in infly[n] : e.of.ts + Life \in Int /\ e.end \in Int
      /\ now \in Int
      /\ \A n \in Nodes : stamp[n] \in Int
  BY DEF Typed, Response
<1>1. CASE UNCHANGED vars
  BY <1>1 DEF vars, nodeVars, InFlightOrPast
<1>2. CASE Tick
  BY <1>0, <1>2 DEF Tick, nodeVars, InFlightOrPast
<1>3. ASSUME NEW n \in Nodes, Step(n) PROVE InFlightOrPast'
  <2> SUFFICES ASSUME NEW m \in Nodes
               PROVE  /\ stamp'[m] <= now'
                      /\ \A e \in infly'[m] : e.of.ts + Life <= e.end
                      /\ \A a \in Answers(m)' : a.allowed =>
                           \/ \E e \in infly'[m] : e.of = a
                           \/ a.ts + Life <= (IF pc'[m] = "book" THEN stamp'[m] ELSE now')
    BY DEF InFlightOrPast
  <2>1. CASE /\ UNCHANGED <<now, infly, stamp, out, sent>>
             /\ pc[n] # "book"
             /\ \E p \in Pcs \ {"book"} : pc' = [pc EXCEPT ![n] = p]
    BY <1>0, <2>1 DEF InFlightOrPast, Typed
  <2>2. CASE ReadSize(n)
    BY <2>2 DEF ReadSize, InFlightOrPast
  <2>3. CASE Expire(n)
    <3>1. PICK e \in Expired(n) : infly' = [infly EXCEPT ![n] = @ \ {e}]
      BY <2>3 DEF Expire
    <3>2. e \in infly[n] /\ e.of.ts + Life <= now
      BY <1>0, <3>1 DEF Expired, InFlightOrPast
    <3>3. pc[n] = "expire" /\ UNCHANGED <<now, pc, stamp, out, sent>>
      BY <2>3 DEF Expire
    <3>4. CASE m = n
      BY <1>0, <3>1, <3>2, <3>3, <3>4 DEF InFlightOrPast, Typed
    <3>5. CASE m # n
      BY <1>0, <3>1, <3>3, <3>5 DEF InFlightOrPast, Typed
    <3> QED
      BY <3>4, <3>5
  <2>4. CASE Stamp(n)
    BY <1>0, <2>4 DEF Stamp, InFlightOrPast, Typed
  <2>5. CASE Book(n)
    <3>1. PICK x \in queue[n] :
            /\ out' = [out EXCEPT ![n] = @ \cup {Admission(n, x)}]
            /\ infly' = [infly EXCEPT ![n] =
                           @ \cup {[of |-> Admission(n, x), end |-> EndOfLife]}]
      BY <2>5 DEF Book
    <3> DEFINE a == Admission(n, x)
    <3>2. a.ts = stamp[n]
      BY AdmissionType DEF Typed
    <3> HIDE DEF a
    <3>3. /\ pc[n] = "book" /\ pc' = [pc EXCEPT ![n] = "admit"]
          /\ stamp' = [stamp EXCEPT ![n] = 0]
          /\ UNCHANGED <<now, sent>>
          /\ out' = [out EXCEPT ![n] = @ \cup {a}]
          /\ infly' = [infly EXCEPT ![n] = @ \cup {[of |-> a, end |-> now + Life]}]
      BY <2>5, <3>1 DEF Book, a, EndOfLife
    <3>4. CASE m = n
      <4>1. stamp'[n] <= now'
        BY <3>3 DEF Typed
      <4>2. \A e \in infly'[n] : e.of.ts + Life <= e.end
        BY <1>0, <3>2, <3>3 DEF InFlightOrPast, Typed
      <4>3. ASSUME NEW b \in Answers(n)', b.allowed
            PROVE  (\E e \in infly'[n] : e.of = b) \/ b.ts + Life <= now'
        <5>1. CASE b = a
          <6>1. [of |-> a, end |-> now + Life] \in infly'[n]
            BY <3>3 DEF Typed
          <6> QED
            BY <5>1, <6>1
        <5>2. CASE b \in Answers(n)
          <6>1. (\E e \in infly[n] : e.of = b) \/ b.ts + Life <= stamp[n]
            BY <3>3, <4>3, <5>2 DEF InFlightOrPast
          <6>2. stamp[n] <= now
            BY DEF InFlightOrPast
          <6> QED
            BY <1>0, <3>3, <5>2, <6>1, <6>2 DEF Typed
        <5> QED
          BY <3>3, <5>1, <5>2 DEF Typed
      <4> QED
        BY <3>3, <3>4, <4>1, <4>2, <4>3 DEF Typed
    <3>5. CASE m # n
      BY <1>0, <3>3, <3>5 DEF InFlightOrPast, Typed
    <3> QED
      BY <3>4, <3>5
  <2>6. CASE Flush(n)
    BY <1>0, <2>6 DEF Flush, InFlightOrPast, Typed
  <2>7. CASE AddRequest(n)
    <3>1. Answers(m)' \subseteq Answers(m) \cup {b \in out'[m] : ~b.allowed}
      <4>1. PICK r \in unread : /\ \/ Enqueue(n, Rejection(r))
                                   \/ Evict(n, Rejection(r))
                                   \/ TurnAway(n, Rejection(r))
                                /\ Rejection(r).allowed = FALSE
        BY <2>7, ReadRequest
      <4>2. \A q \in queue[n] : ~q.allowed
        BY DEF OnePlace
      <4>3. PICK b : ~b.allowed /\ (out' = out \/ out' = [out EXCEPT ![n] = @ \cup {b}])
        BY <4>1, <4>2 DEF Enqueue, Evict, TurnAway
      <4>4. sent' = sent
        BY <2>7 DEF AddRequest
      <4> QED
        BY <4>3, <4>4 DEF Typed
    <3>2. pc[n] = "read" /\ pc' = [pc EXCEPT ![n] = "update"] /\ UNCHANGED <<now, infly, stamp>>
      BY <2>7 DEF AddRequest
    <3> QED
      BY <1>0, <3>1, <3>2 DEF InFlightOrPast, Typed
  <2> QED
    BY <1>3, <2>1, <2>2, <2>3, <2>4, <2>5, <2>6, <2>7
       DEF Step, StartSync, SkipSync, EndSync, Return, Proceed, ExpireDone,
           AdmitDone, ReadNothing, Pcs, nodeVars
<1> QED
  BY <1>1, <1>2, <1>3 DEF Next

\* Only Book adds an admission to the answers.
LEMMA OnlyBookAdmits ==
  ASSUME Typed, OnePlace, NEW n \in Nodes, Step(n), ~Book(n), NEW m \in Nodes
  PROVE  \A t : Limit!InFlight(Answers(m), t)' = Limit!InFlight(Answers(m), t)
<1>1. CASE AddRequest(n)
  <2>1. PICK r \in unread : /\ \/ Enqueue(n, Rejection(r))
                               \/ Evict(n, Rejection(r))
                               \/ TurnAway(n, Rejection(r))
                            /\ Rejection(r).allowed = FALSE
    BY <1>1, ReadRequest
  <2>2. \A q \in queue[n] : ~q.allowed
    BY DEF OnePlace
  <2>3. PICK b : ~b.allowed /\ (out' = out \/ out' = [out EXCEPT ![n] = @ \cup {b}])
    BY <2>1, <2>2 DEF Enqueue, Evict, TurnAway
  <2>4. sent' = sent
    BY <1>1 DEF AddRequest
  <2>5. Answers(m)' = Answers(m) \/ Answers(m)' = Answers(m) \cup {b}
    BY <2>3, <2>4 DEF Answers, Typed
  <2> QED
    BY <2>3, <2>5 DEF Limit!InFlight
<1>2. CASE ~AddRequest(n)
  <2>1. Answers(m)' = Answers(m)
    BY <1>2 DEF Step, Answers, Typed, nodeVars, StartSync, SkipSync, ReadSize, EndSync,
                Return, Proceed, Expire, ExpireDone, Stamp, AdmitDone, Flush, ReadNothing
  <2> QED
    BY <2>1 DEF Limit!InFlight
<1> QED
  BY <1>1, <1>2

LEMMA RateStep ==
  ASSUME Typed, Finite, CountsOwn, RoomToBook, InFlightOrPast, OnePlace, RateHeld,
         [Next]_vars
  PROVE  RateHeld'
<1> SUFFICES ASSUME NEW m \in Nodes, NEW t \in 0..MaxTime
             PROVE  Cardinality(Limit!InFlight(Answers(m), t)') <= Window
  BY DEF RateHeld, Limit!InFlight
<1>1. CASE Limit!InFlight(Answers(m), t)' = Limit!InFlight(Answers(m), t)
  BY <1>1 DEF RateHeld
<1>2. ASSUME NEW n \in Nodes, Book(n)
      PROVE  Cardinality(Limit!InFlight(Answers(m), t)') <= Window
  <2>1. PICK x \in queue[n] : out' = [out EXCEPT ![n] = @ \cup {Admission(n, x)}]
    BY <1>2 DEF Book
  <2> DEFINE a == Admission(n, x)
             T == Limit!InFlight(Answers(m), t)
  <2>2. a.ts = stamp[n]
    BY AdmissionType DEF Typed
  <2> HIDE DEF a
  <2>3. Answers(m)' = IF m = n THEN Answers(m) \cup {a} ELSE Answers(m)
    BY <1>2, <2>1 DEF Answers, Book, Typed, a
  <2>4. CASE m = n /\ stamp[n] <= t
    <3>1. IsFiniteSet(T) /\ Cardinality(T) \in Nat /\ Cardinality(T) < Window
      BY <1>2, <2>4, RoomInTheWindow DEF Book, Goto
    <3>2. T' = T \/ T' = T \cup {a}
      BY <2>3, <2>4 DEF Limit!InFlight
    <3>3. Cardinality(T) <= Window /\ Cardinality(T \cup {a}) <= Window
      BY <3>1, OneMore, LimitsAssumption
    <3> QED
      BY <3>2, <3>3
  <2>5. CASE ~(m = n /\ stamp[n] <= t)
    <3>1. T' = T
      BY <2>2, <2>3, <2>5 DEF Limit!InFlight
    <3> QED
      BY <1>1, <3>1
  <2> QED
    BY <2>4, <2>5
<1>3. CASE UNCHANGED vars \/ Tick
  BY <1>1, <1>3 DEF vars, Tick, nodeVars, Answers, Limit!InFlight
<1>4. ASSUME NEW n \in Nodes, Step(n), ~Book(n)
      PROVE  Cardinality(Limit!InFlight(Answers(m), t)') <= Window
  BY <1>1, <1>4, OnlyBookAdmits
<1> QED
  BY <1>2, <1>3, <1>4 DEF Next

-------------------------------------------------------------------------------
(* The queue.                                                              *)

LEMMA QueueInit == Init => QueueBounded
  BY FS_EmptySet, LimitsAssumption DEF Init, QueueBounded

LEMMA QueueStep ==
  ASSUME Typed, Finite, QueueBounded, [Next]_vars
  PROVE  QueueBounded'
<1>0. \A n \in Nodes : IsFiniteSet(queue[n]) /\ Cardinality(queue[n]) \in Nat
  BY FS_CardinalityType DEF Finite
<1>1. CASE UNCHANGED queue
  BY <1>1 DEF QueueBounded
<1>2. ASSUME NEW n \in Nodes, Book(n) PROVE QueueBounded'
  <2>1. PICK x : queue' = [queue EXCEPT ![n] = @ \ {x}]
    BY <1>2 DEF Book
  <2>2. /\ Cardinality(queue[n] \ {x}) \in Nat
        /\ Cardinality(queue[n] \ {x}) <= Cardinality(queue[n])
    BY <1>0, OneLess
  <2> QED
    BY <1>0, <2>1, <2>2, LimitsAssumption DEF QueueBounded, Typed
<1>3. ASSUME NEW n \in Nodes, NEW new, Enqueue(n, new) PROVE QueueBounded'
  <2>1. /\ Cardinality(queue[n] \cup {new}) \in Nat
        /\ Cardinality(queue[n] \cup {new}) <= Cardinality(queue[n]) + 1
    BY <1>0, OneMore
  <2>2. Cardinality(queue[n]) <= QueueCap
    BY <1>0, <1>3, LimitsAssumption DEF Enqueue, QueueFull
  <2>3. queue' = [queue EXCEPT ![n] = @ \cup {new}]
    BY <1>3 DEF Enqueue
  <2>4. Cardinality(queue[n] \cup {new}) <= QueueCap + 1
    BY <1>0, <2>1, <2>2, LimitsAssumption
  <2> QED
    BY <2>3, <2>4 DEF QueueBounded, Typed
<1>4. ASSUME NEW n \in Nodes, NEW new, Evict(n, new) PROVE QueueBounded'
  <2>1. PICK last \in queue[n] : queue' = [queue EXCEPT ![n] = (@ \ {last}) \cup {new}]
    BY <1>4 DEF Evict
  <2> DEFINE Kept == queue[n] \ {last}
  <2>2. IsFiniteSet(Kept) /\ Cardinality(Kept) = Cardinality(queue[n]) - 1
    BY <1>0, OneLess
  <2> HIDE DEF Kept
  <2>3. /\ Cardinality(Kept \cup {new}) \in Nat
        /\ Cardinality(Kept \cup {new}) <= Cardinality(Kept) + 1
    BY <2>2, OneMore
  <2>4. Cardinality(Kept \cup {new}) <= Cardinality(queue[n])
    BY <1>0, <2>2, <2>3
  <2>5. Cardinality(Kept \cup {new}) <= QueueCap + 1
    BY <1>0, <2>3, <2>4, LimitsAssumption DEF QueueBounded
  <2> QED
    BY <2>1, <2>5 DEF QueueBounded, Typed, Kept
<1>5. ASSUME NEW n \in Nodes, AddRequest(n) PROVE QueueBounded'
  <2>1. PICK r \in unread : \/ Enqueue(n, Rejection(r))
                            \/ Evict(n, Rejection(r))
                            \/ TurnAway(n, Rejection(r))
    BY <1>5 DEF AddRequest
  <2>2. CASE Enqueue(n, Rejection(r))
    BY <1>3, <2>2
  <2>3. CASE Evict(n, Rejection(r))
    BY <1>4, <2>3
  <2>4. CASE TurnAway(n, Rejection(r))
    BY <1>1, <2>4 DEF TurnAway
  <2> QED
    BY <2>1, <2>2, <2>3, <2>4
<1> QED
  BY <1>1, <1>2, <1>5
     DEF Next, vars, nodeVars, Tick, Step, StartSync, SkipSync, ReadSize, EndSync,
         Return, Proceed, Expire, ExpireDone, Stamp, AdmitDone, Flush, ReadNothing

-------------------------------------------------------------------------------
(* The nodes implement the abstract limiter.                               *)

\* The instance counts with the same Cardinality.
LEMMA SameCardinality == ASSUME NEW S PROVE Limit!Cardinality(S) = Cardinality(S)
  BY DEF Limit!Cardinality, Cardinality

LEMMA LimiterInit == Init => Limit!Init
  BY DEF Init, Limit!Init, Answers

\* Dropping one response from a queue drops the request it is for from the
\* requests that wait.
LEMMA WaitingLess ==
  ASSUME OnePlace, NEW n \in Nodes, NEW x \in queue[n]
  PROVE  {Asked(q) : q \in queue[n] \ {x}} = {Asked(q) : q \in queue[n]} \ {Asked(x)}
  BY DEF OnePlace

LEMMA BookAdmits ==
  ASSUME Typed, Finite, CountsOwn, RoomToBook, InFlightOrPast, OnePlace,
         NEW n \in Nodes, Book(n)
  PROVE  Limit!Admit(n)
<1>1. PICK x \in queue[n] :
        /\ out' = [out EXCEPT ![n] = @ \cup {Admission(n, x)}]
        /\ queue' = [queue EXCEPT ![n] = @ \ {x}]
  BY DEF Book
<1> DEFINE a == Admission(n, x)
           r == Asked(x)
           W == [m \in Nodes |-> {Asked(q) : q \in queue[m]}]
           A == [m \in Nodes |-> Answers(m)]
<1>2. a.ts = stamp[n] /\ a.allowed /\ ~a.retry /\ a.id = r.id /\ a.attempt = r.attempt
  <2>1. a.retry = FALSE
    BY DEF Admission, Typed, Response
  <2>2. x \in Response
    BY DEF Typed
  <2>3. Asked(a) = Asked(x)
    BY <2>2, AdmissionType DEF Typed
  <2> QED
    BY <2>1, <2>2, <2>3, AdmissionType DEF Typed, Asked
<1>3. r \in W[n]
  OBVIOUS
<1>4. W' = [W EXCEPT ![n] = @ \ {r}]
  BY <1>1, WaitingLess DEF Typed
<1>5. A' = [A EXCEPT ![n] = @ \cup {a}]
  BY <1>1 DEF Answers, Book, Typed
<1>6. Cardinality(Limit!InFlight(A[n], a.ts)) < Window
  <2>1. pc[n] = "book" /\ stamp[n] \in Int /\ stamp[n] <= stamp[n]
    BY DEF Book, Goto, Typed
  <2>2. A[n] = Answers(n)
    OBVIOUS
  <2> QED
    BY <1>2, <2>1, <2>2, RoomInTheWindow
<1>7. unread' = unread
  BY DEF Book
<1>8. a \in A'[n]
  BY <1>5 DEF Answers
<1>9. \E b \in A'[n] :
        /\ Limit!Admits(b, r)
        /\ Cardinality(Limit!InFlight(A[n], b.ts)) < Window
        /\ A' = [A EXCEPT ![n] = @ \cup {b}]
  <2> HIDE DEF a, r, A
  <2> QED
    BY <1>2, <1>5, <1>6, <1>8 DEF Limit!Admits
<1>10. \E s \in W[n] :
         /\ W' = [W EXCEPT ![n] = @ \ {s}]
         /\ \E b \in A'[n] :
              /\ Limit!Admits(b, s)
              /\ Cardinality(Limit!InFlight(A[n], b.ts)) < Window
              /\ A' = [A EXCEPT ![n] = @ \cup {b}]
  <2> HIDE DEF r, W, A
  <2> QED
    BY <1>3, <1>4, <1>9
<1> QED
  BY <1>7, <1>10, SameCardinality DEF Limit!Admit

LEMMA AddRequestTakes ==
  ASSUME Typed, OnePlace, NEW n \in Nodes, AddRequest(n)
  PROVE  \E r \in unread : Limit!Take(n, r) \/ Limit!TakeAndReject(n, r)
<1>1. PICK r \in unread :
        /\ unread' = unread \ {r}
        /\ \/ Enqueue(n, Rejection(r))
           \/ Evict(n, Rejection(r))
           \/ TurnAway(n, Rejection(r))
        /\ Asked(Rejection(r)) = r
        /\ Rejection(r).allowed = FALSE
        /\ Rejection(r).retry = (Rejection(r).attempt < LastAttempt)
  BY ReadRequest
<1> DEFINE new == Rejection(r)
           W == [m \in Nodes |-> {Asked(q) : q \in queue[m]}]
           A == [m \in Nodes |-> Answers(m)]
<1>2. Asked(new) = r /\ ~new.allowed /\ new.retry = (new.attempt < LastAttempt)
  BY <1>1
<1> HIDE DEF new
<1>3. sent' = sent
  BY DEF AddRequest
<1>4. CASE Enqueue(n, new)
  <2>1. queue' = [queue EXCEPT ![n] = @ \cup {new}] /\ out' = out
    BY <1>4 DEF Enqueue
  <2>2. W' = [W EXCEPT ![n] = @ \cup {r}]
    BY <1>2, <2>1 DEF Typed
  <2>3. A' = A
    BY <1>3, <2>1 DEF Answers
  <2> QED
    BY <1>1, <2>2, <2>3 DEF Limit!Take
<1>5. ASSUME NEW b, out' = [out EXCEPT ![n] = @ \cup {b}],
             ~b.allowed, b.retry = (b.attempt < LastAttempt),
             Asked(b) \in W[n] \cup {r},
             W' = [W EXCEPT ![n] = (@ \cup {r}) \ {Asked(b)}]
      PROVE  Limit!TakeAndReject(n, r)
  <2>1. A' = [A EXCEPT ![n] = @ \cup {b}]
    BY <1>3, <1>5 DEF Answers, Typed
  <2>2. b \in A'[n]
    BY <2>1 DEF Answers
  <2>3. /\ b.id = Asked(b).id /\ b.attempt = Asked(b).attempt
        /\ ~b.allowed /\ b.retry = (Asked(b).attempt < LastAttempt)
    BY <1>5 DEF Asked
  <2> QED
    BY <1>1, <1>5, <2>1, <2>2, <2>3 DEF Limit!TakeAndReject, Limit!Rejects, Limit!LastAttempt
<1>6. CASE Evict(n, new)
  <2>1. PICK last \in queue[n] :
          /\ out' = [out EXCEPT ![n] = @ \cup {last}]
          /\ queue' = [queue EXCEPT ![n] = (@ \ {last}) \cup {new}]
    BY <1>6 DEF Evict
  <2>2. /\ ~last.allowed /\ last.retry = (last.attempt < LastAttempt)
        /\ Asked(last) # r
    BY <1>1 DEF OnePlace
  <2>3. {Asked(q) : q \in queue'[n]} = ({Asked(q) : q \in queue[n]} \cup {r}) \ {Asked(last)}
    <3>1. {Asked(q) : q \in queue[n] \ {last}} = {Asked(q) : q \in queue[n]} \ {Asked(last)}
      BY WaitingLess
    <3>2. queue'[n] = (queue[n] \ {last}) \cup {new}
      BY <2>1 DEF Typed
    <3> QED
      BY <1>2, <2>2, <3>1, <3>2
  <2>4. W' = [W EXCEPT ![n] = (@ \cup {r}) \ {Asked(last)}]
    BY <2>1, <2>3 DEF Typed
  <2> QED
    BY <1>5, <2>1, <2>2, <2>4
<1>7. CASE TurnAway(n, new)
  <2>1. out' = [out EXCEPT ![n] = @ \cup {new}] /\ queue' = queue
    BY <1>7 DEF TurnAway
  <2>2. r \notin W[n]
    BY <1>1 DEF OnePlace
  <2>3. W' = [W EXCEPT ![n] = (@ \cup {r}) \ {Asked(new)}]
    BY <1>2, <2>1, <2>2
  <2> QED
    BY <1>2, <1>5, <2>1, <2>3
<1> QED
  BY <1>1, <1>4, <1>6, <1>7 DEF new

LEMMA LimiterStep ==
  ASSUME Typed, Finite, CountsOwn, RoomToBook, InFlightOrPast, OnePlace,
         [Next]_vars
  PROVE  [Limit!Next]_(Limit!vars)
<1>1. CASE UNCHANGED <<queue, unread>> /\ \A n \in Nodes : Answers(n)' = Answers(n)
  BY <1>1 DEF Limit!vars
<1>2. ASSUME NEW n \in Nodes, Book(n) PROVE Limit!Next
  BY <1>2, BookAdmits DEF Limit!Next
<1>3. ASSUME NEW n \in Nodes, AddRequest(n) PROVE Limit!Next
  BY <1>3, AddRequestTakes DEF Limit!Next
<1>4. CASE UNCHANGED vars \/ Tick
  BY <1>1, <1>4 DEF vars, Tick, nodeVars, Answers
<1>5. ASSUME NEW n \in Nodes, Step(n), ~Book(n), ~AddRequest(n)
      PROVE  [Limit!Next]_(Limit!vars)
  <2>1. UNCHANGED <<queue, unread>>
    BY <1>5 DEF nodeVars, Step, StartSync, SkipSync, ReadSize, EndSync, Return, Proceed,
                Expire, ExpireDone, Stamp, AdmitDone, Flush, ReadNothing
  <2>2. \A m \in Nodes : Answers(m)' = Answers(m)
    BY <1>5 DEF nodeVars, Step, StartSync, SkipSync, ReadSize, EndSync, Return, Proceed,
                Expire, ExpireDone, Stamp, AdmitDone, Flush, ReadNothing, Answers, Typed
  <2> QED
    BY <1>1, <2>1, <2>2
<1> QED
  BY <1>2, <1>3, <1>4, <1>5 DEF Next

-------------------------------------------------------------------------------
(* The order of the queue.                                                 *)

LEMMA RetryOrderStep == Typed /\ OnePlace /\ [Next]_vars => [KeepsRetryOrder]_vars
<1> SUFFICES ASSUME Typed, OnePlace, [Next]_vars, ~UNCHANGED vars PROVE KeepsRetryOrder
  OBVIOUS
<1>0. \A n \in Nodes : \A q \in queue[n] : q.attempt \in Int
  BY DEF Typed, Response
<1>1. CASE \A n \in Nodes : Answers(n)' = Answers(n)
  BY <1>1 DEF KeepsRetryOrder
<1>2. ASSUME NEW n \in Nodes, Book(n) PROVE KeepsRetryOrder
  <2>1. PICK x \in queue[n] :
          /\ IsFirst(x, queue[n])
          /\ out' = [out EXCEPT ![n] = @ \cup {Admission(n, x)}]
          /\ queue' = [queue EXCEPT ![n] = @ \ {x}]
    BY <1>2 DEF Book
  <2> DEFINE a == Admission(n, x)
  <2>2. a.allowed = TRUE /\ a.attempt = x.attempt
    BY AdmissionType DEF Typed
  <2> HIDE DEF a
  <2>3. \A m \in Nodes : Answers(m)' = IF m = n THEN Answers(m) \cup {a} ELSE Answers(m)
    BY <1>2, <2>1 DEF Answers, Book, Typed, a
  <2>4. \A q \in queue'[n] : q \in queue[n] /\ x.attempt >= q.attempt
    BY <1>0, <2>1 DEF IsFirst, Before, Typed
  <2> QED
    BY <2>2, <2>3, <2>4 DEF KeepsRetryOrder
<1>3. ASSUME NEW n \in Nodes, AddRequest(n) PROVE KeepsRetryOrder
  <2>1. PICK r \in unread : /\ \/ Enqueue(n, Rejection(r))
                               \/ Evict(n, Rejection(r))
                               \/ TurnAway(n, Rejection(r))
                            /\ Rejection(r) \in Response
    BY <1>3, ReadRequest, RejectionType DEF Typed, AddRequest
  <2> DEFINE new == Rejection(r)
  <2> HIDE DEF new
  <2>2. new.attempt \in Int /\ sent' = sent
    BY <1>3, <2>1 DEF new, Response, AddRequest
  <2>3. CASE Enqueue(n, new)
    BY <1>1, <2>2, <2>3 DEF Enqueue, Answers
  <2>4. CASE Evict(n, new)
    <3>1. PICK last \in queue[n] :
            /\ IsLast(last, queue[n])
            /\ Before(new, last)
            /\ out' = [out EXCEPT ![n] = @ \cup {last}]
            /\ queue' = [queue EXCEPT ![n] = (@ \ {last}) \cup {new}]
      BY <2>4 DEF Evict
    <3>2. \A m \in Nodes : Answers(m)' \ Answers(m) \subseteq IF m = n THEN {last} ELSE {}
      BY <2>2, <3>1 DEF Answers, Typed
    <3>3. \A q \in queue'[n] : last.attempt <= q.attempt
      BY <1>0, <2>2, <3>1 DEF IsLast, Before, Typed
    <3>4. \A m \in Nodes : \A b \in Answers(m)' \ Answers(m) : m = n /\ b = last
      BY <3>2
    <3>5. ~last.allowed
      BY DEF OnePlace
    <3> QED
      BY <3>3, <3>4, <3>5 DEF KeepsRetryOrder
  <2>5. CASE TurnAway(n, new)
    <3>1. PICK last \in queue[n] : IsLast(last, queue[n]) /\ ~Before(new, last)
      BY <2>5 DEF TurnAway
    <3>2. out' = [out EXCEPT ![n] = @ \cup {new}] /\ queue' = queue
      BY <2>5 DEF TurnAway
    <3>3. \A m \in Nodes : \A b \in Answers(m)' \ Answers(m) : m = n /\ b = new
      BY <2>2, <3>2 DEF Answers, Typed
    <3>4. \A q \in queue'[n] : new.attempt <= q.attempt
      BY <1>0, <2>2, <3>1, <3>2 DEF IsLast, Before
    <3>5. ~new.allowed
      BY RejectionType DEF new, Typed
    <3> QED
      BY <3>3, <3>4, <3>5 DEF KeepsRetryOrder
  <2> QED
    BY <2>1, <2>3, <2>4, <2>5 DEF new
<1> QED
  <2>1. ASSUME NEW n \in Nodes, Step(n), ~Book(n), ~AddRequest(n)
        PROVE  \A m \in Nodes : Answers(m)' = Answers(m)
    BY <2>1 DEF nodeVars, Step, StartSync, SkipSync, ReadSize, EndSync, Return, Proceed,
                Expire, ExpireDone, Stamp, AdmitDone, Flush, ReadNothing, Answers, Typed
  <2>2. CASE Tick
    BY <1>1, <2>2 DEF Tick, nodeVars, Answers
  <2> QED
    BY <1>1, <1>2, <1>3, <2>1, <2>2 DEF Next

-------------------------------------------------------------------------------
(* All nodes together.                                                     *)

\* The admissions of the first k nodes that are in flight at time t
FlyingOf(k, t) ==
  UNION {{<<n, a>> : a \in Limit!InFlight(Answers(n), t)} : n \in 0..(k - 1)}

\* A window for each node is all that bounds the whole server: nodes whose sums
\* are stale may fill their windows at the same time.
TotalHeld == \A t \in 0..MaxTime :
  /\ IsFiniteSet(FlyingOf(NodesNumber, t))
  /\ Cardinality(FlyingOf(NodesNumber, t)) <= NodesNumber * Window

FiniteAnswers == \A n \in Nodes : IsFiniteSet(Answers(n))

LEMMA FiniteAnswersStep ==
  ASSUME Typed, FiniteAnswers, [Next]_vars
  PROVE  FiniteAnswers'
<1>1. ASSUME NEW n \in Nodes, NEW b, sent' = sent, out' = [out EXCEPT ![n] = @ \cup {b}]
      PROVE  FiniteAnswers'
  <2>1. \A m \in Nodes : Answers(m)' = Answers(m) \/ Answers(m)' = Answers(m) \cup {b}
    BY <1>1 DEF Answers, Typed
  <2>2. \A m \in Nodes : IsFiniteSet(Answers(m)')
    BY <2>1, FS_AddElement DEF FiniteAnswers
  <2> QED
    BY <2>2 DEF FiniteAnswers
<1>2. CASE \A m \in Nodes : Answers(m)' = Answers(m)
  BY <1>2 DEF FiniteAnswers
<1>3. ASSUME NEW n \in Nodes, Book(n) PROVE FiniteAnswers'
  <2>1. PICK x \in queue[n] : out' = [out EXCEPT ![n] = @ \cup {Admission(n, x)}]
    BY <1>3 DEF Book
  <2> QED
    BY <1>1, <1>3, <2>1 DEF Book
<1>4. ASSUME NEW n \in Nodes, AddRequest(n) PROVE FiniteAnswers'
  <2>1. PICK r \in unread : \/ Enqueue(n, Rejection(r))
                            \/ Evict(n, Rejection(r))
                            \/ TurnAway(n, Rejection(r))
    BY <1>4 DEF AddRequest
  <2>2. sent' = sent
    BY <1>4 DEF AddRequest
  <2>3. CASE out' = out
    BY <1>2, <2>2, <2>3 DEF Answers
  <2>4. out' = out \/ \E b : out' = [out EXCEPT ![n] = @ \cup {b}]
    BY <2>1 DEF Enqueue, Evict, TurnAway
  <2> QED
    BY <1>1, <2>2, <2>3, <2>4
<1>5. ASSUME NEW n \in Nodes, Step(n), ~Book(n), ~AddRequest(n) PROVE FiniteAnswers'
  BY <1>2, <1>5 DEF nodeVars, Step, StartSync, SkipSync, ReadSize, EndSync, Return, Proceed,
                    Expire, ExpireDone, Stamp, AdmitDone, Flush, ReadNothing, Answers, Typed
<1>6. CASE Tick \/ UNCHANGED vars
  BY <1>2, <1>6 DEF Tick, vars, nodeVars, Answers
<1> QED
  BY <1>3, <1>4, <1>5, <1>6 DEF Next

\* One more node adds at most a window.
LEMMA TotalGrows ==
  ASSUME RateHeld, FiniteAnswers, NEW t \in 0..MaxTime, NEW k \in Nodes,
         IsFiniteSet(FlyingOf(k, t)), Cardinality(FlyingOf(k, t)) <= k * Window
  PROVE  /\ IsFiniteSet(FlyingOf(k + 1, t))
         /\ Cardinality(FlyingOf(k + 1, t)) <= (k + 1) * Window
<1> DEFINE T == Limit!InFlight(Answers(k), t)
           P == {<<k, a>> : a \in T}
           f == [a \in T |-> <<k, a>>]
           old == FlyingOf(k, t)
<1>1. IsFiniteSet(T) /\ Cardinality(T) \in Nat /\ Cardinality(T) <= Window
  <2>1. IsFiniteSet(Answers(k)) /\ T \subseteq Answers(k)
    BY DEF FiniteAnswers, Limit!InFlight
  <2> HIDE DEF T
  <2>2. IsFiniteSet(T)
    BY <2>1, FS_Subset
  <2> QED
    BY <2>2, FS_CardinalityType DEF RateHeld, T
<1>2. f \in Surjection(T, P)
  <2> HIDE DEF T
  <2> QED
    BY DEF Surjection
<1>3. IsFiniteSet(P) /\ Cardinality(P) <= Cardinality(T)
  <2> HIDE DEF T, P, f
  <2> QED
    BY <1>1, <1>2, FS_Surjection
<1>4. FlyingOf(k + 1, t) = old \cup P
  <2>1. k \in Nat /\ 0..(k + 1 - 1) = (0..(k - 1)) \cup {k}
    BY NodesAssumption DEF Nodes
  <2> QED
    BY <2>1 DEF FlyingOf
<1> HIDE DEF P, T, old
<1>5. IsFiniteSet(old) /\ Cardinality(old) <= k * Window
  BY DEF old
<1>6. /\ IsFiniteSet(old \cup P)
      /\ Cardinality(old \cup P) = Cardinality(old) + Cardinality(P) - Cardinality(old \cap P)
  BY <1>3, <1>5, FS_Union
<1>7. IsFiniteSet(old \cap P)
  BY <1>5, FS_Subset
<1>8. /\ Cardinality(old) \in Nat /\ Cardinality(P) \in Nat /\ Cardinality(old \cap P) \in Nat
      /\ k \in Nat /\ Window \in Nat
  BY <1>3, <1>5, <1>7, FS_CardinalityType, NodesAssumption, LimitsAssumption DEF Nodes
<1>9. k * Window \in Nat /\ (k + 1) * Window = k * Window + Window
  BY <1>8
<1>10. Cardinality(old \cup P) <= (k + 1) * Window
  BY <1>1, <1>3, <1>5, <1>6, <1>8, <1>9
<1> QED
  BY <1>4, <1>6, <1>10

\* By the smallest number of nodes that would exceed its windows.
LEMMA TotalHolds == RateHeld /\ FiniteAnswers => TotalHeld
<1> SUFFICES ASSUME RateHeld, FiniteAnswers, NEW t \in 0..MaxTime
             PROVE  /\ IsFiniteSet(FlyingOf(NodesNumber, t))
                    /\ Cardinality(FlyingOf(NodesNumber, t)) <= NodesNumber * Window
  BY DEF TotalHeld
<1> DEFINE Held(k) == IsFiniteSet(FlyingOf(k, t)) /\ Cardinality(FlyingOf(k, t)) <= k * Window
           Bad == {k \in 0..NodesNumber : ~Held(k)}
<1>1. Held(0)
  <2>1. 0..(0 - 1) = {}
    OBVIOUS
  <2>2. FlyingOf(0, t) = {} /\ 0 * Window = 0
    BY <2>1, LimitsAssumption DEF FlyingOf
  <2> QED
    BY <2>2, FS_EmptySet
<1>2. \A k \in Nodes : Held(k) => Held(k + 1)
  BY TotalGrows
<1> HIDE DEF Held
<1>3. Bad = {}
  <2> SUFFICES ASSUME Bad # {} PROVE FALSE
    OBVIOUS
  <2>1. Bad \subseteq Nat
    BY NodesAssumption
  <2>2. \E x \in Bad : \A y \in Bad : ~(<<y, x>> \in OpToRel(<, Nat))
    <3> HIDE DEF Bad
    <3> QED
      BY <2>1, NatLessThanWellFounded, WFMin
  <2>3. PICK x \in Bad : \A y \in Bad : ~(<<y, x>> \in OpToRel(<, Nat))
    BY <2>2
  <2>4. \A y \in Bad : ~(y < x)
    BY <2>1, <2>3 DEF OpToRel
  <2>5. x \in 0..NodesNumber /\ ~Held(x)
    OBVIOUS
  <2>6. x # 0
    BY <1>1, <2>5
  <2>7. x - 1 \in Nodes /\ x - 1 \in 0..NodesNumber /\ x - 1 < x /\ x - 1 + 1 = x
    BY <2>5, <2>6, NodesAssumption DEF Nodes
  <2>8. Held(x - 1)
    BY <2>4, <2>7
  <2> QED
    BY <1>2, <2>5, <2>7, <2>8
<1> QED
  BY <1>3, NodesAssumption DEF Held

-------------------------------------------------------------------------------
(* The theorems.                                                           *)

LEMMA Invariance == Spec => []IInv
<1>1. Init => IInv
  BY TypeInit, WindowInit, PastInit, QueueInit, OnePlaceInit DEF IInv
<1>2. IInv /\ [Next]_vars => IInv'
  BY TypeStep, WindowStep, PastStep, RateStep, QueueStep, OnePlaceStep DEF IInv
<1> QED
  BY <1>1, <1>2, PTL DEF Spec

\* Every variable of the nodes keeps its type, and the queue of a node never
\* holds more than one response above the cap.
THEOREM TypeCorrect == Spec => []TypeOK
<1>1. IInv => TypeOK
  BY DEF IInv, TypeOK
<1> QED
  BY <1>1, Invariance, PTL

\* No node ever has more requests in flight than the window, however the sums
\* of sizes interleave with the admissions of the other nodes.
THEOREM WindowCorrect == Spec => []WindowHeld
<1>1. IInv => WindowHeld
  BY DEF IInv
<1> QED
  BY <1>1, Invariance, PTL

\* No node ever stamps more admissions within one life than the window.
THEOREM RateCorrect == Spec => []RateHeld
<1>1. IInv => RateHeld
  BY DEF IInv
<1> QED
  BY <1>1, Invariance, PTL

\* The server as a whole never has more than NodesNumber windows of admissions
\* in flight, however stale the sums are by which the nodes admit; with one
\* stale sum each they may come that far.
THEOREM TotalCorrect == Spec => []TotalHeld
<1>1. Init => FiniteAnswers
  BY FS_EmptySet DEF Init, FiniteAnswers, Answers
<1>2. IInv /\ FiniteAnswers /\ [Next]_vars => FiniteAnswers'
  BY FiniteAnswersStep DEF IInv
<1>3. IInv /\ FiniteAnswers => TotalHeld
  BY TotalHolds DEF IInv
<1> QED
  BY <1>1, <1>2, <1>3, Invariance, PTL DEF Spec

\* Every request the nodes read is answered exactly once, by an admission that
\* finds room in the window of its node or by a rejection with the right retry
\* flag: the nodes refine the abstract limiter.
THEOREM LimiterCorrect == Spec => ImplementsLimiter
<1>1. Init => Limit!Init
  BY LimiterInit
<1>2. IInv /\ [Next]_vars => [Limit!Next]_(Limit!vars)
  BY LimiterStep DEF IInv
<1> QED
  BY <1>1, <1>2, Invariance, PTL DEF Spec, ImplementsLimiter, Limit!Spec

\* Retries go first: no admission overtakes a later attempt, and no rejection
\* spares an earlier one.
THEOREM RetriesFirstCorrect == Spec => RetriesFirst
<1>1. IInv /\ [Next]_vars => [KeepsRetryOrder]_vars
  BY RetryOrderStep DEF IInv
<1> QED
  BY <1>1, Invariance, PTL DEF Spec, RetriesFirst

===============================================================================
