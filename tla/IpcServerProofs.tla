--------------------------- MODULE IpcServerProofs ---------------------------
(***************************************************************************)
(* What IpcServer.tla promises, for any number of clients, places and      *)
(* goroutines: the types, that places are counted, and that an answer is   *)
(* the one of its request.                                                 *)
(***************************************************************************)
EXTENDS IpcServer, FiniteSetTheorems, TLAPS

Conn == [pc : {"closed", "queued", "reading", "serving", "writing"},
         id : 0..MaxHandlers, answer : 0..MaxHandlers]

\* A connection that waits has a goroutine to wait for.
ServingHasId == \A c \in Clients : conn[c].pc = "serving" => conn[c].id \in Ids

IInv == TypeOK /\ PlacesAreCounted /\ ServingHasId /\ AnswerIsOfTheRequest

HandledClients == {c \in Clients : Handled(c)}

\* A connection that ends gives its place back.
LEMMA PlaceReturned ==
  ASSUME IInv, NEW c \in Clients, Handled(c), Close(c)
  PROVE  /\ PlacesAreCounted' /\ tokens' \in Nat
         /\ conn' = [conn EXCEPT ![c] = Closed] /\ UNCHANGED <<phase, listening, handler>>
<1>1. conn' = [conn EXCEPT ![c] = Closed] /\ tokens' = tokens - 1 /\ UNCHANGED <<phase, listening, handler>>
  BY DEF Close
<1>2. HandledClients' = HandledClients \ {c}
  BY <1>1 DEF HandledClients, Handled, Closed, IInv, TypeOK
<1>3. IsFiniteSet(HandledClients) /\ c \in HandledClients
  BY FS_Subset, IpcServerAssumption DEF HandledClients
<1>4. Cardinality(HandledClients') = Cardinality(HandledClients) - 1 /\ Cardinality(HandledClients) \in Nat \ {0}
  BY <1>2, <1>3, FS_RemoveElement, FS_CardinalityType, FS_EmptySet
<1>5. tokens = Cardinality(HandledClients) /\ tokens <= MaxActive
  BY DEF IInv, PlacesAreCounted, HandledClients
<1> QED BY <1>1, <1>4, <1>5, IpcServerAssumption DEF PlacesAreCounted, HandledClients

\* A connection that is accepted takes a place.
LEMMA PlaceTaken ==
  ASSUME IInv, NEW c \in Clients, conn[c].pc = "queued", tokens < MaxActive, tokens' = tokens + 1,
         conn' = [conn EXCEPT ![c].pc = "reading"]
  PROVE  PlacesAreCounted' /\ tokens' \in Nat
<1>1. HandledClients' = HandledClients \cup {c} /\ c \notin HandledClients
  BY DEF HandledClients, Handled, IInv, TypeOK
<1>2. IsFiniteSet(HandledClients)
  BY FS_Subset, IpcServerAssumption DEF HandledClients
<1>3. Cardinality(HandledClients') = Cardinality(HandledClients) + 1 /\ Cardinality(HandledClients) \in Nat
  BY <1>1, <1>2, FS_AddElement, FS_CardinalityType
<1>4. tokens = Cardinality(HandledClients)
  BY DEF IInv, PlacesAreCounted, HandledClients
<1> QED BY <1>3, <1>4, IpcServerAssumption DEF PlacesAreCounted, HandledClients

\* The handled connections, and with them the places, stay the same.
LEMMA PlacesSame ==
  ASSUME IInv, UNCHANGED tokens, \A c \in Clients : Handled(c)' <=> Handled(c)
  PROVE  PlacesAreCounted' /\ tokens' \in Nat
<1>1. HandledClients' = HandledClients
  BY DEF HandledClients
<1> QED BY <1>1 DEF HandledClients, PlacesAreCounted, IInv, TypeOK

LEMMA InitHolds == Init => IInv
<1> SUFFICES ASSUME Init PROVE IInv
  OBVIOUS
<1>1. TypeOK
  BY IpcServerAssumption DEF Init, TypeOK, Closed
<1>2. HandledClients = {}
  BY DEF Init, HandledClients, Handled, Closed
<1>3. PlacesAreCounted
  BY <1>2, FS_EmptySet, IpcServerAssumption DEF Init, PlacesAreCounted, HandledClients
<1>4. ServingHasId /\ AnswerIsOfTheRequest
  BY DEF Init, ServingHasId, AnswerIsOfTheRequest, Closed
<1> QED BY <1>1, <1>3, <1>4 DEF IInv

LEMMA StepKeeps == IInv /\ [Next]_vars => IInv'
<1> SUFFICES ASSUME IInv, [Next]_vars PROVE IInv'
  OBVIOUS
<1> USE DEF IInv
<1>1. ASSUME NEW c \in Clients, Connect(c) PROVE IInv'
  <2>1. conn' = [conn EXCEPT ![c].pc = "queued"] /\ conn[c] = Closed /\ UNCHANGED <<phase, listening, tokens, handler>>
    BY <1>1 DEF Connect
  <2>2. PlacesAreCounted' /\ tokens' \in Nat
    BY <2>1, PlacesSame DEF Handled, TypeOK, Closed
  <2> QED BY <2>1, <2>2 DEF TypeOK, ServingHasId, AnswerIsOfTheRequest, Closed
<1>2. ASSUME NEW c \in Clients, Accept(c) PROVE IInv'
  <2>1. CASE conn' = [conn EXCEPT ![c].pc = "reading"] /\ tokens < MaxActive /\ tokens' = tokens + 1
    <3>1. conn[c].pc = "queued" /\ UNCHANGED <<phase, listening, handler>>
      BY <1>2 DEF Accept
    <3>2. PlacesAreCounted' /\ tokens' \in Nat
      BY <2>1, <3>1, PlaceTaken
    <3> QED BY <2>1, <3>1, <3>2 DEF TypeOK, ServingHasId, AnswerIsOfTheRequest
  <2>2. CASE conn' = [conn EXCEPT ![c] = Closed] /\ UNCHANGED tokens
    <3>1. conn[c].pc = "queued" /\ UNCHANGED <<phase, listening, handler>>
      BY <1>2 DEF Accept
    <3>2. PlacesAreCounted' /\ tokens' \in Nat
      BY <2>2, <3>1, PlacesSame DEF Handled, TypeOK, Closed
    <3> QED BY <2>2, <3>1, <3>2, IpcServerAssumption DEF TypeOK, ServingHasId, AnswerIsOfTheRequest, Closed
  <2> QED BY <1>2, <2>1, <2>2 DEF Accept
<1>3. ASSUME NEW c \in Clients, ReadEnds(c) \/ WriteFails(c) PROVE IInv'
  <2>1. Handled(c) /\ Close(c)
    BY <1>3 DEF ReadEnds, WriteFails, Handled
  <2>2. /\ PlacesAreCounted' /\ tokens' \in Nat
        /\ conn' = [conn EXCEPT ![c] = Closed] /\ UNCHANGED <<phase, listening, handler>>
    BY <2>1, PlaceReturned
  <2> QED BY <2>2, IpcServerAssumption DEF TypeOK, ServingHasId, AnswerIsOfTheRequest, Closed
<1>4. ASSUME NEW c \in Clients, ReadBadFrame(c) \/ Write(c) PROVE IInv'
  <2>1. PICK pc \in {"reading", "writing"} :
          conn' = [conn EXCEPT ![c].pc = pc, ![c].id = 0, ![c].answer = 0]
    BY <1>4 DEF ReadBadFrame, Write
  <2>2. conn[c].pc \in {"reading", "writing"} /\ UNCHANGED <<phase, listening, tokens, handler>>
    BY <1>4 DEF ReadBadFrame, Write
  <2>3. conn'[c] = [pc |-> pc, id |-> 0, answer |-> 0] /\ \A d \in Clients \ {c} : conn'[d] = conn[d]
    BY <2>1 DEF TypeOK
  <2>4. PlacesAreCounted' /\ tokens' \in Nat
    BY <2>2, <2>3, PlacesSame DEF Handled
  <2>5. [pc |-> pc, id |-> 0, answer |-> 0] \in Conn
    BY IpcServerAssumption DEF Conn
  <2>6. conn' \in [Clients -> Conn]
    BY <2>1, <2>3, <2>5 DEF TypeOK, Conn
  <2>7. \A d \in Clients : conn'[d].pc = "serving" => d # c /\ conn'[d] = conn[d]
    BY <2>3
  <2>8. ServingHasId' /\ AnswerIsOfTheRequest'
    <3>1. \A d \in Clients : conn'[d].pc = "writing" => conn'[d].answer = conn'[d].id
      BY <2>3 DEF AnswerIsOfTheRequest
    <3> QED BY <2>2, <2>7, <3>1 DEF ServingHasId, AnswerIsOfTheRequest
  <2> QED BY <2>2, <2>4, <2>6, <2>8 DEF TypeOK, Conn
<1>5. ASSUME NEW c \in Clients, Read(c) PROVE IInv'
  <2>1. PICK i \in Ids :
          /\ handler[i] = "none" /\ handler' = [handler EXCEPT ![i] = "running"]
          /\ conn' = [conn EXCEPT ![c].pc = "serving", ![c].id = i, ![c].answer = 0]
    BY <1>5 DEF Read
  <2>2. conn[c].pc = "reading" /\ UNCHANGED <<phase, listening, tokens>>
    BY <1>5 DEF Read
  <2>3. conn'[c] = [pc |-> "serving", id |-> i, answer |-> 0] /\ \A d \in Clients \ {c} : conn'[d] = conn[d]
    BY <2>1 DEF TypeOK
  <2>4. PlacesAreCounted' /\ tokens' \in Nat
    BY <2>2, <2>3, PlacesSame DEF Handled
  <2>5. conn' \in [Clients -> Conn] /\ handler' \in [Ids -> {"none", "running", "returned"}]
    BY <2>1, <2>3, IpcServerAssumption DEF TypeOK, Conn, Ids
  <2>6. ServingHasId'
    BY <2>3 DEF ServingHasId
  <2>7. AnswerIsOfTheRequest'
    BY <2>1, <2>3 DEF TypeOK, ServingHasId, AnswerIsOfTheRequest
  <2> QED BY <2>2, <2>4, <2>5, <2>6, <2>7 DEF TypeOK, Conn
<1>6. ASSUME NEW i \in Ids, HandlerReturns(i) PROVE IInv'
  <2>1. UNCHANGED <<phase, listening, conn, tokens>>
    BY <1>6 DEF HandlerReturns
  <2>2. PlacesAreCounted' /\ tokens' \in Nat
    BY <2>1, PlacesSame DEF Handled
  <2>3. handler' \in [Ids -> {"none", "running", "returned"}] /\ \A j \in Ids \ {i} : handler'[j] = handler[j]
    BY <1>6 DEF HandlerReturns, TypeOK
  <2>4. ASSUME NEW c \in Clients, conn[c].pc = "serving", conn[c].id = i PROVE handler'[i] # "none"
    BY <1>6, <2>4 DEF HandlerReturns, TypeOK
  <2> QED BY <2>1, <2>2, <2>3, <2>4 DEF TypeOK, ServingHasId, AnswerIsOfTheRequest
<1>7. ASSUME NEW c \in Clients, Answer(c) \/ TimeOut(c) PROVE IInv'
  <2>1. conn[c].pc = "serving" /\ conn[c].id \in Ids /\ UNCHANGED <<phase, listening, tokens>>
    BY <1>7 DEF Answer, TimeOut, ServingHasId
  <2>2. conn'[c].pc = "writing" /\ conn'[c] \in Conn /\ conn'[c].answer = conn'[c].id
        /\ \A d \in Clients \ {c} : conn'[d] = conn[d]
    BY <1>7, <2>1, IpcServerAssumption DEF Answer, TimeOut, TypeOK, Conn, Ids
  <2>3. conn' \in [Clients -> Conn]
    BY <1>7, <2>2 DEF Answer, TimeOut, TypeOK, Conn
  <2>4. handler' \in [Ids -> {"none", "running", "returned"}]
        /\ \A j \in Ids \ {conn[c].id} : handler'[j] = handler[j]
    BY <1>7, <2>1 DEF Answer, TimeOut, TypeOK
  <2>5. PlacesAreCounted' /\ tokens' \in Nat
    BY <2>1, <2>2, PlacesSame DEF Handled
  <2>6. AnswerIsOfTheRequest' /\ ServingHasId'
    BY <2>1, <2>2, <2>4 DEF AnswerIsOfTheRequest, ServingHasId
  <2> QED BY <2>1, <2>3, <2>4, <2>5, <2>6 DEF TypeOK, Conn
<1>8. ASSUME StopListening PROVE IInv'
  <2>1. \A c \in Clients : conn'[c] = IF conn[c].pc = "queued" THEN Closed ELSE conn[c]
    BY <1>8 DEF StopListening
  <2>2. phase' = "stopping" /\ listening' = FALSE /\ UNCHANGED <<tokens, handler>>
    BY <1>8 DEF StopListening
  <2>3. PlacesAreCounted' /\ tokens' \in Nat
    BY <2>1, <2>2, PlacesSame DEF Handled, Closed
  <2>4. conn' \in [Clients -> Conn]
    BY <1>8, IpcServerAssumption DEF StopListening, TypeOK, Closed, Conn
  <2>5. listening' \in BOOLEAN /\ phase' \in {"up", "stopping", "stopped"}
    BY <2>2
  <2>6. \A c \in Clients : conn'[c].pc \in {"serving", "writing"} => conn'[c] = conn[c]
    BY <2>1 DEF Closed
  <2>7. ServingHasId' /\ AnswerIsOfTheRequest'
    BY <2>2, <2>6 DEF ServingHasId, AnswerIsOfTheRequest
  <2> QED BY <2>2, <2>3, <2>4, <2>5, <2>7 DEF TypeOK, Conn
<1>9. ASSUME StopReturns \/ UNCHANGED vars PROVE IInv'
  <2>1. UNCHANGED <<listening, conn, tokens, handler>> /\ phase' \in {phase, "stopped"}
    BY <1>9 DEF StopReturns, vars
  <2>2. PlacesAreCounted' /\ tokens' \in Nat
    BY <2>1, PlacesSame DEF Handled
  <2> QED BY <2>1, <2>2 DEF TypeOK, ServingHasId, AnswerIsOfTheRequest
<1> QED BY <1>1, <1>2, <1>3, <1>4, <1>5, <1>6, <1>7, <1>8, <1>9 DEF Next, Outside, Serve

\* The inductive invariant: types, places, and whom each connection waits for.
THEOREM ServerInductive == Spec => []IInv
PROOF BY InitHolds, StepKeeps, PTL DEF Spec

\* Every variable has its type, for any clients and limits.
THEOREM ServerTypeCorrect == Spec => []TypeOK
<1>1. IInv => TypeOK
  BY DEF IInv
<1> QED BY <1>1, ServerInductive, PTL

\* No way to end a connection loses its place, and no way to take one passes the limit.
THEOREM PlacesCounted == Spec => []PlacesAreCounted
<1>1. IInv => PlacesAreCounted
  BY DEF IInv
<1> QED BY <1>1, ServerInductive, PTL

\* However late handlers return, an answer is the one of its request.
THEOREM AnswersMatch == Spec => []AnswerIsOfTheRequest
<1>1. IInv => AnswerIsOfTheRequest
  BY DEF IInv
<1> QED BY <1>1, ServerInductive, PTL
=============================================================================
