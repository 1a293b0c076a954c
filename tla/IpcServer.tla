------------------------------ MODULE IpcServer ------------------------------
(***************************************************************************)
(* The IPC server: the connections on the socket of the daemon, the        *)
(* goroutines of their requests, and Server.Stop, which the shutdown and   *)
(* an update wait for.                                                     *)
(*                                                                         *)
(* A handler is given a context that ends after the time-out of its        *)
(* method, but nothing makes it return: it may answer late or never.       *)
(***************************************************************************)
EXTENDS Naturals, FiniteSets

CONSTANTS
  Clients,       \* processes that connect, at most once at a time
  MaxActive,     \* maxActiveConnections
  MaxHandlers    \* bound: goroutines of handlers at once

ASSUME IpcServerAssumption ==
  IsFiniteSet(Clients) /\ MaxActive \in Nat \ {0} /\ MaxHandlers \in Nat \ {0}

Ids == 1..MaxHandlers

VARIABLES
  phase,      \* how far Server.Stop is
  listening,  \* the listener is open
  conn,       \* conn[c]: where the connection of c is; id is the goroutine it waits for
  tokens,     \* activeConn: how many connections hold a place
  handler     \* handler[i]: a goroutine that runs a handler

vars == <<phase, listening, conn, tokens, handler>>

Closed == [pc |-> "closed", id |-> 0, answer |-> 0]
Handled(c) == conn[c].pc \in {"reading", "serving", "writing"}

-----------------------------------------------------------------------------
(* Connections and requests                                               *)

Connect(c) ==
  /\ listening /\ conn[c] = Closed
  /\ conn' = [conn EXCEPT ![c].pc = "queued"]
  /\ UNCHANGED <<phase, listening, tokens, handler>>

\* acceptLoop: a connection over the limit, or of a peer that is not root, is closed.
Accept(c) ==
  /\ listening /\ conn[c].pc = "queued"
  /\ \/ /\ tokens < MaxActive
        /\ tokens' = tokens + 1
        /\ conn' = [conn EXCEPT ![c].pc = "reading"]
     \/ tokens >= MaxActive /\ conn' = [conn EXCEPT ![c] = Closed] /\ UNCHANGED tokens
  /\ UNCHANGED <<phase, listening, handler>>

\* handleConn returns: the end of the file, a deadline, or a frame that is too long.
Close(c) ==
  /\ conn' = [conn EXCEPT ![c] = Closed] /\ tokens' = tokens - 1
  /\ UNCHANGED <<phase, listening, handler>>

ReadEnds(c) == conn[c].pc = "reading" /\ Close(c)

\* A frame that does not parse, or names no method, is answered at once.
ReadBadFrame(c) ==
  /\ conn[c].pc = "reading"
  /\ conn' = [conn EXCEPT ![c].pc = "writing", ![c].id = 0, ![c].answer = 0]
  /\ UNCHANGED <<phase, listening, tokens, handler>>

\* processRequest starts the handler in a goroutine of its own.
Read(c) ==
  /\ conn[c].pc = "reading"
  /\ \E i \in Ids :
       /\ handler[i] = "none" /\ \A j \in 1..i-1 : handler[j] # "none"
       /\ handler' = [handler EXCEPT ![i] = "running"]
       /\ conn' = [conn EXCEPT ![c].pc = "serving", ![c].id = i, ![c].answer = 0]
  /\ UNCHANGED <<phase, listening, tokens>>

\* The handler leaves its result in the channel of its request; nobody reads the
\* channel of one that timed out.
HandlerReturns(i) ==
  /\ handler[i] = "running"
  /\ handler' = [handler EXCEPT ![i] =
       IF \E c \in Clients : conn[c].pc = "serving" /\ conn[c].id = i
       THEN "returned" ELSE "none"]
  /\ UNCHANGED <<phase, listening, conn, tokens>>

\* Mutant: the results of all requests share a channel.
AnswerOfAny(c) ==
  /\ conn[c].pc = "serving"
  /\ \E i \in Ids :
       /\ handler[i] = "returned" \/ (handler[i] = "running" /\ i # conn[c].id)
       /\ conn' = [conn EXCEPT ![c].pc = "writing", ![c].answer = i]
       /\ handler' = [handler EXCEPT ![i] = "none"]
  /\ UNCHANGED <<phase, listening, tokens>>

Answer(c) ==
  /\ conn[c].pc = "serving" /\ handler[conn[c].id] = "returned"
  /\ conn' = [conn EXCEPT ![c].pc = "writing", ![c].answer = conn[c].id]
  /\ handler' = [handler EXCEPT ![conn[c].id] = "none"]
  /\ UNCHANGED <<phase, listening, tokens>>

\* The context ends first, or at the same time as the handler.
TimeOut(c) ==
  /\ conn[c].pc = "serving"
  /\ conn' = [conn EXCEPT ![c].pc = "writing", ![c].id = 0, ![c].answer = 0]
  /\ handler' = [handler EXCEPT ![conn[c].id] = IF @ = "returned" THEN "none" ELSE @]
  /\ UNCHANGED <<phase, listening, tokens>>

Write(c) ==
  /\ conn[c].pc = "writing"
  /\ conn' = [conn EXCEPT ![c].pc = "reading", ![c].id = 0, ![c].answer = 0]
  /\ UNCHANGED <<phase, listening, tokens, handler>>

WriteFails(c) == conn[c].pc = "writing" /\ Close(c)

-----------------------------------------------------------------------------
(* Server.Stop                                                             *)

\* The listener is closed; a connection that was not accepted yet is reset.
StopListening ==
  /\ phase = "up" /\ phase' = "stopping" /\ listening' = FALSE
  /\ conn' = [c \in Clients |-> IF conn[c].pc = "queued" THEN Closed ELSE conn[c]]
  /\ UNCHANGED <<tokens, handler>>

\* Mutant: the wait is for the handlers too.
StopReturnsHandled ==
  /\ phase = "stopping" /\ \A c \in Clients : ~Handled(c)
  /\ \A i \in Ids : handler[i] # "running"
  /\ phase' = "stopped" /\ UNCHANGED <<listening, conn, tokens, handler>>

\* wg.Wait: for the connections, not for the handlers.
StopReturns ==
  /\ phase = "stopping" /\ \A c \in Clients : ~Handled(c)
  /\ phase' = "stopped" /\ UNCHANGED <<listening, conn, tokens, handler>>

-----------------------------------------------------------------------------
Init ==
  /\ phase = "up" /\ listening = TRUE /\ conn = [c \in Clients |-> Closed]
  /\ tokens = 0 /\ handler = [i \in Ids |-> "none"]

\* The clients, and the handlers, do as they like.
Outside ==
  \/ \E c \in Clients : Connect(c) \/ Read(c) \/ ReadBadFrame(c)
  \/ \E i \in Ids : HandlerReturns(i)

Serve(c) == Accept(c) \/ ReadEnds(c) \/ Answer(c) \/ TimeOut(c) \/ Write(c) \/ WriteFails(c)

Next == Outside \/ StopListening \/ StopReturns \/ \E c \in Clients : Serve(c)

\* The goroutines of the server run, the deadlines of a connection pass, and no
\* client goes on for ever (daemonctl sends one request; the server sets no limit).
Fairness ==
  /\ WF_vars(StopReturns)
  /\ \A c \in Clients : WF_vars(Serve(c)) /\ SF_vars(ReadEnds(c))

Spec == Init /\ [][Next]_vars /\ Fairness

-----------------------------------------------------------------------------
(* Properties                                                              *)

\* Every variable has its type.
TypeOK ==
  /\ phase \in {"up", "stopping", "stopped"} /\ listening \in BOOLEAN /\ tokens \in Nat
  /\ conn \in [Clients -> [pc : {"closed", "queued", "reading", "serving", "writing"},
                           id : 0..MaxHandlers, answer : 0..MaxHandlers]]
  /\ handler \in [Ids -> {"none", "running", "returned"}]

\* However a connection ends, its place is free again: the server never refuses
\* one with fewer than MaxActive being handled (acceptLoop, handleConn).
PlacesAreCounted == tokens = Cardinality({c \in Clients : Handled(c)}) /\ tokens <= MaxActive

\* A result is the one of the request it answers: the handler of an earlier request
\* that timed out may return at any time (processRequest). No two connections
\* wait for one goroutine, and the goroutine waited for is there.
AnswerIsOfTheRequest ==
  /\ \A c \in Clients : conn[c].pc = "writing" => conn[c].answer = conn[c].id
  /\ \A c \in Clients : conn[c].pc = "serving" => handler[conn[c].id] # "none"
  /\ \A c, d \in Clients :
       conn[c].pc = "serving" /\ conn[d].pc = "serving" /\ conn[c].id = conn[d].id => c = d

\* Server.Stop returns, whatever requests are under way: the daemon can exit.
StopEnds == phase = "stopping" ~> phase = "stopped"
=============================================================================
