------------------------------- MODULE Serve -------------------------------
(***************************************************************************)
(* The threads of a host: crates/gateway/src/serve.rs (the accept          *)
(* dispatcher, the connections' doors, the bounded job queue, the thread   *)
(* that owns the surface, the control pipe), session.rs (a connection's    *)
(* life) and frame.rs (its fragments).                                     *)
(*                                                                         *)
(* What a job does to the match is in the other modules; here a job is     *)
(* taken, answered and done.  A client is a socket that may dial again.    *)
(***************************************************************************)
EXTENDS Integers, Sequences, FiniteSets

CONSTANTS
  Clients,
  MaxConnections,  \* MAX_CONNECTIONS
  MaxDials,        \* bound: how often a client dials
  MaxAsks          \* bound: the calls a client makes in all

ASSUME ServeAssumption ==
  /\ IsFiniteSet(Clients)
  /\ MaxConnections \in Nat \ {0} /\ MaxDials \in Nat /\ MaxAsks \in Nat

VARIABLES
  accepting,  \* sockets accepted and not yet dispatched
  thread,     \* where each client's connection thread is
  partial,    \* Assembler.partial: a message is in fragments
  live,       \* connections that hold a place
  jobs,       \* the queue in front of the surface thread
  surface,    \* the surface thread: "up", or "gone" with its receiver
  main,       \* the thread that reads the control pipe
  dials, asks,
  late        \* history: whose job was handed over behind the stop

connVars == <<accepting, thread, partial, live>>
serveVars == <<connVars, jobs, surface, main, dials, asks, late>>

QueueDepth == MaxConnections + 1

(* "none": no thread, "dialled": not dispatched; then the thread's own     *)
(* states: reading the upgrade; handing a job over; waiting for its        *)
(* answer; writing it; reading frames; writing its last words, a refusal   *)
(* or a close.                                                             *)
Handing == {"opening", "asking", "refusing"}
Awaiting == {"awaitOpen", "awaitAnswer"}
Writing == {"greeting", "answered", "closing"}
ThreadStates == {"none", "dialled", "shake", "frames"}
                  \union Handing \union Awaiting \union Writing

Kinds == {"open", "call", "refused"}
Jobs == [kind : Kinds, conn : Clients] \union {[kind |-> "stop"]}
Stop == [kind |-> "stop"]
Stopped == \E i \in DOMAIN jobs : jobs[i] = Stop

ServeTypeOK ==
  /\ accepting \in Seq(Clients)
  /\ thread \in [Clients -> ThreadStates]
  /\ partial \in [Clients -> BOOLEAN]
  /\ live \in Nat
  /\ jobs \in Seq(Jobs) /\ Len(jobs) <= QueueDepth
  /\ surface \in {"up", "gone"}
  /\ main \in {"reading", "stopping", "joining", "exited"}
  /\ dials \in [Clients -> 0..MaxDials] /\ asks \in [Clients -> 0..MaxAsks]
  /\ late \subseteq Clients

ServeInit ==
  /\ accepting = <<>>
  /\ thread = [c \in Clients |-> "none"]
  /\ partial = [c \in Clients |-> FALSE]
  /\ live = 0 /\ jobs = <<>> /\ surface = "up" /\ main = "reading"
  /\ dials = [c \in Clients |-> 0] /\ asks = [c \in Clients |-> 0]
  /\ late = {}

Running == main # "exited"
Room == surface = "up" /\ Len(jobs) < QueueDepth

(* The job a thread that hands one over sends.                             *)
JobOf(c) ==
  [kind |-> CASE thread[c] = "opening" -> "open"
              [] thread[c] = "asking" -> "call"
              [] thread[c] = "refusing" -> "refused",
   conn |-> c]

Enqueue(job, c) ==
  /\ jobs' = Append(jobs, job)
  /\ late' = IF Stopped THEN late \union {c} ELSE late

Goes(c, to) == thread' = [thread EXCEPT ![c] = to]

(* Variant: a thread that has the last word keeps its place.               *)
ReturnUnlessClosing(c) ==
  /\ Goes(c, "none")
  /\ partial' = [partial EXCEPT ![c] = FALSE]
  /\ live' = IF thread[c] = "closing" THEN live ELSE live - 1

(* The thread returns: the socket is closed and its place given back.      *)
Return(c) ==
  /\ Goes(c, "none")
  /\ partial' = [partial EXCEPT ![c] = FALSE]
  /\ live' = live - 1

Dial(c) ==
  /\ Running /\ thread[c] = "none" /\ dials[c] < MaxDials
  /\ Goes(c, "dialled")
  /\ accepting' = Append(accepting, c)
  /\ dials' = [dials EXCEPT ![c] = @ + 1]
  /\ UNCHANGED <<partial, live, jobs, surface, main, asks, late>>

(* A socket over the cap is refused before the upgrade, and logged only    *)
(* when there is room; any other gets a thread.                            *)
Dispatch ==
  /\ Running /\ accepting # <<>>
  /\ LET c == Head(accepting) IN
       \/ /\ live >= MaxConnections
          /\ Goes(c, "none")
          /\ IF Room THEN Enqueue([kind |-> "refused", conn |-> c], c)
                     ELSE UNCHANGED <<jobs, late>>
          /\ UNCHANGED live
       \/ /\ live < MaxConnections
          /\ Goes(c, "shake") /\ live' = live + 1
          /\ UNCHANGED <<jobs, late>>
  /\ accepting' = Tail(accepting)
  /\ UNCHANGED <<partial, surface, main, dials, asks>>

(* The upgrade is read and reviewed.  One that never ends, is too large or *)
(* is not text ends the connection and reaches no log.                     *)
Shake(c) ==
  /\ Running /\ thread[c] = "shake"
  /\ \/ Return(c)
     \/ \E to \in {"opening", "refusing"} :
          Goes(c, to) /\ UNCHANGED <<partial, live>>
  /\ UNCHANGED <<accepting, jobs, surface, main, dials, asks, late>>

(* The blocking send: into the queue when there is room, an error once the *)
(* receiver is gone.  A refusal waits for no answer.                       *)
HandOver(c) ==
  /\ Running /\ thread[c] \in Handing
  /\ \/ /\ Room
        /\ Enqueue(JobOf(c), c)
        /\ \/ thread[c] = "opening" /\ Goes(c, "awaitOpen") /\ UNCHANGED <<partial, live>>
           \/ thread[c] = "asking" /\ Goes(c, "awaitAnswer") /\ UNCHANGED <<partial, live>>
           \/ thread[c] = "refusing" /\ Goes(c, "closing") /\ UNCHANGED <<partial, live>>
     \/ /\ surface = "gone"
        /\ \/ thread[c] = "opening" /\ Goes(c, "refusing") /\ UNCHANGED <<partial, live>>
           \/ thread[c] = "asking" /\ Goes(c, "answered") /\ UNCHANGED <<partial, live>>
           \/ thread[c] = "refusing" /\ Goes(c, "closing") /\ UNCHANGED <<partial, live>>
        /\ UNCHANGED <<jobs, late>>
  /\ UNCHANGED <<accepting, surface, main, dials, asks>>

(* What is in hand is written to the socket, which may have gone; there is *)
(* no timeout, and a client that does not read may leave it unwritten for  *)
(* good.                                                                   *)
Write(c) ==
  /\ Running /\ thread[c] \in Writing
  /\ \/ thread[c] # "closing" /\ Goes(c, "frames") /\ UNCHANGED <<partial, live>>
     \/ Return(c)
  /\ UNCHANGED <<accepting, jobs, surface, main, dials, asks, late>>

(* A data frame: the first of a message or one more of it.  The last makes *)
(* the call, and the connection reads nothing more until it is answered.   *)
Frame(c) ==
  /\ Running /\ thread[c] = "frames" /\ asks[c] < MaxAsks
  /\ \E fin \in BOOLEAN :
       /\ partial' = [partial EXCEPT ![c] = ~fin]
       /\ Goes(c, IF fin THEN "asking" ELSE "frames")
       /\ asks' = [asks EXCEPT ![c] = IF fin THEN @ + 1 ELSE @]
  /\ UNCHANGED <<accepting, live, jobs, surface, main, dials, late>>

(* A ping, between frames or fragments, is answered by its pong.           *)
Ping(c) ==
  /\ Running /\ thread[c] = "frames"
  /\ Goes(c, "answered")
  /\ UNCHANGED <<accepting, partial, live, jobs, surface, main, dials, asks, late>>

(* An end of file or READ_TIMEOUT without a byte; or a close, a fragment   *)
(* out of order or a frame that is none, which is answered with a close.   *)
Leave(c) ==
  /\ Running /\ thread[c] = "frames"
  /\ \/ Return(c)
     \/ Goes(c, "closing") /\ UNCHANGED <<partial, live>>
  /\ UNCHANGED <<accepting, jobs, surface, main, dials, asks, late>>

(* Variant: the surface thread looks for a stop before it takes a job.     *)
ServeStopFirst ==
  /\ Running /\ surface = "up" /\ jobs # <<>>
  /\ IF Stopped THEN jobs' = <<>> /\ surface' = "gone" /\ UNCHANGED thread
     ELSE /\ jobs' = Tail(jobs) /\ UNCHANGED surface
          /\ Goes(Head(jobs).conn,
                  CASE Head(jobs).kind = "open" -> "greeting"
                    [] Head(jobs).kind = "call" -> "answered"
                    [] Head(jobs).kind = "refused" -> thread[Head(jobs).conn])
  /\ UNCHANGED <<accepting, partial, live, main, dials, asks, late>>

(* Variant: a call that cannot be read is not answered.                    *)
ServeReadable ==
  /\ Running /\ surface = "up" /\ jobs # <<>>
  /\ \E read \in BOOLEAN :
       IF Head(jobs).kind # "call" \/ ~read THEN UNCHANGED thread
       ELSE Goes(Head(jobs).conn, "answered")
  /\ IF Head(jobs) = Stop THEN jobs' = <<>> /\ surface' = "gone"
     ELSE jobs' = Tail(jobs) /\ UNCHANGED surface
  /\ UNCHANGED <<accepting, partial, live, main, dials, asks, late>>

(* One job: answered, then planned for and flushed.  A stop saves, and     *)
(* drops the receiver with every job behind it.                            *)
ServeJob ==
  /\ Running /\ surface = "up" /\ jobs # <<>>
  /\ LET job == Head(jobs) IN
       \/ /\ job.kind = "open"
          /\ \E granted \in BOOLEAN :
               Goes(job.conn, IF granted THEN "greeting" ELSE "refusing")
          /\ jobs' = Tail(jobs) /\ UNCHANGED surface
       \/ /\ job.kind = "call"
          /\ Goes(job.conn, "answered")
          /\ jobs' = Tail(jobs) /\ UNCHANGED surface
       \/ /\ job.kind = "refused"
          /\ jobs' = Tail(jobs) /\ UNCHANGED <<thread, surface>>
       \/ /\ job = Stop
          /\ jobs' = <<>> /\ surface' = "gone" /\ UNCHANGED thread
  /\ UNCHANGED <<accepting, partial, live, main, dials, asks, late>>

(* The parent closes the control pipe, at any moment.                      *)
CloseControl ==
  /\ main = "reading" /\ main' = "stopping"
  /\ UNCHANGED <<connVars, jobs, surface, dials, asks, late>>

(* Variant: the stop is tried once.                                        *)
TryStop ==
  /\ main = "stopping"
  /\ jobs' = IF Room THEN Append(jobs, Stop) ELSE jobs
  /\ main' = "joining"
  /\ UNCHANGED <<connVars, surface, dials, asks, late>>

(* The stop waits for room like any other job.                             *)
SendStop ==
  /\ main = "stopping" /\ Room
  /\ jobs' = Append(jobs, Stop) /\ main' = "joining"
  /\ UNCHANGED <<connVars, surface, dials, asks, late>>

(* The surface thread is joined and the process exits, which ends every    *)
(* other thread and closes every socket.                                   *)
Exit ==
  /\ main = "joining" /\ surface = "gone"
  /\ main' = "exited"
  /\ accepting' = <<>> /\ live' = 0
  /\ thread' = [c \in Clients |-> "none"]
  /\ partial' = [c \in Clients |-> FALSE]
  /\ UNCHANGED <<jobs, surface, dials, asks, late>>

Connection(c) ==
  Shake(c) \/ HandOver(c) \/ Write(c) \/ Frame(c) \/ Ping(c) \/ Leave(c)

ServeNext ==
  \/ \E c \in Clients : Dial(c) \/ Connection(c)
  \/ Dispatch \/ ServeJob \/ CloseControl \/ SendStop \/ Exit

ServeSpec == ServeInit /\ [][ServeNext]_serveVars

(* The sends into the queue, the surface thread and the shutdown go on as  *)
(* long as they can.  Nothing is assumed of clients or of the parent, and  *)
(* so of no step that reads from a socket or writes to one.                *)
Fairness ==
  /\ \A c \in Clients : WF_serveVars(HandOver(c))
  /\ WF_serveVars(ServeJob) /\ WF_serveVars(SendStop) /\ WF_serveVars(Exit)

FairSpec == ServeSpec /\ Fairness

----------------------------------------------------------------------------
Holds(c) == thread[c] \notin {"none", "dialled"}

(* The counter the dispatcher caps by is the number of threads, whatever   *)
(* way a connection ends, and never over the cap (live in spawn_dispatcher).*)
PlacesAreThreads ==
  live = Cardinality({c \in Clients : Holds(c)}) /\ live <= MaxConnections

(* A connection has one job in the queue at most, and whoever waits has    *)
(* one there unless the surface thread is gone: no answer goes astray and  *)
(* none is waited for that nobody will give.  Whoever waits when it is gone*)
(* came behind the stop: what was handed over before was answered first.   *)
WaitersAreQueued ==
  \A c \in Clients :
    LET asked == {i \in DOMAIN jobs : /\ jobs[i] # Stop /\ jobs[i].conn = c
                                      /\ jobs[i].kind # "refused"}
    IN  /\ IF thread[c] \in Awaiting /\ surface = "up"
           THEN Cardinality(asked) = 1 ELSE asked = {}
        /\ surface = "gone" /\ thread[c] \in Awaiting => c \in late

(* Closing the control pipe ends the process, however full the queue is    *)
(* and however many connections are in hand (run_in's shutdown).           *)
StopIsServed == main = "stopping" ~> main = "exited"

(* No thread is stuck in a send or in a wait for good, even while others  *)
(* are stuck in a write to clients that do not read.                       *)
InTheHouse(c) == thread[c] \in Handing \union Awaiting
NobodyWaitsForever == \A c \in Clients : InTheHouse(c) ~> ~InTheHouse(c)
=============================================================================
