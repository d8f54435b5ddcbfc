----------------------------- MODULE Persistence -----------------------------
(***************************************************************************)
(* The match folder and the one thread that writes it: Writer::flush and   *)
(* close and the loop of serve_surface (crates/gateway/src/serve.rs), the  *)
(* files of cache.rs, and what run_in reads back when a match is resumed.  *)
(*                                                                         *)
(* A job is answered first and flushed after: it leaves a list of writes,  *)
(* taken one by one, and the next job waits for them.  Between two writes, *)
(* and in one, the process may die; any write may be refused by the file   *)
(* system, which the log records and the match survives.  A match is the   *)
(* course of orders it has played, from which its every state follows; a   *)
(* round's chain of hashes stands for the course it was played along.      *)
(*                                                                         *)
(* An append that is cut leaves a last line the next append goes on: it    *)
(* hides the number of the line that is glued to it.  Cut before its tick, *)
(* it makes the log one no resume reads.  (Cut inside its number it would  *)
(* be glued into a larger one, which is left out.)                         *)
(***************************************************************************)
EXTENDS Integers, Sequences, SequencesExt, FiniteSetsExt

CONSTANTS
  NumSeats,
  Plans,
  RoundLimit,
  MaxProcesses,   \* bound: the processes that host the match in turn
  MaxFailures,    \* bound: the writes the file system refuses
  MaxSeq          \* bound: the audit lines before reads stop

ASSUME PersistenceAssumption ==
  /\ NumSeats \in Nat \ {0} /\ RoundLimit \in Nat \ {0}
  /\ MaxProcesses \in Nat \ {0} /\ MaxFailures \in Nat /\ MaxSeq \in Nat
  /\ "none" \notin Plans /\ "torn" \notin Plans

Seats  == 1..NumSeats
Orders == [Seats -> Plans]

VARIABLES
  host,       \* "down", "up", or "closing" once the control pipe has ended
  phase,
  course,     \* the orders of every Push begun, the last one's included
  todo,       \* what is left of the flush under way, in order
  entries,    \* the audit lines not yet taken: their sequence numbers
  nextSeq,
  generation, \* what is folded into the view's id: none in a new match
  \* the match folder
  sealed,     \* seats/<seat>/sealed/<round>.jsonc
  chain,      \* replay/<round>.hashes.txt: a course, in a singleton, or none
  save,       \* save.json: none, or one
  log,        \* audit.log: its largest number, and how its last line ends
  \* history
  process,    \* how many processes have hosted the match
  failures,   \* the kinds of the writes refused or torn from the log
  watched,    \* for each round, the course a client saw ticks of
  minted      \* the generations calls were answered under, and by whom

memory  == <<phase, course, generation>>
folder  == <<sealed, chain, save, log>>
history == <<process, failures, watched, minted>>
vars == <<host, memory, todo, entries, nextSeq, folder, history>>

Round == IF phase = "lull" THEN Len(course) + 1 ELSE Len(course)

Init ==
  /\ host = "down" /\ phase = "lull" /\ course = <<>>
  /\ todo = <<>> /\ entries = {} /\ nextSeq = 1 /\ generation = -1
  /\ sealed = [r \in 1..RoundLimit |-> [s \in Seats |-> "none"]]
  /\ chain = [r \in 1..RoundLimit |-> {}]
  /\ save = {}
  /\ log = [last |-> 0, end |-> "whole"]
  /\ process = 0 /\ failures = {}
  /\ watched = [r \in 1..RoundLimit |-> {}]
  /\ minted = {}

----------------------------------------------------------------------------
(* The writes a flush makes.                                               *)

SealedFile(s) == [file |-> "sealed", seat |-> s]
Chain         == [file |-> "chain"]
SaveOf(b, c)  == [file |-> "save", is |-> [boundary |-> b, course |-> c]]
Audit         == [file |-> "audit"]

(* persist_push: every seat's seal, ascending, and the sealed save.  A     *)
(* resumed Push is opened by the same seal_and_open_push.                  *)
Opening(c) == [s \in Seats |-> SealedFile(s)] \o <<SaveOf("sealed", c), Audit>>

Record(n) == /\ entries' = entries \union nextSeq..(nextSeq + n - 1)
             /\ nextSeq' = nextSeq + n

----------------------------------------------------------------------------
(* A process starts: run_in.                                               *)

(* A new match is refused an id that has a save.  Its folder may hold what *)
(* a process that never saved left there, the log included.                *)
Open ==
  /\ host = "down" /\ process < MaxProcesses
  /\ save = {} /\ log.end # "blank"
  /\ host' = "up" /\ phase' = "lull" /\ course' = <<>>
  /\ generation' = -1
  /\ entries' = {} /\ nextSeq' = log.last + 1
  /\ todo' = <<Audit>>
  /\ process' = process + 1
  /\ UNCHANGED <<folder, failures, watched, minted>>

(* Variant: the line is left for the first call's flush to write.          *)
ResumedLine == 0

(* The line "resumed", written before any call is served.                  *)
Resumed == 1

Resume ==
  /\ host = "down" /\ process < MaxProcesses
  /\ save # {} /\ log.end # "blank"
  /\ \E s \in save :
       /\ course' = s.course
       /\ phase' = IF s.boundary = "sealed" THEN "push" ELSE "lull"
       /\ todo' = IF s.boundary = "sealed" THEN Opening(s.course)
                                           ELSE <<Audit>>
  /\ host' = "up"
  /\ generation' = log.last
  /\ entries' = (log.last + 1)..(log.last + Resumed)
  /\ nextSeq' = log.last + 1 + Resumed
  /\ process' = process + 1
  /\ UNCHANGED <<folder, failures, watched, minted>>

----------------------------------------------------------------------------
(* The jobs, each answered before it is flushed.                           *)

(* Variant: the next job is taken whatever is left of the last one's.      *)
Whenever == host = "up"

(* The loop of serve_surface takes a job once the flush is done.           *)
Ready == host = "up" /\ todo = <<>>

(* A call was answered, under this view's id.                              *)
Answered ==
  /\ minted' = minted \union {[generation |-> generation, by |-> process]}
  /\ UNCHANGED <<host, generation, folder, process, failures>>

(* Any call that leaves the match where it is.                             *)
Call ==
  /\ Ready /\ nextSeq < MaxSeq
  /\ Record(1) /\ todo' = <<Audit>>
  /\ Answered
  /\ UNCHANGED <<phase, course, watched>>

EndLull ==
  /\ Ready /\ phase = "lull"
  /\ \E orders \in Orders :
       /\ course' = Append(course, orders)
       /\ todo' = todo \o Opening(course')
  /\ phase' = "push"
  /\ Record(1) /\ Answered
  /\ UNCHANGED watched

(* advance_push plays ticks, up to the segment's end or short of it.       *)
AdvancePush ==
  /\ Ready /\ phase = "push" /\ nextSeq < MaxSeq
  /\ \/ phase' = "push" /\ todo' = todo \o <<Audit>>
     \/ phase' = "recap" /\ todo' = todo \o <<Chain, Audit>>
  /\ watched' = [watched EXCEPT ![Round] = @ \union {course}]
  /\ Record(1) /\ Answered
  /\ UNCHANGED course

(* serve_end_recap.  The match may also be decided before its last round.  *)
EndRecap ==
  /\ Ready /\ phase = "recap"
  /\ phase' \in IF Round = RoundLimit THEN {"ended"} ELSE {"lull", "ended"}
  /\ Record(1) /\ todo' = <<Audit>>
  /\ Answered
  /\ UNCHANGED <<course, watched>>

(* Variant: whatever the phase, the match is saved on the way out.         *)
SavesOnTheWayOut == TRUE

(* close saves a Lull and nothing else.                                    *)
ClosesALull == phase = "lull"

(* Job::Stop.                                                              *)
Stop ==
  /\ Ready
  /\ host' = "closing"
  /\ IF ClosesALull
     THEN todo' = <<SaveOf("lull", SubSeq(course, 1, Round - 1)), Audit>>
     ELSE todo' = <<Audit>>
  /\ UNCHANGED <<memory, entries, nextSeq, folder, history>>

----------------------------------------------------------------------------
(* The writes.                                                             *)

Due(file) == host # "down" /\ todo # <<>> /\ Head(todo).file = file

(* Variant: a playbook that is there already is not written again.         *)
WriteSealedOnce ==
  /\ Due("sealed")
  /\ sealed' = [sealed EXCEPT ![Round][Head(todo).seat] =
                  IF @ = "none" THEN course[Round][Head(todo).seat] ELSE @]
  /\ todo' = Tail(todo)
  /\ UNCHANGED <<host, memory, entries, nextSeq, chain, save, log, history>>

WriteSealed ==
  /\ Due("sealed")
  /\ sealed' = [sealed EXCEPT ![Round][Head(todo).seat] =
                  course[Round][Head(todo).seat]]
  /\ todo' = Tail(todo)
  /\ UNCHANGED <<host, memory, entries, nextSeq, chain, save, log, history>>

WriteChain ==
  /\ Due("chain")
  /\ chain' = [chain EXCEPT ![Round] = {course}]
  /\ todo' = Tail(todo)
  /\ UNCHANGED <<host, memory, entries, nextSeq, sealed, save, log, history>>

(* write_save: a scratch file, and its rename over the save.  Only close   *)
(* says that it saved.                                                     *)
WriteSave ==
  /\ Due("save")
  /\ save' = {Head(todo).is}
  /\ todo' = Tail(todo)
  /\ IF host = "closing" THEN Record(1) ELSE UNCHANGED <<entries, nextSeq>>
  /\ UNCHANGED <<host, memory, sealed, chain, log, history>>

(* fs::write over a playbook or a chain, begun and not finished.           *)
Torn ==
  \/ /\ Due("sealed")
     /\ sealed' = [sealed EXCEPT ![Round][Head(todo).seat] = "torn"]
     /\ UNCHANGED chain
  \/ /\ Due("chain")
     /\ chain' = [chain EXCEPT ![Round] = {}]
     /\ UNCHANGED sealed

(* A write is refused, before it began or half way: the flush goes on, and *)
(* the log will say so.  A save's scratch file is all its refusal leaves.  *)
WriteFails ==
  /\ Cardinality(failures) < MaxFailures
  /\ \/ Torn
     \/ /\ Due("sealed") \/ Due("chain") \/ Due("save")
        /\ UNCHANGED <<sealed, chain>>
  /\ failures' = failures \union {Head(todo).file}
  /\ todo' = Tail(todo)
  /\ Record(1)
  /\ UNCHANGED <<host, memory, save, log, process, watched, minted>>

(* What the log reads as once these lines are in it: the first is glued to *)
(* a last line that was cut, whose number stays.                           *)
Appended(lines) ==
  LET read == IF log.end = "whole" THEN lines ELSE lines \ {Min(lines)}
  IN [last |-> Max(read \union {log.last}), end |-> "whole"]

(* What a process that ends takes with it.                                 *)
Gone ==
  /\ host' = "down" /\ todo' = <<>> /\ entries' = {}
  /\ phase' = "lull" /\ course' = <<>> /\ nextSeq' = 1 /\ generation' = -1

(* The host is down once the flush that closes it is over.                 *)
Flushed ==
  IF host = "closing" THEN Gone
  ELSE entries' = {} /\ todo' = <<>> /\ UNCHANGED <<host, memory, nextSeq>>

AppendAudit ==
  /\ Due("audit")
  /\ log' = IF entries = {} THEN log ELSE Appended(entries)
  /\ Flushed
  /\ UNCHANGED <<sealed, chain, save, history>>

(* The append fails with the first lines written and the next one cut, or  *)
(* with nothing written.  Nothing looks at the failure: the lines are gone.*)
CutOff(whole, end) ==
  LET before == IF whole = {} THEN log ELSE Appended(whole)
      cut == Min(entries \ whole)
  IN IF end = "whole" THEN before
     ELSE [last |-> IF end = "ticked" /\ before.end = "whole"
                    THEN Max({cut, before.last}) ELSE before.last,
           end |-> IF before.end = "whole" THEN end ELSE "ticked"]

AppendsPartly ==
  /\ Due("audit") /\ entries # {}
  /\ \E n \in 0..Cardinality(entries) - 1, end \in {"whole", "blank", "ticked"} :
       log' = CutOff({q \in entries : q < Min(entries) + n}, end)
  /\ failures' = failures \union {"audit"}

AppendFails ==
  /\ Cardinality(failures) < MaxFailures
  /\ AppendsPartly
  /\ Flushed
  /\ UNCHANGED <<sealed, chain, save, process, watched, minted>>

----------------------------------------------------------------------------
(* The process dies, between two steps or in a write.                      *)

Dies ==
  /\ host # "down"
  /\ Gone
  /\ UNCHANGED <<save, process, watched, minted>>

Crash ==
  /\ Dies
  /\ UNCHANGED <<sealed, chain, log, failures>>

CrashInWrite ==
  /\ Dies
  /\ \/ Torn /\ UNCHANGED <<log, failures>>
     \/ AppendsPartly /\ UNCHANGED <<sealed, chain>>

Next ==
  \/ Open \/ Resume
  \/ Call \/ EndLull \/ AdvancePush \/ EndRecap \/ Stop
  \/ WriteSealed \/ WriteChain \/ WriteSave \/ AppendAudit
  \/ WriteFails \/ AppendFails
  \/ Crash \/ CrashInWrite

Spec == Init /\ [][Next]_vars

----------------------------------------------------------------------------
(* Properties.                                                             *)

Courses == UNION {[1..n -> Orders] : n \in 0..RoundLimit}

TypeOK ==
  /\ host \in {"down", "up", "closing"}
  /\ phase \in {"lull", "push", "recap", "ended"}
  /\ course \in Courses /\ Round \in 1..RoundLimit
  /\ entries \subseteq 1..(nextSeq - 1)
  /\ nextSeq \in Nat \ {0} /\ generation \in Nat \union {-1}
  /\ sealed \in [1..RoundLimit -> [Seats -> Plans \union {"none", "torn"}]]
  /\ \A r \in 1..RoundLimit :
       /\ Cardinality(chain[r]) <= 1
       /\ \A c \in chain[r] : c \in Courses /\ Len(c) = r
  /\ Cardinality(save) <= 1
  /\ \A s \in save : s.boundary \in {"lull", "sealed"} /\ s.course \in Courses
  /\ log.last \in Nat /\ log.end \in {"whole", "blank", "ticked"}

(* No tick of a Push is played before the save that would replay it is on  *)
(* disk, so what a client has watched of a round is what every later       *)
(* process plays of it (surface.rs, persist_push: "after every seal is     *)
(* final and the safe playbooks are filed, before the first tick"), unless *)
(* the file system refused a save.                                         *)
WatchedPushIsReplayed ==
  host = "up" /\ "save" \notin failures =>
    \A r \in 1..RoundLimit : \A c \in watched[r] :
      r <= Len(course) /\ c = SubSeq(course, 1, r)

(* A chain in the folder is that of the playbooks in it: replaying what is *)
(* sealed there, from the first round on, gives the hashes that are there. *)
(* A playbook a crash tore is one the save will have written again.        *)
ReplayInputsAgree ==
  {"save", "sealed"} \intersect failures = {} =>
    \A r \in 1..RoundLimit : \A c \in chain[r] : \A q \in 1..r, s \in Seats :
      \/ sealed[q][s] = c[q][s]
      \/ /\ sealed[q][s] = "torn"
         /\ \E sv \in save : sv.boundary = "sealed" /\ Len(sv.course) = q

(* The one save goes forward only: what it holds of the match's course is  *)
(* never taken back by a later one, a resumed process's included.          *)
SavesGoForward ==
  [][\A s \in save, t \in save' :
       s # t => /\ IsPrefix(s.course, t.course)
                /\ s.course = t.course => t.boundary = "lull"]_vars

(* No two processes answered a call under one resumed view's id            *)
(* (viewfeed.rs of the generation: "a value no earlier process of this     *)
(* match minted a view under"), unless an append was cut or refused.       *)
ViewsAreOnesOwn ==
  "audit" \notin failures =>
    \A m, n \in minted : m.generation = n.generation /\ m.generation # -1 =>
      m.by = n.by
=============================================================================
