---------------------------- MODULE UploadServer ----------------------------
(***************************************************************************)
(* The upload server of research/vendorchain/server.py.  Handlers are      *)
(* coroutines of one event loop: a handler runs alone from one await to    *)
(* the next, so that is an action.  Pipelines run on a pool of threads,    *)
(* truly beside the loop, on the very buffer the handler received into.    *)
(* When the loop is stopped, it cancels every handler at its await, but a  *)
(* thread cannot be cancelled.                                             *)
(*                                                                         *)
(* Headers are reduced to the branch they take, a body to how far it has   *)
(* come, a pipeline to its reads of the buffer and its outcome.            *)
(***************************************************************************)
EXTENDS Integers, Sequences, FiniteSets, Functions

CONSTANTS
  Requests,      \* connections that may be open at once
  Lengths,       \* Content-Length values clients declare
  MaxBytes,      \* 5 MiB: the longest document
  MaxPending,    \* max_pending
  BufferLimit,   \* 64 MiB: the sum of the receive buffers
  Workers        \* threads of the pool

VARIABLES
  closing,   \* the loop is being stopped
  pc,        \* where each handler awaits
  code,      \* the answer it will give: 200, or one of the errors
  length,    \* the length of its receive buffer
  reserved,  \* what it has reserved of the buffer limit
  body,      \* what is in the buffer
  thread,    \* the pipeline call made for the request
  outcome,   \* how that call ended
  stored,    \* what the pipeline encrypted and stored
  queue,     \* calls handed to the pool, in order, cancelled ones included
  waiting, active, buffered   \* the server's counters

counters == <<waiting, active, buffered>>
calls == <<thread, outcome, stored, queue>>
vars == <<closing, pc, code, length, reserved, body, calls, counters>>

Running == {"gate", "store", "commit"}
ASSUME ServerAssumption ==
  /\ IsFiniteSet(Requests)
  /\ Lengths \subseteq Nat
  /\ {MaxBytes, MaxPending, BufferLimit, Workers} \subseteq Nat

TypeOK ==
  /\ closing \in BOOLEAN
  /\ pc \in [Requests -> {"closed", "header", "body", "pipeline", "answer"}]
  /\ code \in [Requests -> {"none", "ok", "error"}]
  /\ length \in [Requests -> Lengths \cup {0}]
  /\ reserved \in [Requests -> Lengths \cup {0}]
  /\ body \in [Requests -> {"none", "partial", "sent", "zeros"}]
  /\ thread \in [Requests -> {"none", "queued", "ended"} \cup Running]
  /\ outcome \in [Requests -> {"none", "ok", "error"}]
  /\ stored \in [Requests -> {"none", "sent", "zeros"}]
  /\ queue \in Seq(Requests)
  /\ waiting \in 0..MaxPending
  /\ active \in 0..MaxPending
  /\ buffered \in 0..BufferLimit

Init ==
  /\ closing = FALSE
  /\ pc = [r \in Requests |-> "closed"]
  /\ code = [r \in Requests |-> "none"]
  /\ length = [r \in Requests |-> 0]
  /\ reserved = [r \in Requests |-> 0]
  /\ body = [r \in Requests |-> "none"]
  /\ thread = [r \in Requests |-> "none"]
  /\ outcome = [r \in Requests |-> "none"]
  /\ stored = [r \in Requests |-> "none"]
  /\ queue = <<>>
  /\ waiting = 0 /\ active = 0 /\ buffered = 0
----------------------------------------------------------------------------
(* The handler. *)

\* Handlers run on until the loop is stopped.
At(r, where) == ~closing /\ pc[r] = where

\* The outer finally: the buffer is wiped, the reservation given back, the
\* answer written.  It runs on every way out, and without an await before it.
Finish(r, c) ==
  /\ pc' = [pc EXCEPT ![r] = "answer"]
  /\ code' = [code EXCEPT ![r] = c]
  /\ body' = [body EXCEPT ![r] = IF @ = "none" THEN @ ELSE "zeros"]
  /\ waiting' = IF reserved[r] > 0 THEN waiting - 1 ELSE waiting
  /\ buffered' = buffered - reserved[r]
  /\ reserved' = [reserved EXCEPT ![r] = 0]
  /\ UNCHANGED <<closing, length>>

Connect(r) ==
  /\ At(r, "closed")
  /\ pc' = [pc EXCEPT ![r] = "header"]
  /\ code' = [code EXCEPT ![r] = "error"]
  /\ UNCHANGED <<closing, length, reserved, body, calls, counters>>

\* The health answer; 401, 404, a header that is malformed or cut short.
AnswerHeader(r) ==
  /\ At(r, "header")
  /\ \E c \in {"ok", "error"} : Finish(r, c)
  /\ UNCHANGED <<calls, active>>

HeaderTimeout(r) ==
  /\ At(r, "header")
  /\ Finish(r, "error")
  /\ UNCHANGED <<calls, active>>

\* An upload that is not admitted: capacity, length, budget, in this order.
Refuse(r, n) ==
  /\ At(r, "header")
  /\ \/ waiting >= MaxPending /\ Finish(r, "error")
     \/ waiting < MaxPending /\ n \notin 1..MaxBytes /\ Finish(r, "error")
     \/ /\ waiting < MaxPending /\ n \in 1..MaxBytes
        /\ buffered + n > BufferLimit
        /\ Finish(r, "error")
  /\ UNCHANGED <<calls, active>>

\* Faulty variant: the budget is compared with what is reserved already.
AdmitLate(r, n) ==
  /\ At(r, "header")
  /\ waiting < MaxPending /\ n \in 1..MaxBytes /\ buffered < BufferLimit
  /\ pc' = [pc EXCEPT ![r] = "body"]
  /\ waiting' = waiting + 1
  /\ buffered' = buffered + n
  /\ reserved' = [reserved EXCEPT ![r] = n]
  /\ length' = [length EXCEPT ![r] = n]
  /\ body' = [body EXCEPT ![r] = "partial"]
  /\ UNCHANGED <<closing, code, calls, active>>

Admit(r, n) ==
  /\ At(r, "header")
  /\ waiting < MaxPending /\ n \in 1..MaxBytes /\ buffered + n <= BufferLimit
  /\ pc' = [pc EXCEPT ![r] = "body"]
  /\ waiting' = waiting + 1
  /\ buffered' = buffered + n
  /\ reserved' = [reserved EXCEPT ![r] = n]
  /\ length' = [length EXCEPT ![r] = n]
  /\ body' = [body EXCEPT ![r] = "partial"]
  /\ UNCHANGED <<closing, code, calls, active>>

BodyCut(r) ==
  /\ At(r, "body")
  /\ Finish(r, "error")
  /\ UNCHANGED <<calls, active>>

\* Faulty variant: the body may take as long as the client likes.
BodyUntimed(r) == FALSE /\ BodyCut(r)

BodyTimeout(r) ==
  /\ At(r, "body")
  /\ Finish(r, "error")
  /\ UNCHANGED <<calls, active>>

\* Faulty variant: the reservation ends with the reception.
DispatchReleased(r) ==
  /\ At(r, "body")
  /\ pc' = [pc EXCEPT ![r] = "pipeline"]
  /\ body' = [body EXCEPT ![r] = "sent"]
  /\ active' = active + 1
  /\ thread' = [thread EXCEPT ![r] = "queued"]
  /\ queue' = Append(queue, r)
  /\ waiting' = waiting - 1
  /\ buffered' = buffered - reserved[r]
  /\ reserved' = [reserved EXCEPT ![r] = 0]
  /\ UNCHANGED <<closing, code, length, outcome, stored>>

\* The body is complete and the pipeline handed to the pool.
Dispatch(r) ==
  /\ At(r, "body")
  /\ pc' = [pc EXCEPT ![r] = "pipeline"]
  /\ body' = [body EXCEPT ![r] = "sent"]
  /\ active' = active + 1
  /\ thread' = [thread EXCEPT ![r] = "queued"]
  /\ queue' = Append(queue, r)
  /\ UNCHANGED <<closing, code, length, reserved, outcome, stored, waiting, buffered>>

\* Faulty variant: only a successful call reaches the decrement.
ResumeLeaking(r) ==
  /\ At(r, "pipeline") /\ thread[r] = "ended"
  /\ active' = IF outcome[r] = "ok" THEN active - 1 ELSE active
  /\ Finish(r, outcome[r])
  /\ UNCHANGED calls

\* The call has returned, or raised what an except clause makes an error of.
Resume(r) ==
  /\ At(r, "pipeline") /\ thread[r] = "ended"
  /\ active' = active - 1
  /\ Finish(r, outcome[r])
  /\ UNCHANGED calls

\* A cancelled handler abandons its call: one that still waits for a thread will
\* not be made, and one that has a thread runs on.  CancelledError passes every
\* except clause.
Cancel(r) ==
  /\ closing
  /\ pc[r] \in {"header", "body", "pipeline"}
  /\ active' = IF pc[r] = "pipeline" THEN active - 1 ELSE active
  /\ thread' = [thread EXCEPT ![r] = IF @ = "queued" THEN "none" ELSE @]
  /\ Finish(r, "error")
  /\ UNCHANGED <<outcome, stored, queue>>

\* The handler's locals are gone; a thread that outlives it keeps the buffer.
Close(r) ==
  /\ pc[r] = "answer"
  /\ pc' = [pc EXCEPT ![r] = "closed"]
  /\ code' = [code EXCEPT ![r] = "none"]
  /\ IF thread[r] \in Running
     THEN UNCHANGED <<length, body, thread, outcome, stored>>
     ELSE /\ length' = [length EXCEPT ![r] = 0]
          /\ body' = [body EXCEPT ![r] = "none"]
          /\ thread' = [thread EXCEPT ![r] = "none"]
          /\ outcome' = [outcome EXCEPT ![r] = "none"]
          /\ stored' = [stored EXCEPT ![r] = "none"]
  /\ UNCHANGED <<closing, reserved, queue, counters>>

Shutdown ==
  /\ ~closing
  /\ closing' = TRUE
  /\ UNCHANGED <<pc, code, length, reserved, body, calls, counters>>
----------------------------------------------------------------------------
(* The pipeline call, on a thread of the pool. *)

handler == <<closing, pc, code, length, reserved, counters>>

\* A thread takes the next call, unless that was cancelled.
StartCall ==
  /\ queue # <<>>
  /\ Cardinality({r \in Requests : thread[r] \in Running}) < Workers
  /\ thread' = [thread EXCEPT ![Head(queue)] = IF @ = "queued" THEN "gate" ELSE @]
  /\ queue' = Tail(queue)
  /\ UNCHANGED <<handler, body, outcome, stored>>

EndCall(r, o) ==
  /\ thread' = [thread EXCEPT ![r] = "ended"]
  /\ outcome' = [outcome EXCEPT ![r] = o]

\* The sandbox gets a copy of the buffer, and refuses zeros.  A retry instead
\* compares the buffer with the row it finds, with the same verdicts.
Gate(r) ==
  /\ thread[r] = "gate" /\ body[r] = "sent"
  /\ thread' = [thread EXCEPT ![r] = "store"]
  /\ UNCHANGED <<handler, body, outcome, stored, queue>>

\* ingest wipes the buffer on its way out.
GateFails(r) ==
  /\ thread[r] = "gate"
  /\ EndCall(r, "error")
  /\ body' = [body EXCEPT ![r] = "zeros"]
  /\ UNCHANGED <<handler, stored, queue>>

Store(r) ==
  /\ thread[r] = "store"
  /\ stored' = [stored EXCEPT ![r] = body[r]]
  /\ thread' = [thread EXCEPT ![r] = "commit"]
  /\ body' = [body EXCEPT ![r] = "zeros"]
  /\ UNCHANGED <<handler, outcome, queue>>

\* process and deliver, or a store that failed.
Complete(r) ==
  /\ thread[r] = "commit"
  /\ \E o \in {"ok", "error"} : EndCall(r, o)
  /\ UNCHANGED <<handler, body, stored, queue>>
----------------------------------------------------------------------------
Handle(r) ==
  \/ Connect(r) \/ AnswerHeader(r) \/ HeaderTimeout(r)
  \/ \E n \in Lengths : Refuse(r, n) \/ Admit(r, n)
  \/ BodyCut(r) \/ BodyTimeout(r) \/ Dispatch(r) \/ Resume(r) \/ Cancel(r) \/ Close(r)

Execute(r) == Gate(r) \/ GateFails(r) \/ Store(r) \/ Complete(r)

Next ==
  \/ \E r \in Requests : Handle(r) \/ Execute(r)
  \/ StartCall \/ Shutdown

Spec == Init /\ [][Next]_vars

\* Timeouts fire, finished calls resume their handlers, cancellations are
\* delivered, the pool works its queue, and calls end since every subprocess
\* and request in them has a timeout.  Clients owe nothing.
FairSpec ==
  /\ Spec
  /\ WF_vars(StartCall)
  /\ \A r \in Requests :
       /\ WF_vars(HeaderTimeout(r)) /\ WF_vars(BodyTimeout(r))
       /\ WF_vars(Resume(r)) /\ WF_vars(Cancel(r)) /\ WF_vars(Execute(r))
----------------------------------------------------------------------------
\* The counters are what the handlers hold, whichever way each of them left,
\* so that capacity is neither lost nor given twice (server.py:58-60, 86, 100).
CountersExact ==
  /\ waiting = Cardinality({r \in Requests : reserved[r] > 0})
  /\ buffered = SumFunction(reserved)
  /\ active = Cardinality({r \in Requests : pc[r] = "pipeline"})

\* A buffer lives as long as a handler or a thread works on it; all of them
\* together stay within the limit, also after handlers were cancelled and have
\* given their reservations back (server.py:55).
Alive(r) == pc[r] \in {"body", "pipeline"} \/ thread[r] \in Running

MemoryBounded ==
  SumFunction([r \in Requests |-> IF Alive(r) THEN length[r] ELSE 0]) <= BufferLimit

\* An upload that is answered 200 has stored what its client sent, and not
\* what a wipe left of it (server.py:79-84).
AcknowledgedIsStored ==
  \A r \in Requests :
    pc[r] = "answer" /\ code[r] = "ok" /\ length[r] > 0 => stored[r] = "sent"

\* The pipeline never stores a buffer that was wiped under it
\* (the comment at server.py:61).
StoresWhatWasSent == \A r \in Requests : stored[r] \in {"none", "sent"}

\* Whatever client, pipeline or shutdown do, a reservation is given back.
CapacityReturns == \A r \in Requests : reserved[r] > 0 ~> reserved[r] = 0

=============================================================================
