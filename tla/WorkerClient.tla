---------------------------- MODULE WorkerClient ----------------------------
(***************************************************************************)
(* Generate in the browser: the client that runs the pipeline in a web     *)
(* worker (api/wasm-worker-client.ts, api/wasm.worker.ts).  Calls share    *)
(* one worker, which takes them in order; to cancel one is to terminate    *)
(* the worker.  A worker that reported an error is dropped but not         *)
(* terminated: it may go on answering, and may report again.               *)
(***************************************************************************)
EXTENDS Naturals, Sequences

CONSTANTS
    Calls,       \* each is made once
    MaxWorkers,  \* bound: workers ever spawned
    MaxErrors    \* bound: error events of one worker

VARIABLES
    current,   \* the worker in use, or 0
    spawned,   \* workers spawned so far
    alive,     \* workers not terminated
    queue,     \* requests posted to each worker: calls and their ids
    inbox,     \* messages a worker has posted
    errors,    \* error events a worker may still raise
    nextId,
    pending,   \* pending[c]: the id of a call in flight, 0 for none
    status,    \* the caller's promise (module GenerateCall)
    aborted,   \* calls whose own signal fired
    reached,   \* calls an abort has reached: the worker was theirs too
    wanted     \* the call whose request was answered, or "none"

workers == <<current, spawned, alive, queue, inbox, errors>>
client == <<nextId, pending, status, aborted, reached, wanted>>
vars == <<workers, client>>

Workers == 1..MaxWorkers
InFlight == {c \in Calls : pending[c] # 0}

Init ==
    /\ current = 1 /\ spawned = 1 /\ alive = {1}
    /\ queue = [w \in Workers |-> <<>>] /\ inbox = [w \in Workers |-> <<>>]
    /\ errors = [w \in Workers |-> MaxErrors]
    /\ nextId = 1 /\ pending = [c \in Calls |-> 0]
    /\ status = [c \in Calls |-> "idle"] /\ aborted = {} /\ reached = {}
    /\ wanted = [c \in Calls |-> "none"]

----------------------------------------------------------------------------
(* Mutant: ids begin again with each worker.                               *)
Id_PerWorker == IF current = 0 THEN 1 ELSE nextId

Id == nextId

(* ensureWorker; it comes before the look at the signal.                   *)
EnsureWorker ==
    IF current # 0 THEN UNCHANGED <<current, spawned, alive>>
    ELSE /\ spawned < MaxWorkers
         /\ spawned' = spawned + 1 /\ current' = spawned' /\ alive' = alive \cup {spawned'}

CallAborted(c) ==
    /\ status[c] = "idle" /\ c \in aborted
    /\ EnsureWorker
    /\ nextId' = nextId + 1
    /\ status' = [status EXCEPT ![c] = "cancelled"] /\ reached' = reached \cup {c}
    /\ UNCHANGED <<queue, inbox, errors, pending, aborted, wanted>>

Call(c) ==
    /\ status[c] = "idle" /\ c \notin aborted
    /\ EnsureWorker
    /\ nextId' = Id + 1
    /\ pending' = [pending EXCEPT ![c] = Id]
    /\ status' = [status EXCEPT ![c] = "pending"]
    /\ queue' = [queue EXCEPT ![current'] = Append(@, [call |-> c, id |-> Id])]
    /\ UNCHANGED <<inbox, errors, aborted, reached, wanted>>

(* Mutant: only the aborted call is rejected.                              *)
RejectAll_Own(C, verdict) ==
    LET R == IF verdict = "cancelled" THEN C ELSE InFlight IN
    /\ status' = [c \in Calls |-> IF c \in R THEN verdict ELSE status[c]]
    /\ pending' = [c \in Calls |-> IF c \in R THEN 0 ELSE pending[c]]

(* Every call in flight is rejected, C among them.                         *)
RejectAll(C, verdict) ==
    /\ status' = [c \in Calls |-> IF c \in InFlight THEN verdict ELSE status[c]]
    /\ pending' = [c \in Calls |-> 0]

(* cancelHard; the listener is there only while the call is in flight.     *)
Abort(c) ==
    /\ c \notin aborted
    /\ aborted' = aborted \cup {c}
    /\ IF pending[c] = 0 THEN UNCHANGED <<workers, pending, status, reached>>
       ELSE /\ reached' = reached \cup InFlight
            /\ RejectAll({c}, "cancelled")
            /\ current' = 0 /\ alive' = alive \ {current}
            /\ UNCHANGED <<spawned, queue, inbox, errors>>
    /\ UNCHANGED <<nextId, wanted>>

(* onerror; the worker is dropped and lives on.                            *)
WorkerErrs(w) ==
    /\ w \in alive /\ errors[w] > 0
    /\ errors' = [errors EXCEPT ![w] = @ - 1]
    /\ current' = 0
    /\ RejectAll({}, "error")
    /\ UNCHANGED <<spawned, alive, queue, inbox, nextId, aborted, reached, wanted>>

(* The worker serves a request and posts the answer under the request's id.*)
Serves(w) ==
    /\ w \in alive /\ queue[w] # <<>>
    /\ queue' = [queue EXCEPT ![w] = Tail(@)]
    /\ \E kind \in {"result", "error"} :
        inbox' = [inbox EXCEPT ![w] =
            Append(@, [call |-> Head(queue[w]).call, id |-> Head(queue[w]).id, kind |-> kind])]
    /\ UNCHANGED <<current, spawned, alive, errors, client>>

(* onMessage: an id that is not in flight is ignored.                      *)
Message(w) ==
    /\ w \in alive /\ inbox[w] # <<>>
    /\ inbox' = [inbox EXCEPT ![w] = Tail(@)]
    /\ LET m == Head(inbox[w])
           C == {c \in InFlight : pending[c] = m.id}
       IN  /\ pending' = [c \in Calls |-> IF c \in C THEN 0 ELSE pending[c]]
           /\ status' = [c \in Calls |-> IF c \in C THEN m.kind ELSE status[c]]
           /\ wanted' = [c \in Calls |-> IF c \in C THEN m.call ELSE wanted[c]]
    /\ UNCHANGED <<current, spawned, alive, queue, errors, nextId, aborted, reached>>

Next ==
    \/ \E c \in Calls : Call(c) \/ CallAborted(c) \/ Abort(c)
    \/ \E w \in Workers : WorkerErrs(w) \/ Serves(w) \/ Message(w)

(* A live worker works through its queue and the page through its events.  *)
Spec ==
    /\ Init /\ [][Next]_vars
    /\ \A w \in Workers : WF_vars(Serves(w)) /\ WF_vars(Message(w))

----------------------------------------------------------------------------
TypeOK ==
    /\ current \in 0..spawned /\ spawned \in Workers /\ alive \subseteq 1..spawned
    /\ errors \in [Workers -> 0..MaxErrors]
    /\ aborted \cup reached \subseteq Calls
    /\ \A w \in Workers : Len(queue[w]) + Len(inbox[w]) < nextId

(* A call is answered with the answer to its own request, although dropped *)
(* workers go on answering requests that were rejected long before.        *)
AnswerIsOwn == \A c \in Calls : wanted[c] \in {"none", c}
=============================================================================
