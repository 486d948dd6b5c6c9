-------------------------- MODULE MCGenerateCalls --------------------------
(***************************************************************************)
(* The three transports of WiacClient.generateStreaming side by side: a    *)
(* behaviour uses one of them, the one the page chose when it was loaded   *)
(* (api/http.ts, defaultClient).  The variables they have in common are    *)
(* shared; those of the other two rest.                                    *)
(***************************************************************************)
EXTENDS GenerateStream

CONSTANTS ListensInTime, MaxWorkers, MaxErrors

VARIABLES
    transport,
    ready, signalled, listening, armed, calls,                 \* ShellStream
    inbox,                                                     \* it and WorkerClient
    current, spawned, alive, queue, errors, nextId, pending, reached, wanted

Shell == INSTANCE ShellStream WITH Callers <- Clients
Web == INSTANCE WorkerClient WITH Calls <- Clients

ASSUME CallsAssumption ==
    ListensInTime \in BOOLEAN /\ MaxWorkers \in Nat \ {0} /\ MaxErrors \in Nat

httpOnly == <<frames, sender, receiver, opsLeft, heard, posts>>
shellOnly == <<ready, signalled, listening, armed, calls>>
webOnly == <<current, spawned, alive, queue, errors, nextId, pending, reached, wanted>>
streams == <<nextToken, tokens, flag, worker, outcome, token>>
all == <<transport, vars, shellOnly, webOnly, inbox>>

Nothing == <<>>
HttpRests ==
    frames = Nothing /\ sender = {} /\ receiver = {} /\ opsLeft = Nothing
    /\ heard = Nothing /\ posts = {}
ShellRests == ready = {} /\ signalled = {} /\ listening = Nothing /\ armed = {} /\ calls = {}
WebRests ==
    current = 0 /\ spawned = 0 /\ alive = {} /\ queue = Nothing /\ errors = Nothing
    /\ nextId = 1 /\ pending = Nothing /\ reached = {} /\ wanted = Nothing
StreamsRest ==
    nextToken = 1 /\ tokens = Nothing /\ flag = {} /\ token = Nothing
    /\ worker = [c \in Clients |-> "none"] /\ outcome = Nothing

CallsInit ==
    \/ transport = "http" /\ Init /\ ShellRests /\ WebRests /\ inbox = Nothing
    \/ transport = "shell" /\ Shell!Init /\ HttpRests /\ WebRests
    \/ transport = "web" /\ Web!Init /\ HttpRests /\ ShellRests /\ StreamsRest

OverHttp(A) == transport = "http" /\ A /\ UNCHANGED <<transport, shellOnly, webOnly, inbox>>
InShell(A) == transport = "shell" /\ A /\ UNCHANGED <<transport, httpOnly, webOnly>>
InBrowser(A) == transport = "web" /\ A /\ UNCHANGED <<transport, httpOnly, shellOnly, streams>>

CallsNext == OverHttp(Next) \/ InShell(Shell!Next) \/ InBrowser(Web!Next)

(* The fairness of each transport, as its module states it.                *)
CallsSpec ==
    /\ CallsInit /\ [][CallsNext]_all
    /\ \A c \in Clients :
        /\ WF_all(OverHttp(Work(c))) /\ WF_all(OverHttp(Reads(c)))
        /\ WF_all(InShell(Shell!TimesOut(c))) /\ WF_all(InShell(Shell!Answers(c)))
        /\ WF_all(InShell(\E v \in Verdicts : Shell!Returns(c, v)))
        /\ WF_all(InShell((\E v \in Verdicts : Shell!Listens(c, v)) \/ Shell!Arms(c)))
        /\ WF_all(InShell(Shell!Hears(c)))
    /\ \A w \in 1..MaxWorkers : WF_all(InBrowser(Web!Serves(w))) /\ WF_all(InBrowser(Web!Message(w)))

----------------------------------------------------------------------------
(* main.rs, generate_stream, and commands.rs, generate_streaming_cmd: a    *)
(* run that is over has left the registries, whether its caller listened,  *)
(* broke off or never said that it listens.  Only a panic under HTTP       *)
(* leaves its token behind.                                                *)
NoRunLeaks ==
    /\ transport = "http" => NoTokenLeaks
    /\ transport = "shell" => Shell!NothingLeaks

(* http.ts: the verdict heard is the one the caller's own run returned;    *)
(* wasm-worker-client.ts: the answer is the one to the caller's request,   *)
(* although dropped workers go on answering.                               *)
HearsOwnVerdict ==
    /\ transport = "http" => VerdictIsTheRuns
    /\ transport = "web" => Web!AnswerIsOwn

(* A worker thread ends although its caller stopped listening or never     *)
(* said that it listens, and with the channel full at that moment.         *)
ThreadsEnd ==
    \A c \in Clients :
        worker[c] \in {"parked", "running"} ~> worker[c] \in {"ended", "panicked"}

(* commands.rs, generate_streaming_ready_cmd: no terminal event is emitted *)
(* before its listener is registered.                                      *)
VerdictIsHeard ==
    [][\A c \in Clients :
        /\ transport = "shell" /\ worker[c] = "done" /\ worker'[c] = "ended"
        /\ status[c] = "pending"
        => outcome[c] \in listening[c]]_all

(* Every transport keeps the promise of WiacClient.generateStreaming.  In  *)
(* the browser an abort reaches every call the terminated worker held.     *)
Answered == INSTANCE GenerateCall WITH
    Calls <- Clients, aborted <- IF transport = "web" THEN reached ELSE aborted
EveryTransportKeepsIt == Answered!Spec
=============================================================================
