--------------------------- MODULE GenerateStream ---------------------------
(***************************************************************************)
(* Generate over HTTP: the server's /generate/stream and /generate/cancel  *)
(* handlers (ivac-server/src/main.rs), one blocking worker per request,    *)
(* the bounded channel between the worker and the response body, and the   *)
(* browser's reader of that body (api/http.ts).  A worker is reduced to    *)
(* what it sends: one event per operation, then its outcome.               *)
(***************************************************************************)
EXTENDS Naturals, Sequences, FiniteSets

CONSTANTS
    Clients,       \* each makes one request
    MaxOps,        \* bound: operations of a project
    ChannelSize,   \* 64 in the code
    NoToken

ASSUME StreamAssumption == MaxOps \in Nat /\ ChannelSize \in Nat \ {0} /\ NoToken \notin Nat

VARIABLES
    nextToken,   \* TOKEN_COUNTER
    tokens,      \* cancel_tokens: the run each live token cancels
    flag,        \* the runs whose CancelToken is set
    frames,      \* the channel of each run
    sender,      \* the runs whose worker still holds the sending end
    receiver,    \* the runs whose body is still being served
    worker,      \* "none", "running", "done", "ended" or "panicked"
    outcome,     \* what the worker's pipeline returned
    opsLeft,
    status,      \* the caller's promise (module GenerateCall)
    aborted,     \* the callers whose AbortSignal fired
    token,       \* the token a caller has read, or NoToken
    heard,       \* the verdict frame a caller has read, or "none"
    posts        \* cancel requests on the wire: tokens

server == <<nextToken, tokens, flag>>
channels == <<frames, sender, receiver>>
work == <<worker, outcome, opsLeft>>
browser == <<status, aborted, token, heard>>
vars == <<server, channels, work, browser, posts>>

Verdicts == {"result", "error", "cancelled"}

Init ==
    /\ nextToken = 1 /\ tokens = <<>> /\ flag = {} /\ posts = {}
    /\ frames = [c \in Clients |-> <<>>] /\ sender = {} /\ receiver = {}
    /\ worker = [c \in Clients |-> "none"]
    /\ outcome = [c \in Clients |-> "none"]
    /\ opsLeft = [c \in Clients |-> 0]
    /\ status = [c \in Clients |-> "idle"] /\ aborted = {}
    /\ token = [c \in Clients |-> NoToken] /\ heard = [c \in Clients |-> "none"]

----------------------------------------------------------------------------
(* The server. *)

(* Mutant: the number of live runs serves as the next token.               *)
TokenId_Recycled == Cardinality(DOMAIN tokens) + 1

TokenId == nextToken

(* generate_stream: the token is registered and its frame queued before    *)
(* the worker exists; the channel is new, so the send does not wait.       *)
Request(c) ==
    /\ status[c] = "idle"
    /\ status' = [status EXCEPT ![c] = "pending"]
    /\ nextToken' = nextToken + 1
    /\ tokens' = [t \in DOMAIN tokens \cup {TokenId} |-> IF t = TokenId THEN c ELSE tokens[t]]
    /\ frames' = [frames EXCEPT ![c] = <<[kind |-> "token", id |-> TokenId]>>]
    /\ sender' = sender \cup {c} /\ receiver' = receiver \cup {c}
    /\ worker' = [worker EXCEPT ![c] = "running"]
    /\ \E n \in 0..MaxOps : opsLeft' = [opsLeft EXCEPT ![c] = n]
    /\ UNCHANGED <<flag, outcome, aborted, token, heard, posts>>

(* Mutant: a send waits for room although nobody will read again.          *)
Send_Waits(c, kind) ==
    /\ Len(frames[c]) < ChannelSize
    /\ frames' = [frames EXCEPT ![c] = Append(@, [kind |-> kind, id |-> NoToken])]

(* blocking_send waits for room; once the body is gone it fails and the    *)
(* failure is ignored.                                                     *)
Send(c, kind) ==
    IF c \in receiver
    THEN /\ Len(frames[c]) < ChannelSize
         /\ frames' = [frames EXCEPT ![c] = Append(@, [kind |-> kind, id |-> NoToken])]
    ELSE UNCHANGED frames

(* The worker finishes one operation.                                      *)
OpDone(c) ==
    /\ worker[c] = "running" /\ c \notin flag /\ opsLeft[c] > 0
    /\ Send(c, "event")
    /\ opsLeft' = [opsLeft EXCEPT ![c] = @ - 1]
    /\ UNCHANGED <<server, sender, receiver, worker, outcome, browser, posts>>

Returned(c, verdict) ==
    /\ worker' = [worker EXCEPT ![c] = "done"]
    /\ outcome' = [outcome EXCEPT ![c] = verdict]
    /\ UNCHANGED <<server, sender, receiver, opsLeft, browser, posts>>

(* generate_streaming returns: Done and Cancelled are announced as events. *)
Completes(c) ==
    /\ worker[c] = "running" /\ opsLeft[c] = 0
    /\ Send(c, "event")
    /\ Returned(c, "result")

Fails(c) ==
    /\ worker[c] = "running"
    /\ UNCHANGED frames
    /\ Returned(c, "error")

SeesCancel(c) ==
    /\ worker[c] = "running" /\ c \in flag
    /\ Send(c, "event")
    /\ Returned(c, "cancelled")

(* The pipeline panics: the unwinding drops the sending end, and the       *)
(* token stays in the map.                                                 *)
Panics(c) ==
    /\ worker[c] = "running"
    /\ worker' = [worker EXCEPT ![c] = "panicked"]
    /\ sender' = sender \ {c}
    /\ UNCHANGED <<server, frames, receiver, outcome, opsLeft, browser, posts>>

RemoveToken(c) ==
    /\ worker[c] = "done" /\ \E t \in DOMAIN tokens : tokens[t] = c
    /\ tokens' = [t \in {t \in DOMAIN tokens : tokens[t] # c} |-> tokens[t]]
    /\ UNCHANGED <<nextToken, flag, channels, work, browser, posts>>

(* Mutant: the verdict goes out with the token still in the map.           *)
SendVerdict_TokenKept(c) ==
    /\ worker[c] = "done"
    /\ Send(c, outcome[c])
    /\ worker' = [worker EXCEPT ![c] = "ended"]
    /\ sender' = sender \ {c}
    /\ UNCHANGED <<server, receiver, outcome, opsLeft, browser, posts>>

(* The verdict is the last frame; the sending end is dropped after it.     *)
SendVerdict(c) ==
    /\ worker[c] = "done" /\ \A t \in DOMAIN tokens : tokens[t] # c
    /\ Send(c, outcome[c])
    /\ worker' = [worker EXCEPT ![c] = "ended"]
    /\ sender' = sender \ {c}
    /\ UNCHANGED <<server, receiver, outcome, opsLeft, browser, posts>>

(* generate_cancel; a token that is not in the map is answered and no more.*)
CancelArrives(t) ==
    /\ t \in posts
    /\ posts' = posts \ {t}
    /\ flag' = IF t \in DOMAIN tokens THEN flag \cup {tokens[t]} ELSE flag
    /\ UNCHANGED <<nextToken, tokens, channels, work, browser>>

CancelLost(t) ==
    /\ t \in posts
    /\ posts' = posts \ {t}
    /\ UNCHANGED <<server, channels, work, browser>>

----------------------------------------------------------------------------
(* The browser. *)

(* The token frame also carries an abort that came before it.              *)
ReadFrame(c) ==
    /\ c \in receiver /\ status[c] = "pending" /\ frames[c] # <<>>
    /\ LET f == Head(frames[c]) IN
        /\ token' = IF f.kind = "token" THEN [token EXCEPT ![c] = f.id] ELSE token
        /\ posts' = IF f.kind = "token" /\ c \in aborted THEN posts \cup {f.id} ELSE posts
        /\ heard' = IF f.kind \in Verdicts THEN [heard EXCEPT ![c] = f.kind] ELSE heard
    /\ frames' = [frames EXCEPT ![c] = Tail(@)]
    /\ UNCHANGED <<server, sender, receiver, work, status, aborted>>

(* The body has ended: the promise settles, and a body without a verdict   *)
(* is an error ("closed before emitting a result").                        *)
BodyEnds(c) ==
    /\ c \in receiver /\ status[c] = "pending" /\ frames[c] = <<>> /\ c \notin sender
    /\ status' = [status EXCEPT ![c] = IF heard[c] = "none" THEN "error" ELSE heard[c]]
    /\ receiver' = receiver \ {c}
    /\ UNCHANGED <<server, frames, sender, work, aborted, token, heard, posts>>

(* The abort handler exists between the token frame and the end.           *)
Abort(c) ==
    /\ c \notin aborted /\ status[c] = "pending"
    /\ aborted' = aborted \cup {c}
    /\ posts' = IF token[c] # NoToken THEN posts \cup {token[c]} ELSE posts
    /\ UNCHANGED <<server, channels, work, status, token, heard>>

(* The connection breaks: the read throws and the body is dropped.         *)
Disconnect(c) ==
    /\ c \in receiver /\ status[c] = "pending"
    /\ status' = [status EXCEPT ![c] = "error"]
    /\ receiver' = receiver \ {c}
    /\ frames' = [frames EXCEPT ![c] = <<>>]
    /\ UNCHANGED <<server, sender, work, aborted, token, heard, posts>>

Work(c) == OpDone(c) \/ Completes(c) \/ SeesCancel(c) \/ RemoveToken(c) \/ SendVerdict(c)
Reads(c) == ReadFrame(c) \/ BodyEnds(c)

Next ==
    \/ \E c \in Clients :
        \/ Request(c) \/ Work(c) \/ Fails(c) \/ Panics(c)
        \/ Reads(c) \/ Abort(c) \/ Disconnect(c)
    \/ \E t \in posts : CancelArrives(t) \/ CancelLost(t)

(* A worker has a thread of its own and a reader awaits in a loop; nobody  *)
(* owes a request, an abort, a failure or a cancel that arrives.           *)
Spec ==
    /\ Init /\ [][Next]_vars
    /\ \A c \in Clients : WF_vars(Work(c)) /\ WF_vars(Reads(c))

----------------------------------------------------------------------------
TypeOK ==
    /\ nextToken \in 1..(Cardinality(Clients) + 1)
    /\ DOMAIN tokens \subseteq 1..Cardinality(Clients)
    /\ \A t \in DOMAIN tokens : tokens[t] \in Clients
    /\ flag \cup sender \cup receiver \cup aborted \subseteq Clients
    /\ worker \in [Clients -> {"none", "running", "done", "ended", "panicked"}]
    /\ outcome \in [Clients -> Verdicts \cup {"none"}]
    /\ heard \in [Clients -> Verdicts \cup {"none"}]
    /\ opsLeft \in [Clients -> 0..MaxOps]
    /\ \A c \in Clients : Len(frames[c]) <= ChannelSize

(* A cancel request stops the run of the caller who sent it and no other,  *)
(* although it may arrive after that run has ended and others have begun.  *)
CancelHitsOwnRun == flag \subseteq aborted

(* The map of cancel tokens holds live runs and panicked ones: a finished  *)
(* run leaves nothing behind, whether or not its caller still listens.     *)
NoTokenLeaks == \A t \in DOMAIN tokens : worker[tokens[t]] \notin {"none", "ended"}

(* The verdict a caller hears is the one its own run returned, and the     *)
(* body goes on to its end after it: nothing follows the verdict.          *)
VerdictIsTheRuns ==
    \A c \in Clients : heard[c] # "none" => heard[c] = outcome[c] /\ frames[c] = <<>>
=============================================================================
