---------------------------- MODULE ShellStream ----------------------------
(***************************************************************************)
(* Generate in the desktop shell: the commands generate_streaming_cmd,     *)
(* generate_streaming_ready_cmd and cancel_generate (ivac-tauri/src/       *)
(* commands.rs) and their caller (api/tauri.ts).  A worker's answers are   *)
(* broadcast events: one that is emitted while nobody listens is lost, so  *)
(* the worker is parked until the caller says that it listens, or for two  *)
(* seconds.                                                                *)
(***************************************************************************)
EXTENDS Naturals, Sequences, FiniteSets

CONSTANTS
    Callers,       \* each makes one call
    NoToken,
    ListensInTime  \* listening never takes the two seconds

VARIABLES
    nextToken,
    tokens,      \* token_registry: the run each token cancels
    ready,       \* ready_registry: the runs whose signal has not come
    signalled,   \* the runs whose signal waits in the worker's channel
    flag,        \* the runs whose CancelToken is set
    worker,      \* "none", "parked", "running", "done" or "ended"
    outcome,
    status, aborted,  \* the caller's promise (module GenerateCall)
    token,
    listening,   \* the verdicts a caller has listeners for
    armed,       \* the callers past the set-up of abort and ready
    inbox,       \* events on their way to a caller's listeners
    calls        \* commands on their way to the shell

registries == <<nextToken, tokens, ready, signalled, flag>>
work == <<worker, outcome>>
page == <<status, aborted, token, listening, armed>>
vars == <<registries, work, page, inbox, calls>>

Verdicts == {"result", "error", "cancelled"}

Init ==
    /\ nextToken = 1 /\ tokens = <<>> /\ ready = {} /\ signalled = {} /\ flag = {}
    /\ worker = [c \in Callers |-> "none"] /\ outcome = [c \in Callers |-> "none"]
    /\ status = [c \in Callers |-> "idle"] /\ aborted = {}
    /\ token = [c \in Callers |-> NoToken]
    /\ listening = [c \in Callers |-> {}] /\ armed = {}
    /\ inbox = [c \in Callers |-> <<>>] /\ calls = {}

----------------------------------------------------------------------------
(* The shell. *)

TokenId == nextToken

(* generate_streaming_cmd: both registries first, then the thread.         *)
Invoke(c) ==
    /\ status[c] = "idle"
    /\ status' = [status EXCEPT ![c] = "pending"]
    /\ nextToken' = nextToken + 1
    /\ tokens' = [t \in DOMAIN tokens \cup {TokenId} |-> IF t = TokenId THEN c ELSE tokens[t]]
    /\ ready' = ready \cup {c}
    /\ token' = [token EXCEPT ![c] = TokenId]
    /\ worker' = [worker EXCEPT ![c] = "parked"]
    /\ UNCHANGED <<signalled, flag, outcome, aborted, listening, armed, inbox, calls>>

(* The worker leaves its wait and the registry of waiting workers.         *)
Proceeds(c) ==
    /\ worker[c] = "parked"
    /\ worker' = [worker EXCEPT ![c] = "running"]
    /\ ready' = ready \ {c}
    /\ UNCHANGED <<nextToken, tokens, signalled, flag, outcome, page, inbox, calls>>

Released(c) == c \in signalled /\ Proceeds(c)

(* recv_timeout gives up.                                                  *)
TimesOut(c) ==
    /\ ListensInTime => c \in armed \/ status[c] # "pending"
    /\ Proceeds(c)

(* generate_streaming returns, or panics: the panic is an error.           *)
Returns(c, verdict) ==
    /\ worker[c] = "running"
    /\ verdict = "cancelled" => c \in flag
    /\ worker' = [worker EXCEPT ![c] = "done"]
    /\ outcome' = [outcome EXCEPT ![c] = verdict]
    /\ UNCHANGED <<registries, page, inbox, calls>>

(* The token goes first.  An event reaches the listeners of this moment.   *)
Answers(c) ==
    /\ worker[c] = "done"
    /\ worker' = [worker EXCEPT ![c] = "ended"]
    /\ tokens' = [t \in {t \in DOMAIN tokens : t # token[c]} |-> tokens[t]]
    /\ inbox' = IF outcome[c] \in listening[c]
                THEN [inbox EXCEPT ![c] = Append(@, outcome[c])] ELSE inbox
    /\ UNCHANGED <<nextToken, ready, signalled, flag, outcome, page, calls>>

(* generate_streaming_ready_cmd and cancel_generate; an unknown token is   *)
(* ignored by both.                                                        *)
ReadyArrives(c) ==
    /\ <<"ready", token[c]>> \in calls
    /\ calls' = calls \ {<<"ready", token[c]>>}
    /\ ready' = ready \ {c}
    /\ signalled' = IF c \in ready THEN signalled \cup {c} ELSE signalled
    /\ UNCHANGED <<nextToken, tokens, flag, work, page, inbox>>

CancelArrives(t) ==
    /\ <<"cancel", t>> \in calls
    /\ calls' = calls \ {<<"cancel", t>>}
    /\ flag' = IF t \in DOMAIN tokens THEN flag \cup {tokens[t]} ELSE flag
    /\ UNCHANGED <<nextToken, tokens, ready, signalled, work, page, inbox>>

----------------------------------------------------------------------------
(* The page. *)

(* The four listeners come up one by one; progress events are left out.    *)
Listens(c, verdict) ==
    /\ status[c] = "pending" /\ verdict \notin listening[c]
    /\ listening' = [listening EXCEPT ![c] = @ \cup {verdict}]
    /\ UNCHANGED <<registries, work, status, aborted, token, armed, inbox, calls>>

ListenFails(c) ==
    /\ status[c] = "pending" /\ listening[c] # Verdicts
    /\ status' = [status EXCEPT ![c] = "error"]
    /\ UNCHANGED <<registries, work, aborted, token, listening, armed, inbox, calls>>

(* Mutant: the caller signals without waiting for its listeners.           *)
Arms_Early(c) ==
    /\ status[c] = "pending" /\ c \notin armed
    /\ armed' = armed \cup {c}
    /\ calls' = calls \cup {<<"ready", token[c]>>}
                      \cup (IF c \in aborted THEN {<<"cancel", token[c]>>} ELSE {})
    /\ UNCHANGED <<registries, work, status, aborted, token, listening, inbox>>

(* All listeners are up: an earlier abort is sent now, then the signal.    *)
Arms(c) ==
    /\ status[c] = "pending" /\ c \notin armed /\ listening[c] = Verdicts
    /\ armed' = armed \cup {c}
    /\ calls' = calls \cup {<<"ready", token[c]>>}
                      \cup (IF c \in aborted THEN {<<"cancel", token[c]>>} ELSE {})
    /\ UNCHANGED <<registries, work, status, aborted, token, listening, inbox>>

Abort(c) ==
    /\ status[c] = "pending" /\ c \notin aborted
    /\ aborted' = aborted \cup {c}
    /\ calls' = IF c \in armed THEN calls \cup {<<"cancel", token[c]>>} ELSE calls
    /\ UNCHANGED <<registries, work, status, token, listening, armed, inbox>>

(* A listener runs: clean up, settle.                                      *)
Hears(c) ==
    /\ inbox[c] # <<>> /\ status[c] = "pending"
    /\ status' = [status EXCEPT ![c] = Head(inbox[c])]
    /\ inbox' = [inbox EXCEPT ![c] = Tail(@)]
    /\ listening' = [listening EXCEPT ![c] = {}]
    /\ UNCHANGED <<registries, work, aborted, token, armed, calls>>

Next ==
    \/ \E c \in Callers :
        \/ Invoke(c) \/ Released(c) \/ TimesOut(c) \/ Answers(c)
        \/ \E v \in Verdicts : Returns(c, v) \/ Listens(c, v)
        \/ ListenFails(c) \/ Arms(c) \/ ReadyArrives(c) \/ Abort(c) \/ Hears(c)
    \/ \E t \in 1..(nextToken - 1) : CancelArrives(t)

(* The thread runs and the two seconds pass; the page's loop is alive.     *)
Spec ==
    /\ Init /\ [][Next]_vars
    /\ \A c \in Callers :
        /\ WF_vars(TimesOut(c)) /\ WF_vars(Answers(c))
        /\ WF_vars(\E v \in Verdicts : Returns(c, v))
        /\ WF_vars((\E v \in Verdicts : Listens(c, v)) \/ Arms(c))
        /\ WF_vars(Hears(c))

----------------------------------------------------------------------------
TypeOK ==
    /\ nextToken \in 1..(Cardinality(Callers) + 1)
    /\ \A t \in DOMAIN tokens : tokens[t] \in Callers
    /\ ready \cup signalled \cup flag \cup aborted \cup armed \subseteq Callers
    /\ worker \in [Callers -> {"none", "parked", "running", "done", "ended"}]
    /\ listening \in [Callers -> SUBSET Verdicts]
    /\ \A c \in Callers : Len(inbox[c]) <= 1

(* A worker that has ended is in neither registry, whether it was released *)
(* or timed out, and however it ended - a panic included.                  *)
NothingLeaks ==
    \A c \in Callers : worker[c] = "ended" =>
        c \notin ready /\ \A t \in DOMAIN tokens : tokens[t] # c
=============================================================================
