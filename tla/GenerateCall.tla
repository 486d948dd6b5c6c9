---------------------------- MODULE GenerateCall ----------------------------
(***************************************************************************)
(* What the caller of WiacClient.generateStreaming is promised, whatever   *)
(* carries the call (api/client.ts): a call is answered once - with a      *)
(* program, an error or "cancelled" -, it is cancelled only if an abort    *)
(* reached it, and it does not stay pending for ever.                      *)
(***************************************************************************)
CONSTANT Calls

VARIABLES
    status,   \* "idle", "pending", or the verdict the call settled with
    aborted   \* the calls an abort has reached

call == <<status, aborted>>

Verdicts == {"result", "error", "cancelled"}

Init == status = [c \in Calls |-> "idle"] /\ aborted = {}

Settle(c) ==
    /\ status[c] = "pending"
    /\ \E v \in Verdicts :
        /\ v = "cancelled" => c \in aborted
        /\ status' = [status EXCEPT ![c] = v]
    /\ UNCHANGED aborted

(* Several calls may begin, be aborted and settle in one step.             *)
Next ==
    /\ aborted \subseteq aborted'
    /\ \A c \in Calls : status'[c] # status[c] =>
        \/ status[c] = "idle" /\ status'[c] = "pending"
        \/ status[c] = "pending" /\ status'[c] \in Verdicts \ {"cancelled"}
        \/ status[c] \in {"idle", "pending"} /\ status'[c] = "cancelled" /\ c \in aborted'

Spec == Init /\ [][Next]_call /\ \A c \in Calls : WF_call(Settle(c))
=============================================================================
