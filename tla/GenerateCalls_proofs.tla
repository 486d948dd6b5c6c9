------------------------ MODULE GenerateCalls_proofs ------------------------
(***************************************************************************)
(* What MCGenerateCalls checks of the three transports for two calls, for  *)
(* every set of callers, length of the channel, number of operations and   *)
(* number of workers.                                                      *)
(***************************************************************************)
EXTENDS MCGenerateCalls, SequenceTheorems, TLAPS

-----------------------------------------------------------------------------
(* HTTP *)

Frame == [kind : {"token", "event"} \cup Verdicts, id : Nat \cup {NoToken}]

HttpTypes ==
    /\ nextToken \in Nat \ {0}
    /\ \A t \in DOMAIN tokens : t \in Nat /\ t < nextToken /\ tokens[t] \in Clients
    /\ flag \in SUBSET Clients /\ aborted \in SUBSET Clients
    /\ receiver \in SUBSET Clients
    /\ frames \in [Clients -> Seq(Frame)]
    /\ worker \in [Clients -> {"none", "running", "done", "ended", "panicked"}]
    /\ outcome \in [Clients -> Verdicts \cup {"none"}]
    /\ heard \in [Clients -> Verdicts \cup {"none"}]
    /\ token \in [Clients -> Nat \cup {NoToken}]
    /\ status \in [Clients -> {"idle", "pending"} \cup Verdicts]
    /\ posts \in SUBSET Nat

(* A token number that has been handed out names the run of c, or nobody's *)
(* any more.                                                               *)
Names(t, c) == t \in Nat /\ t < nextToken /\ (t \in DOMAIN tokens => tokens[t] = c)

(* Tokens are fresh, so whatever number is on its way - in a frame, in the *)
(* browser, in a cancel request - names the run it was made for.           *)
TokensName ==
    /\ \A c \in Clients : token[c] # NoToken => Names(token[c], c)
    /\ \A c \in Clients : \A i \in DOMAIN frames[c] :
         frames[c][i].kind = "token" => Names(frames[c][i].id, c)
    /\ \A t \in posts : t < nextToken /\ (t \in DOMAIN tokens => tokens[t] \in aborted)

(* A verdict frame is the last one of a worker that has ended.             *)
VerdictIsLast ==
    \A c \in Clients : \A i \in DOMAIN frames[c] :
        frames[c][i].kind \in Verdicts =>
            i = Len(frames[c]) /\ worker[c] = "ended" /\ frames[c][i].kind = outcome[c]

(* What a worker has returned, and what its caller may have heard.         *)
OutcomeIsEarned ==
    \A c \in Clients :
        /\ worker[c] = "none" <=> status[c] = "idle"
        /\ status[c] = "idle" => c \notin aborted
        /\ worker[c] \in {"done", "ended"} => outcome[c] \in Verdicts
        /\ outcome[c] = "cancelled" => c \in flag
        /\ heard[c] # "none" => worker[c] = "ended"

HttpInv ==
    /\ HttpTypes /\ TokensName /\ VerdictIsLast /\ OutcomeIsEarned
    /\ CancelHitsOwnRun /\ NoTokenLeaks /\ VerdictIsTheRuns

LEMMA HttpInit == Init => HttpInv
  <1> SUFFICES ASSUME Init PROVE HttpInv
      OBVIOUS
  <1>1. DOMAIN tokens = {}
      BY DEF Init
  <1>2. \A c \in Clients : frames[c] = <<>> /\ DOMAIN frames[c] = {}
      BY DEF Init
  <1>3. HttpTypes
      BY <1>1 DEF Init, HttpTypes
  <1> QED
      BY <1>1, <1>2, <1>3, StreamAssumption
      DEF Init, HttpInv, TokensName, VerdictIsLast, OutcomeIsEarned, CancelHitsOwnRun,
          NoTokenLeaks, VerdictIsTheRuns, Verdicts

(* What a send does to the channels: one more frame for c, or nothing.     *)
LEMMA SendAdds ==
    ASSUME HttpTypes, NEW c \in Clients, NEW kind \in {"event"} \cup Verdicts, Send(c, kind)
    PROVE  /\ frames' \in [Clients -> Seq(Frame)]
           /\ \A d \in Clients : \A i \in DOMAIN frames'[d] :
                \/ i \in DOMAIN frames[d] /\ frames'[d][i] = frames[d][i]
                \/ d = c /\ i = Len(frames'[d]) /\ frames'[d][i].kind = kind
           /\ \A d \in Clients \ {c} : frames'[d] = frames[d]
  <1>1. CASE c \notin receiver
      BY <1>1 DEF Send, HttpTypes
  <1>2. CASE c \in receiver
    <2> DEFINE f == [kind |-> kind, id |-> NoToken]
    <2>1. f \in Frame
        BY DEF Frame
    <2>2. frames[c] \in Seq(Frame) /\ frames' = [frames EXCEPT ![c] = Append(@, f)]
        BY <1>2 DEF Send, HttpTypes
    <2>3. frames'[c] = Append(frames[c], f)
        BY <2>2 DEF HttpTypes
    <2>4. Append(frames[c], f) \in Seq(Frame)
        BY <2>1, <2>2
    <2> QED
        BY <2>1, <2>2, <2>3, <2>4 DEF HttpTypes
  <1> QED
      BY <1>1, <1>2

LEMMA RequestKeeps ==
    ASSUME HttpInv, NEW c \in Clients, Request(c)
    PROVE  HttpInv'
  <1> USE DEF HttpInv
  <1>1. /\ nextToken \notin DOMAIN tokens
        /\ DOMAIN tokens' = DOMAIN tokens \cup {nextToken}
        /\ \A t \in DOMAIN tokens : tokens'[t] = tokens[t]
        /\ tokens'[nextToken] = c
        /\ nextToken' = nextToken + 1
      BY DEF Request, TokenId, HttpTypes
  <1>2. worker[c] = "none" /\ c \notin flag /\ heard[c] = "none" /\ outcome[c] # "cancelled"
      BY DEF Request, OutcomeIsEarned, CancelHitsOwnRun
  <1>3. HttpTypes'
    <2>1. [kind |-> "token", id |-> nextToken] \in Frame
        BY DEF Frame, HttpTypes
    <2>2. frames' \in [Clients -> Seq(Frame)]
        BY <2>1 DEF Request, TokenId, HttpTypes
    <2> QED
        BY <1>1, <2>2 DEF Request, HttpTypes
  <1>4. TokensName'
    <2>1. \A t, d : Names(t, d) => Names(t, d)'
      <3> SUFFICES ASSUME NEW t, NEW d, Names(t, d) PROVE Names(t, d)'
          OBVIOUS
      <3>1. t \in Nat /\ t < nextToken' /\ t # nextToken
          BY <1>1 DEF Names, HttpTypes
      <3> QED
          BY <1>1, <3>1 DEF Names
    <2>2. \A d \in Clients \ {c} : frames'[d] = frames[d]
        BY DEF Request, HttpTypes
    <2>3. frames'[c] = <<[kind |-> "token", id |-> nextToken]>>
        BY DEF Request, TokenId, HttpTypes
    <2>4. \A t : t = nextToken => Names(t, c)'
        BY <1>1 DEF Names, HttpTypes
    <2>5. ASSUME NEW d \in Clients, NEW i \in DOMAIN frames'[d]
          PROVE
             frames'[d][i].kind = "token" => \A t : t = frames'[d][i].id => Names(t, d)'
      <3>1. CASE d = c
          BY <2>3, <2>4, <3>1
      <3>2. CASE d # c
          BY <2>1, <2>2, <3>2 DEF TokensName
      <3> QED
          BY <3>1, <3>2
    <2>6. \A t \in posts' : t < nextToken' /\ (t \in DOMAIN tokens' => tokens'[t] \in aborted')
        BY <1>1 DEF Request, TokensName, HttpTypes
    <2>7. \A d \in Clients : token'[d] # NoToken => \A t : t = token'[d] => Names(t, d)'
        BY <2>1 DEF Request, TokensName
    <2> QED
        BY <2>5, <2>6, <2>7 DEF TokensName, Names
  <1>5. VerdictIsLast'
      BY DEF Request, TokenId, VerdictIsLast, HttpTypes, Verdicts
  <1>6. OutcomeIsEarned'
      BY <1>2 DEF Request, OutcomeIsEarned, HttpTypes
  <1>7. CancelHitsOwnRun' /\ NoTokenLeaks'
      BY <1>1 DEF Request, CancelHitsOwnRun, NoTokenLeaks, HttpTypes
  <1>8. VerdictIsTheRuns'
      BY <1>2 DEF Request, VerdictIsTheRuns, HttpTypes
  <1> QED
      BY <1>3, <1>4, <1>5, <1>6, <1>7, <1>8

(* The worker's four ways on, all of which leave the registry alone.       *)
LEMMA WorkerKeeps ==
    ASSUME HttpInv, NEW c \in Clients,
           OpDone(c) \/ Completes(c) \/ Fails(c) \/ SeesCancel(c) \/ Panics(c) \/ SendVerdict(c)
    PROVE  HttpInv'
  <1> USE DEF HttpInv
  <1> USE DEF OpDone, Completes, Fails, SeesCancel, Panics, SendVerdict, Returned, server, browser
  <1>1. /\ worker[c] \in {"running", "done"} /\ heard[c] = "none"
        /\ UNCHANGED <<nextToken, tokens, flag, status, aborted, token, heard, posts, receiver>>
        /\ \A d \in Clients \ {c} : worker'[d] = worker[d] /\ outcome'[d] = outcome[d]
        /\ worker' \in [Clients -> {"none", "running", "done", "ended", "panicked"}]
        /\ outcome' \in [Clients -> Verdicts \cup {"none"}]
        /\ worker'[c] \in {"running", "done", "ended", "panicked"}
        /\ worker'[c] = "ended" => worker[c] = "done" /\ \A t \in DOMAIN tokens : tokens[t] # c
        /\ worker'[c] \in {"done", "ended"} => outcome'[c] \in Verdicts
        /\ outcome'[c] = "cancelled" => c \in flag
      BY DEF HttpTypes, OutcomeIsEarned, Verdicts
  <1>2. PICK kind \in {"event"} \cup Verdicts :
            /\ UNCHANGED frames \/ Send(c, kind)
            /\ kind \in Verdicts => worker'[c] = "ended" /\ kind = outcome'[c]
      BY DEF HttpTypes, OutcomeIsEarned, Verdicts
  <1>3. /\ frames' \in [Clients -> Seq(Frame)]
        /\ \A d \in Clients : \A i \in DOMAIN frames'[d] :
             \/ i \in DOMAIN frames[d] /\ frames'[d][i] = frames[d][i]
             \/ d = c /\ i = Len(frames'[d]) /\ frames'[d][i].kind = kind
        /\ \A d \in Clients \ {c} : frames'[d] = frames[d]
      BY <1>2, SendAdds DEF HttpTypes
  <1>4. HttpTypes'
      BY <1>1, <1>3 DEF HttpTypes
  <1>5. TokensName'
      BY <1>1, <1>2, <1>3 DEF TokensName, Names, Verdicts
  <1>6. VerdictIsLast'
      BY <1>1, <1>2, <1>3 DEF VerdictIsLast
  <1>7. OutcomeIsEarned'
      BY <1>1 DEF OutcomeIsEarned, HttpTypes
  <1>8. CancelHitsOwnRun' /\ NoTokenLeaks' /\ VerdictIsTheRuns'
      BY <1>1, <1>3 DEF CancelHitsOwnRun, NoTokenLeaks, VerdictIsTheRuns, HttpTypes
  <1> QED
      BY <1>4, <1>5, <1>6, <1>7, <1>8

LEMMA RemoveTokenKeeps ==
    ASSUME HttpInv, NEW c \in Clients, RemoveToken(c)
    PROVE  HttpInv'
  <1> USE DEF HttpInv
  <1>1. /\ UNCHANGED <<nextToken, flag, frames, receiver, worker, outcome, status, aborted,
                       token, heard, posts>>
        /\ DOMAIN tokens' \subseteq DOMAIN tokens
        /\ \A t \in DOMAIN tokens' : tokens'[t] = tokens[t]
      BY DEF RemoveToken, channels, work, browser
  <1>2. HttpTypes'
      BY <1>1 DEF HttpTypes
  <1>3. TokensName'
      BY <1>1 DEF TokensName, Names
  <1>4. VerdictIsLast' /\ OutcomeIsEarned'
      BY <1>1 DEF VerdictIsLast, OutcomeIsEarned
  <1> QED
      BY <1>1, <1>2, <1>3, <1>4 DEF CancelHitsOwnRun, NoTokenLeaks, VerdictIsTheRuns

LEMMA PostKeeps ==
    ASSUME HttpInv, NEW t \in posts, CancelArrives(t) \/ CancelLost(t)
    PROVE  HttpInv'
  <1> USE DEF HttpInv
  <1>1. /\ UNCHANGED <<nextToken, tokens, frames, receiver, worker, outcome, status, aborted,
                       token, heard>>
        /\ posts' \subseteq posts
        /\ flag \subseteq flag'
        /\ flag' \subseteq aborted
      BY DEF CancelArrives, CancelLost, server, channels, work, browser, TokensName,
             CancelHitsOwnRun
  <1>2. HttpTypes'
      BY <1>1 DEF HttpTypes
  <1>3. TokensName'
      BY <1>1 DEF TokensName, Names
  <1>4. VerdictIsLast' /\ OutcomeIsEarned'
      BY <1>1 DEF VerdictIsLast, OutcomeIsEarned
  <1> QED
      BY <1>1, <1>2, <1>3, <1>4 DEF CancelHitsOwnRun, NoTokenLeaks, VerdictIsTheRuns

LEMMA ReadFrameKeeps ==
    ASSUME HttpInv, NEW c \in Clients, ReadFrame(c)
    PROVE  HttpInv'
  <1> USE DEF HttpInv
  <1> DEFINE f == Head(frames[c])
  <1>1. /\ frames[c] \in Seq(Frame) /\ frames[c] # <<>>
        /\ UNCHANGED <<nextToken, tokens, flag, receiver, worker, outcome, status, aborted>>
        /\ token' = IF f.kind = "token" THEN [token EXCEPT ![c] = f.id] ELSE token
        /\ posts' = IF f.kind = "token" /\ c \in aborted THEN posts \cup {f.id} ELSE posts
        /\ heard' = IF f.kind \in Verdicts THEN [heard EXCEPT ![c] = f.kind] ELSE heard
        /\ frames' = [frames EXCEPT ![c] = Tail(@)]
      BY DEF ReadFrame, HttpTypes, server, work
  <1> HIDE DEF f
  <1>2. /\ f \in Frame /\ 1 \in DOMAIN frames[c] /\ f = frames[c][1]
        /\ Tail(frames[c]) \in Seq(Frame)
        /\ Len(Tail(frames[c])) = Len(frames[c]) - 1
        /\ \A i \in DOMAIN Tail(frames[c]) :
             i + 1 \in DOMAIN frames[c] /\ Tail(frames[c])[i] = frames[c][i + 1]
      BY <1>1 DEF f
  <1>3. /\ frames' \in [Clients -> Seq(Frame)]
        /\ frames'[c] = Tail(frames[c])
        /\ \A d \in Clients \ {c} : frames'[d] = frames[d]
      BY <1>1, <1>2 DEF HttpTypes
  <1>4. f.kind = "token" => Names(f.id, c)
      BY <1>2 DEF TokensName
  <1>5. f.kind \in Verdicts =>
            Len(frames[c]) = 1 /\ worker[c] = "ended" /\ f.kind = outcome[c]
      BY <1>2 DEF VerdictIsLast
  <1>6. HttpTypes'
      BY <1>1, <1>2, <1>3, <1>4 DEF HttpTypes, Frame, Names
  <1>7. TokensName'
    <2>1. \A d \in Clients : token'[d] # NoToken => Names(token'[d], d)
        BY <1>1, <1>4 DEF TokensName, HttpTypes
    <2>2. ASSUME NEW d \in Clients, NEW i \in DOMAIN frames'[d], frames'[d][i].kind = "token"
          PROVE  Names(frames'[d][i].id, d)
      <3>1. CASE d = c
        <4>1. i + 1 \in DOMAIN frames[c] /\ frames'[d][i] = frames[c][i + 1]
            BY <1>2, <1>3, <3>1
        <4> QED
            BY <2>2, <3>1, <4>1 DEF TokensName
      <3>2. CASE d # c
          BY <1>3, <2>2, <3>2 DEF TokensName
      <3> QED
          BY <3>1, <3>2
    <2>3. \A t \in posts' : t < nextToken /\ (t \in DOMAIN tokens => tokens[t] \in aborted)
        BY <1>1, <1>4 DEF TokensName, Names
    <2> QED
        BY <1>1, <2>1, <2>2, <2>3 DEF TokensName, Names
  <1>8. VerdictIsLast'
    <2>1. ASSUME NEW d \in Clients, NEW i \in DOMAIN frames'[d], frames'[d][i].kind \in Verdicts
          PROVE  i = Len(frames'[d]) /\ worker[d] = "ended" /\ frames'[d][i].kind = outcome[d]
      <3>1. CASE d = c
          BY <1>1, <1>2, <1>3, <2>1, <3>1 DEF VerdictIsLast
      <3>2. CASE d # c
          BY <1>3, <2>1, <3>2 DEF VerdictIsLast
      <3> QED
          BY <3>1, <3>2
    <2> QED
        BY <1>1, <2>1 DEF VerdictIsLast
  <1>9. OutcomeIsEarned'
      BY <1>1, <1>5 DEF OutcomeIsEarned, HttpTypes
  <1>10. VerdictIsTheRuns'
    <2>1. ASSUME NEW d \in Clients, heard'[d] # "none"
          PROVE  heard'[d] = outcome[d] /\ frames'[d] = <<>>
      <3>1. CASE d = c /\ f.kind \in Verdicts
          BY <1>1, <1>2, <1>3, <1>5, <3>1 DEF HttpTypes
      <3>2. CASE d = c /\ f.kind \notin Verdicts
          BY <1>1, <2>1, <3>2 DEF VerdictIsTheRuns
      <3>3. CASE d # c
          BY <1>1, <1>3, <2>1, <3>3 DEF VerdictIsTheRuns, HttpTypes
      <3> QED
          BY <3>1, <3>2, <3>3
    <2> QED
        BY <1>1, <2>1 DEF VerdictIsTheRuns
  <1> QED
      BY <1>1, <1>6, <1>7, <1>8, <1>9, <1>10 DEF CancelHitsOwnRun, NoTokenLeaks

LEMMA PageKeeps ==
    ASSUME HttpInv, NEW c \in Clients, BodyEnds(c) \/ Abort(c) \/ Disconnect(c)
    PROVE  HttpInv'
  <1> USE DEF HttpInv
  <1>1. /\ UNCHANGED <<nextToken, tokens, flag, worker, outcome, token, heard>>
        /\ status[c] = "pending"
        /\ \A d \in Clients \ {c} : status'[d] = status[d]
        /\ status' \in [Clients -> {"idle", "pending"} \cup Verdicts]
        /\ status'[c] # "idle"
        /\ receiver' \subseteq receiver
        /\ frames' \in [Clients -> Seq(Frame)]
        /\ \A d \in Clients : frames'[d] = frames[d] \/ frames'[d] = <<>>
        /\ aborted \subseteq aborted' /\ aborted' \subseteq aborted \cup {c}
        /\ posts' \subseteq posts \cup ({token[c]} \ {NoToken})
        /\ posts' = posts \/ c \in aborted'
    <2>1. CASE BodyEnds(c)
        BY <2>1 DEF BodyEnds, server, work, HttpTypes, Verdicts
    <2>2. CASE Abort(c)
        BY <2>2 DEF Abort, server, channels, work, HttpTypes
    <2>3. CASE Disconnect(c)
        BY <2>3 DEF Disconnect, server, work, HttpTypes, Verdicts
    <2> QED
        BY <2>1, <2>2, <2>3
  <1>2. HttpTypes'
      BY <1>1, StreamAssumption DEF HttpTypes
  <1>3. TokensName'
    <2>1. \A t \in posts' : t < nextToken /\ (t \in DOMAIN tokens => tokens[t] \in aborted')
        BY <1>1 DEF TokensName, Names
    <2>2. \A d \in Clients : \A i \in DOMAIN frames'[d] :
              frames'[d][i].kind = "token" => Names(frames'[d][i].id, d)
        BY <1>1 DEF TokensName
    <2>3. \A t, d : Names(t, d)' <=> Names(t, d)
        BY <1>1 DEF Names
    <2> QED
        BY <1>1, <2>1, <2>2, <2>3 DEF TokensName
  <1>4. VerdictIsLast'
      BY <1>1 DEF VerdictIsLast
  <1>5. OutcomeIsEarned'
      BY <1>1 DEF OutcomeIsEarned
  <1> QED
      BY <1>1, <1>2, <1>3, <1>4, <1>5 DEF CancelHitsOwnRun, NoTokenLeaks, VerdictIsTheRuns

LEMMA HttpStep == HttpInv /\ [Next]_vars => HttpInv'
  <1> SUFFICES ASSUME HttpInv, [Next]_vars PROVE HttpInv'
      OBVIOUS
  <1>1. CASE UNCHANGED vars
      BY <1>1 DEF vars, server, channels, work, browser, HttpInv, HttpTypes, TokensName, Names,
         VerdictIsLast, OutcomeIsEarned, CancelHitsOwnRun, NoTokenLeaks, VerdictIsTheRuns
  <1>2. CASE \E c \in Clients : Request(c)
      BY <1>2, RequestKeeps
  <1>3. CASE \E c \in Clients : OpDone(c) \/ Completes(c) \/ Fails(c) \/ SeesCancel(c)
                                \/ Panics(c) \/ SendVerdict(c)
      BY <1>3, WorkerKeeps
  <1>4. CASE \E c \in Clients : RemoveToken(c)
      BY <1>4, RemoveTokenKeeps
  <1>5. CASE \E c \in Clients : ReadFrame(c)
      BY <1>5, ReadFrameKeeps
  <1>6. CASE \E c \in Clients : BodyEnds(c) \/ Abort(c) \/ Disconnect(c)
      BY <1>6, PageKeeps
  <1>7. CASE \E t \in posts : CancelArrives(t) \/ CancelLost(t)
      BY <1>7, PostKeeps
  <1> QED
      BY <1>1, <1>2, <1>3, <1>4, <1>5, <1>6, <1>7 DEF Next, Work, Reads

-----------------------------------------------------------------------------
(* The desktop shell *)

ShellTypes ==
    /\ nextToken \in Nat \ {0}
    /\ flag \in SUBSET Clients /\ aborted \in SUBSET Clients /\ armed \in SUBSET Clients
    /\ ready \in SUBSET Clients /\ signalled \in SUBSET Clients
    /\ worker \in [Clients -> {"none", "parked", "running", "done", "ended"}]
    /\ outcome \in [Clients -> Verdicts \cup {"none"}]
    /\ token \in [Clients -> Nat \cup {NoToken}]
    /\ status \in [Clients -> {"idle", "pending"} \cup Verdicts]
    /\ listening \in [Clients -> SUBSET Verdicts]
    /\ inbox \in [Clients -> Seq(Verdicts)]

(* A caller's token is its own, and a registered one is that of a live run.*)
TokensAreOwn ==
    /\ \A c \in Clients : token[c] # NoToken => token[c] < nextToken
    /\ \A c, d \in Clients : token[c] = token[d] /\ token[c] # NoToken => c = d
    /\ \A t \in DOMAIN tokens :
         tokens[t] \in Clients /\ token[tokens[t]] = t
         /\ worker[tokens[t]] \in {"parked", "running", "done"}

(* A command on its way was sent by a caller that was aborted or armed.    *)
CommandsAreOwn ==
    \A k \in calls : \E c \in Clients :
        /\ token[c] # NoToken
        /\ \/ k = <<"cancel", token[c]>> /\ c \in aborted
           \/ k = <<"ready", token[c]>> /\ c \in armed

(* Where a call stands.                                                    *)
CallIsPlaced ==
    \A c \in Clients :
        /\ status[c] = "idle" =>
             worker[c] = "none" /\ token[c] = NoToken /\ c \notin aborted /\ c \notin armed
        /\ status[c] # "idle" => worker[c] # "none" /\ token[c] # NoToken
        /\ worker[c] \in {"done", "ended"} => outcome[c] \in Verdicts
        /\ outcome[c] = "cancelled" => c \in flag
        /\ worker[c] # "ended" => inbox[c] = <<>>
        /\ \A i \in DOMAIN inbox[c] : inbox[c][i] = outcome[c]

(* A worker goes on once its caller has all its listeners.                 *)
ListensFirst ==
    /\ signalled \subseteq armed
    /\ \A c \in Clients :
         /\ c \in ready => worker[c] = "parked"
         /\ c \in armed /\ status[c] = "pending" => listening[c] = Verdicts
         /\ ListensInTime /\ worker[c] \in {"running", "done"} /\ status[c] = "pending"
              => c \in armed

ShellInv ==
    /\ ShellTypes /\ TokensAreOwn /\ CommandsAreOwn /\ CallIsPlaced /\ ListensFirst
    /\ CancelHitsOwnRun

LEMMA ShellInit == Shell!Init => ShellInv
  <1> SUFFICES ASSUME Shell!Init PROVE ShellInv
      OBVIOUS
  <1>1. DOMAIN tokens = {} /\ \A c \in Clients : DOMAIN inbox[c] = {} /\ inbox[c] = <<>>
      BY DEF Shell!Init
  <1> QED
      BY <1>1, StreamAssumption
      DEF Shell!Init, ShellInv, ShellTypes, TokensAreOwn, CommandsAreOwn, CallIsPlaced,
          ListensFirst, CancelHitsOwnRun, Verdicts

LEMMA InvokeKeeps ==
    ASSUME ShellInv, NEW c \in Clients, Shell!Invoke(c)
    PROVE  ShellInv'
  <1> USE DEF ShellInv
  <1>1. /\ status[c] = "idle" /\ worker[c] = "none" /\ token[c] = NoToken
        /\ c \notin aborted /\ c \notin armed /\ c \notin flag /\ inbox[c] = <<>>
      BY DEF Shell!Invoke, CallIsPlaced, CancelHitsOwnRun
  <1>2. /\ nextToken' = nextToken + 1
        /\ status' = [status EXCEPT ![c] = "pending"]
        /\ token' = [token EXCEPT ![c] = nextToken]
        /\ worker' = [worker EXCEPT ![c] = "parked"]
        /\ ready' = ready \cup {c}
        /\ DOMAIN tokens' = DOMAIN tokens \cup {nextToken}
        /\ \A t \in DOMAIN tokens' : tokens'[t] = IF t = nextToken THEN c ELSE tokens[t]
        /\ UNCHANGED <<signalled, flag, outcome, aborted, listening, armed, inbox, calls>>
      BY DEF Shell!Invoke, Shell!TokenId
  <1>3. ShellTypes'
      BY <1>2 DEF ShellTypes
  <1>4. TokensAreOwn'
    <2>1. /\ nextToken \in Nat /\ NoToken \notin Nat
          /\ token \in [Clients -> Nat \cup {NoToken}] /\ DOMAIN worker = Clients
          /\ token'[c] = nextToken /\ \A d \in Clients \ {c} : token'[d] = token[d]
        BY <1>2, StreamAssumption DEF ShellTypes
    <2>2. \A d \in Clients : token[d] # NoToken => token[d] \in Nat /\ token[d] < nextToken
        BY <2>1 DEF TokensAreOwn
    <2>3. \A d \in Clients : token'[d] # NoToken => token'[d] < nextToken'
        BY <1>2, <2>1, <2>2
    <2>4. \A d, e \in Clients : token'[d] = token'[e] /\ token'[d] # NoToken => d = e
      <3>1. \A d \in Clients \ {c} : token'[d] # nextToken
          BY <2>1, <2>2
      <3> QED
          BY <2>1, <3>1 DEF TokensAreOwn
    <2>5. \A t \in DOMAIN tokens' :
             tokens'[t] \in Clients /\ token'[tokens'[t]] = t
             /\ worker'[tokens'[t]] \in {"parked", "running", "done"}
      <3>1. ASSUME NEW t \in DOMAIN tokens, t # nextToken PROVE tokens[t] # c
          BY <1>1, <3>1 DEF TokensAreOwn
      <3> QED
          BY <1>2, <2>1, <3>1 DEF TokensAreOwn
    <2> QED
        BY <2>3, <2>4, <2>5 DEF TokensAreOwn
  <1>5. CommandsAreOwn'
      BY <1>1, <1>2 DEF CommandsAreOwn, ShellTypes
  <1>6. CallIsPlaced'
      BY <1>1, <1>2, StreamAssumption DEF CallIsPlaced, ShellTypes
  <1>7. ListensFirst'
      BY <1>1, <1>2 DEF ListensFirst, ShellTypes
  <1> QED
      BY <1>2, <1>3, <1>4, <1>5, <1>6, <1>7 DEF CancelHitsOwnRun

LEMMA WorkerOfShellKeeps ==
    ASSUME ShellInv, NEW c \in Clients,
           \/ Shell!Released(c) \/ Shell!TimesOut(c) \/ Shell!Answers(c)
           \/ \E v \in Verdicts : Shell!Returns(c, v)
    PROVE  ShellInv'
  <1> USE DEF ShellInv
  <1>1. CASE Shell!Released(c) \/ Shell!TimesOut(c)
    <2>1. /\ worker[c] = "parked"
          /\ worker' = [worker EXCEPT ![c] = "running"]
          /\ ready' = ready \ {c}
          /\ ListensInTime => c \in armed \/ status[c] # "pending"
          /\ UNCHANGED <<nextToken, tokens, signalled, flag, outcome, status, aborted, token,
                         listening, armed, inbox, calls>>
        BY <1>1 DEF Shell!Released, Shell!TimesOut, Shell!Proceeds, Shell!page, ListensFirst
    <2>2. ShellTypes' /\ CommandsAreOwn' /\ TokensAreOwn'
        BY <2>1 DEF ShellTypes, CommandsAreOwn, TokensAreOwn
    <2>3. CallIsPlaced' /\ ListensFirst' /\ CancelHitsOwnRun'
        BY <2>1 DEF ShellTypes, CallIsPlaced, ListensFirst, CancelHitsOwnRun
    <2> QED
        BY <2>2, <2>3
  <1>2. ASSUME NEW v \in Verdicts, Shell!Returns(c, v) PROVE ShellInv'
    <2>1. /\ worker[c] = "running"
          /\ v = "cancelled" => c \in flag
          /\ worker' = [worker EXCEPT ![c] = "done"]
          /\ outcome' = [outcome EXCEPT ![c] = v]
          /\ UNCHANGED <<nextToken, tokens, ready, signalled, flag, status, aborted, token,
                         listening, armed, inbox, calls>>
        BY <1>2 DEF Shell!Returns, Shell!page, Shell!registries
    <2>2. ShellTypes' /\ CommandsAreOwn' /\ TokensAreOwn'
        BY <2>1 DEF ShellTypes, CommandsAreOwn, TokensAreOwn
    <2>3. CallIsPlaced' /\ ListensFirst' /\ CancelHitsOwnRun'
        BY <2>1 DEF ShellTypes, CallIsPlaced, ListensFirst, CancelHitsOwnRun
    <2> QED
        BY <2>2, <2>3
  <1>3. CASE Shell!Answers(c)
    <2>1. /\ worker[c] = "done"
          /\ worker' = [worker EXCEPT ![c] = "ended"]
          /\ DOMAIN tokens' = DOMAIN tokens \ {token[c]}
          /\ \A t \in DOMAIN tokens' : tokens'[t] = tokens[t]
          /\ inbox' = IF outcome[c] \in listening[c]
                      THEN [inbox EXCEPT ![c] = Append(@, outcome[c])] ELSE inbox
          /\ UNCHANGED <<nextToken, ready, signalled, flag, outcome, status, aborted, token,
                         listening, armed, calls>>
        BY <1>3 DEF Shell!Answers, Shell!page
    <2>2. /\ outcome[c] \in Verdicts /\ inbox[c] = <<>>
        BY <2>1 DEF CallIsPlaced
    <2>3. /\ inbox' \in [Clients -> Seq(Verdicts)]
          /\ \A d \in Clients \ {c} : inbox'[d] = inbox[d]
          /\ \A i \in DOMAIN inbox'[c] : inbox'[c][i] = outcome[c]
        BY <2>1, <2>2 DEF ShellTypes
    <2>4. ShellTypes'
        BY <2>1, <2>3 DEF ShellTypes
    <2>5. TokensAreOwn' /\ CommandsAreOwn'
      <3>1. \A t \in DOMAIN tokens' :
               /\ t \in DOMAIN tokens /\ t # token[c] /\ tokens'[t] = tokens[t]
               /\ tokens[t] \in Clients /\ token[tokens[t]] = t
               /\ worker[tokens[t]] \in {"parked", "running", "done"}
          BY <2>1 DEF TokensAreOwn
      <3>2. \A t \in DOMAIN tokens' : worker'[tokens[t]] = worker[tokens[t]]
          BY <2>1, <3>1 DEF ShellTypes
      <3>3. \A t \in DOMAIN tokens' :
               tokens'[t] \in Clients /\ token'[tokens'[t]] = t
               /\ worker'[tokens'[t]] \in {"parked", "running", "done"}
          BY <2>1, <3>1, <3>2
      <3>4. TokensAreOwn'
          BY <2>1, <3>3 DEF TokensAreOwn
      <3>5. CommandsAreOwn'
          BY <2>1 DEF CommandsAreOwn
      <3> QED
          BY <3>4, <3>5
    <2>6. CallIsPlaced'
        BY <2>1, <2>2, <2>3 DEF ShellTypes, CallIsPlaced
    <2>7. ListensFirst' /\ CancelHitsOwnRun'
        BY <2>1 DEF ShellTypes, ListensFirst, CancelHitsOwnRun
    <2> QED
        BY <2>4, <2>5, <2>6, <2>7
  <1> QED
      BY <1>1, <1>2, <1>3

LEMMA CommandKeeps ==
    ASSUME ShellInv, \/ \E c \in Clients : Shell!ReadyArrives(c)
                     \/ \E t \in 1..(nextToken - 1) : Shell!CancelArrives(t)
    PROVE  ShellInv'
  <1> USE DEF ShellInv
  <1>1. ASSUME NEW c \in Clients, Shell!ReadyArrives(c) PROVE ShellInv'
    <2>1. /\ <<"ready", token[c]>> \in calls
          /\ calls' \subseteq calls
          /\ ready' = ready \ {c}
          /\ signalled' = IF c \in ready THEN signalled \cup {c} ELSE signalled
          /\ UNCHANGED <<nextToken, tokens, flag, worker, outcome, status, aborted, token,
                         listening, armed, inbox>>
        BY <1>1 DEF Shell!ReadyArrives, Shell!work, Shell!page
    <2>2. c \in armed
      <3>1. PICK d \in Clients : /\ token[d] # NoToken
                                 /\ <<"ready", token[c]>> = <<"ready", token[d]>> /\ d \in armed
          BY <2>1 DEF CommandsAreOwn
      <3> QED
          BY <3>1 DEF TokensAreOwn
    <2>3. ShellTypes' /\ TokensAreOwn' /\ CommandsAreOwn'
        BY <2>1 DEF ShellTypes, CommandsAreOwn, TokensAreOwn
    <2>4. CallIsPlaced' /\ ListensFirst' /\ CancelHitsOwnRun'
        BY <2>1, <2>2 DEF ShellTypes, CallIsPlaced, ListensFirst, CancelHitsOwnRun
    <2> QED
        BY <2>3, <2>4
  <1>2. ASSUME NEW t \in 1..(nextToken - 1), Shell!CancelArrives(t) PROVE ShellInv'
    <2>1. /\ <<"cancel", t>> \in calls
          /\ calls' \subseteq calls
          /\ flag' = IF t \in DOMAIN tokens THEN flag \cup {tokens[t]} ELSE flag
          /\ UNCHANGED <<nextToken, tokens, ready, signalled, worker, outcome, status, aborted,
                         token, listening, armed, inbox>>
        BY <1>2 DEF Shell!CancelArrives, Shell!work, Shell!page
    <2>2. t \in DOMAIN tokens => tokens[t] \in aborted
      <3>1. PICK d \in Clients : /\ token[d] # NoToken
                                 /\ <<"cancel", t>> = <<"cancel", token[d]>> /\ d \in aborted
          BY <2>1 DEF CommandsAreOwn
      <3> QED
          BY <3>1 DEF TokensAreOwn
    <2>3. ShellTypes' /\ TokensAreOwn' /\ CommandsAreOwn'
        BY <2>1, <2>2 DEF ShellTypes, CommandsAreOwn, TokensAreOwn
    <2>4. CallIsPlaced' /\ ListensFirst' /\ CancelHitsOwnRun'
        BY <2>1, <2>2 DEF ShellTypes, CallIsPlaced, ListensFirst, CancelHitsOwnRun
    <2> QED
        BY <2>3, <2>4
  <1> QED
      BY <1>1, <1>2

LEMMA ListenerKeeps ==
    ASSUME ShellInv, NEW c \in Clients,
           \/ \E v \in Verdicts : Shell!Listens(c, v)
           \/ Shell!ListenFails(c) \/ Shell!Hears(c)
    PROVE  ShellInv'
  <1> USE DEF ShellInv
  <1>1. /\ UNCHANGED <<nextToken, tokens, ready, signalled, flag, worker, outcome, aborted,
                       token, armed, calls>>
        /\ status[c] = "pending"
        /\ status' \in [Clients -> {"idle", "pending"} \cup Verdicts]
        /\ \A d \in Clients \ {c} : status'[d] = status[d] /\ listening'[d] = listening[d]
                                    /\ inbox'[d] = inbox[d]
        /\ listening' \in [Clients -> SUBSET Verdicts]
        /\ inbox' \in [Clients -> Seq(Verdicts)]
        /\ status'[c] # "idle"
        /\ status'[c] = "pending" => listening[c] \subseteq listening'[c]
        /\ \/ inbox'[c] = inbox[c]
           \/ inbox[c] # <<>> /\ inbox'[c] = Tail(inbox[c])
    <2>1. ASSUME NEW v \in Verdicts, Shell!Listens(c, v) PROVE <1>1!:
        BY <2>1 DEF Shell!Listens, Shell!registries, Shell!work, ShellTypes
    <2>2. CASE Shell!ListenFails(c)
        BY <2>2 DEF Shell!ListenFails, Shell!registries, Shell!work, ShellTypes, Verdicts
    <2>3. CASE Shell!Hears(c)
      <3>1. inbox[c] \in Seq(Verdicts) /\ inbox[c] # <<>>
          BY <2>3 DEF Shell!Hears, ShellTypes
      <3>2. Head(inbox[c]) \in Verdicts /\ Tail(inbox[c]) \in Seq(Verdicts)
          BY <3>1
      <3> QED
          BY <2>3, <3>1, <3>2
          DEF Shell!Hears, Shell!registries, Shell!work, ShellTypes, Verdicts
    <2> QED
        BY <2>1, <2>2, <2>3
  <1>2. ShellTypes' /\ TokensAreOwn' /\ CommandsAreOwn'
      BY <1>1 DEF ShellTypes, CommandsAreOwn, TokensAreOwn
  <1>3. \A i \in DOMAIN inbox'[c] : inbox'[c][i] = outcome[c]
    <2>1. \A i \in DOMAIN inbox[c] : inbox[c][i] = outcome[c]
        BY DEF CallIsPlaced
    <2>2. CASE inbox[c] # <<>> /\ inbox'[c] = Tail(inbox[c])
      <3>1. inbox[c] \in Seq(Verdicts)
          BY DEF ShellTypes
      <3>2. \A i \in DOMAIN Tail(inbox[c]) :
               i + 1 \in DOMAIN inbox[c] /\ Tail(inbox[c])[i] = inbox[c][i + 1]
          BY <2>2, <3>1
      <3> QED
          BY <2>1, <2>2, <3>2
    <2> QED
        BY <1>1, <2>1, <2>2
  <1>4. CallIsPlaced'
      BY <1>1, <1>3 DEF ShellTypes, CallIsPlaced
  <1>5. ListensFirst'
    <2>1. \A d \in Clients : status'[d] = "pending" =>
             status[d] = "pending" /\ (listening[d] = Verdicts => listening'[d] = Verdicts)
      <3>1. listening'[c] \subseteq Verdicts
          BY <1>1
      <3> QED
          BY <1>1, <3>1
    <2> QED
        BY <1>1, <2>1 DEF ListensFirst
  <1>6. CancelHitsOwnRun'
      BY <1>1 DEF CancelHitsOwnRun
  <1> QED
      BY <1>2, <1>4, <1>5, <1>6

LEMMA SignalKeeps ==
    ASSUME ShellInv, NEW c \in Clients, Shell!Arms(c) \/ Shell!Abort(c)
    PROVE  ShellInv'
  <1> USE DEF ShellInv
  <1>1. /\ UNCHANGED <<nextToken, tokens, ready, signalled, flag, worker, outcome, status,
                       token, listening, inbox>>
        /\ status[c] = "pending"
        /\ aborted \subseteq aborted' /\ aborted' \subseteq aborted \cup {c}
        /\ armed \subseteq armed' /\ armed' \subseteq armed \cup {c}
        /\ \A k \in calls' \ calls :
             \/ k = <<"cancel", token[c]>> /\ c \in aborted'
             \/ k = <<"ready", token[c]>> /\ c \in armed'
        /\ c \in armed' \ armed => listening[c] = Verdicts
    <2>1. CASE Shell!Arms(c)
        BY <2>1 DEF Shell!Arms, Shell!registries, Shell!work, Shell!Verdicts, Verdicts
    <2>2. CASE Shell!Abort(c)
        BY <2>2 DEF Shell!Abort, Shell!registries, Shell!work
    <2> QED
        BY <2>1, <2>2
  <1>2. ShellTypes' /\ TokensAreOwn'
      BY <1>1 DEF ShellTypes, TokensAreOwn
  <1>3. CommandsAreOwn'
      BY <1>1 DEF CommandsAreOwn, CallIsPlaced
  <1>4. CallIsPlaced'
      BY <1>1 DEF ShellTypes, CallIsPlaced
  <1>5. ListensFirst' /\ CancelHitsOwnRun'
      BY <1>1 DEF ShellTypes, ListensFirst, CancelHitsOwnRun
  <1> QED
      BY <1>2, <1>3, <1>4, <1>5

LEMMA ShellStep == ShellInv /\ [Shell!Next]_(Shell!vars) => ShellInv'
  <1> SUFFICES ASSUME ShellInv, [Shell!Next]_(Shell!vars) PROVE ShellInv'
      OBVIOUS
  <1>1. CASE UNCHANGED Shell!vars
      BY <1>1 DEF Shell!vars, Shell!registries, Shell!work, Shell!page, ShellInv, ShellTypes,
         TokensAreOwn, CommandsAreOwn, CallIsPlaced, ListensFirst, CancelHitsOwnRun
  <1> QED
      BY <1>1, InvokeKeeps, WorkerOfShellKeeps, CommandKeeps, ListenerKeeps, SignalKeeps
      DEF Shell!Next, Shell!Verdicts, Verdicts

-----------------------------------------------------------------------------
(* The browser *)

Posted == [call : Clients, id : Nat]
Answer == [call : Clients, id : Nat, kind : {"result", "error"}]

WebTypes ==
    /\ nextId \in Nat \ {0}
    /\ pending \in [Clients -> Nat]
    /\ status \in [Clients -> {"idle", "pending"} \cup Verdicts]
    /\ wanted \in [Clients -> Clients \cup {"none"}]
    /\ queue \in [Web!Workers -> Seq(Posted)]
    /\ inbox \in [Web!Workers -> Seq(Answer)]

(* A request, or the answer to it, under an id that was handed out: if the *)
(* id is in flight, the call that waits for it is the one that posted it.  *)
IsOf(id, c) == 0 < id /\ id < nextId /\ \A d \in Clients : pending[d] = id => c = d

RequestsAreNamed ==
    /\ \A w \in Web!Workers : \A i \in DOMAIN queue[w] : IsOf(queue[w][i].id, queue[w][i].call)
    /\ \A w \in Web!Workers : \A i \in DOMAIN inbox[w] : IsOf(inbox[w][i].id, inbox[w][i].call)

(* A call in flight is pending, under an id that was handed out.           *)
InFlightIsPending ==
    \A c \in Clients : pending[c] < nextId /\ (pending[c] # 0 => status[c] = "pending")

WebInv == WebTypes /\ RequestsAreNamed /\ InFlightIsPending /\ Web!AnswerIsOwn

LEMMA WebInit == Web!Init => WebInv
  <1> SUFFICES ASSUME Web!Init PROVE WebInv
      OBVIOUS
  <1>1. \A w \in Web!Workers : DOMAIN queue[w] = {} /\ DOMAIN inbox[w] = {}
      BY DEF Web!Init
  <1> QED
      BY <1>1
      DEF Web!Init, WebInv, WebTypes, RequestsAreNamed, InFlightIsPending, Web!AnswerIsOwn,
          Verdicts

LEMMA Elements == ASSUME NEW S, NEW s \in Seq(S) PROVE \A i \in DOMAIN s : s[i] \in S
  OBVIOUS

LEMMA NamesAreTyped ==
    ASSUME WebTypes, NEW w \in Web!Workers
    PROVE  /\ \A i \in DOMAIN queue[w] : queue[w][i].id \in Nat /\ queue[w][i].call \in Clients
           /\ \A i \in DOMAIN inbox[w] : inbox[w][i].id \in Nat /\ inbox[w][i].call \in Clients
  <1>1. queue[w] \in Seq(Posted) /\ inbox[w] \in Seq(Answer)
      BY DEF WebTypes
  <1>2. \A i \in DOMAIN queue[w] : queue[w][i] \in Posted
      BY <1>1, Elements
  <1>3. \A i \in DOMAIN inbox[w] : inbox[w][i] \in Answer
      BY <1>1, Elements
  <1> QED
      BY <1>2, <1>3 DEF Posted, Answer

(* What drops ids and settles calls in flight keeps the invariant.         *)
LEMMA DropKeeps ==
    ASSUME WebInv, UNCHANGED <<queue, nextId>>,
           pending' \in [Clients -> Nat],
           status' \in [Clients -> {"idle", "pending"} \cup Verdicts],
           wanted' \in [Clients -> Clients \cup {"none"}],
           inbox' \in [Web!Workers -> Seq(Answer)],
           \A c \in Clients : \/ pending'[c] = 0
                              \/ pending'[c] = pending[c] /\ status'[c] = status[c],
           \A c \in Clients : wanted'[c] \in {"none", c},
           \A w \in Web!Workers : \A i \in DOMAIN inbox'[w] :
               \E j \in DOMAIN inbox[w] : inbox'[w][i] = inbox[w][j]
    PROVE  WebInv'
  <1> USE DEF WebInv
  <1>1. WebTypes'
      BY DEF WebTypes
  <1>2. InFlightIsPending'
      BY DEF WebTypes, InFlightIsPending
  <1>3. \A id \in Nat, c \in Clients : IsOf(id, c) =>
           0 < id /\ id < nextId' /\ \A d \in Clients : pending'[d] = id => c = d
      BY DEF WebTypes, IsOf
  <1>4. \A w \in Web!Workers : \A i \in DOMAIN queue[w] :
           queue[w][i].id \in Nat /\ queue[w][i].call \in Clients
      BY NamesAreTyped
  <1>5. \A w \in Web!Workers : \A i \in DOMAIN inbox[w] :
           inbox[w][i].id \in Nat /\ inbox[w][i].call \in Clients
      BY NamesAreTyped
  <1>6. RequestsAreNamed'
    <2>1. ASSUME NEW w \in Web!Workers, NEW i \in DOMAIN queue'[w]
          PROVE  IsOf(queue[w][i].id, queue[w][i].call)'
        BY <1>3, <1>4, <2>1 DEF RequestsAreNamed, IsOf
    <2>2. ASSUME NEW w \in Web!Workers, NEW i \in DOMAIN inbox'[w]
          PROVE  IsOf(inbox[w][i].id, inbox[w][i].call)'
      <3>1. PICK j \in DOMAIN inbox[w] : inbox'[w][i] = inbox[w][j]
          OBVIOUS
      <3>2. inbox[w][j].id \in Nat /\ inbox[w][j].call \in Clients
            /\ IsOf(inbox[w][j].id, inbox[w][j].call)
          BY <1>5 DEF RequestsAreNamed
      <3>3. \A n, k : n = inbox[w][j].id /\ k = inbox[w][j].call =>
               0 < n /\ n < nextId' /\ \A d \in Clients : pending'[d] = n => k = d
          BY <1>3, <3>2
      <3>4. inbox'[w][i].id = inbox[w][j].id /\ inbox'[w][i].call = inbox[w][j].call
          BY <3>1
      <3> QED
          BY <3>3, <3>4 DEF IsOf
    <2> QED
        BY <2>1, <2>2 DEF RequestsAreNamed, Web!Workers
  <1> QED
      BY <1>1, <1>2, <1>6 DEF Web!AnswerIsOwn

LEMMA CallKeeps ==
    ASSUME WebInv, NEW c \in Clients, Web!Call(c)
    PROVE  WebInv'
  <1> USE DEF WebInv
  <1> DEFINE r == [call |-> c, id |-> nextId]
  <1>1. /\ status[c] = "idle"
        /\ nextId' = nextId + 1
        /\ pending' = [pending EXCEPT ![c] = nextId]
        /\ status' = [status EXCEPT ![c] = "pending"]
        /\ UNCHANGED <<inbox, wanted>>
      BY DEF Web!Call, Web!Id
  <1>2. \A w \in Web!Workers : queue'[w] = queue[w] \/ queue'[w] = Append(queue[w], r)
      BY DEF Web!Call, Web!Id, WebTypes
  <1>3. r \in Posted
      BY DEF WebTypes, Posted
  <1>4. queue' \in [Web!Workers -> Seq(Posted)]
    <2>1. DOMAIN queue' = Web!Workers /\ queue' = [w \in Web!Workers |-> queue'[w]]
        BY DEF Web!Call, WebTypes
    <2>2. \A w \in Web!Workers : queue'[w] \in Seq(Posted)
      <3>1. \A q \in Seq(Posted) : Append(q, r) \in Seq(Posted)
          BY <1>3
      <3>2. \A w \in Web!Workers : queue[w] \in Seq(Posted)
          BY DEF WebTypes
      <3> QED
          BY <1>2, <3>1, <3>2
    <2> QED
        BY <2>1, <2>2
  <1>5. WebTypes'
      BY <1>1, <1>4 DEF WebTypes
  <1>6. InFlightIsPending'
      BY <1>1 DEF WebTypes, InFlightIsPending
  <1>7. \A id \in Nat, k \in Clients : IsOf(id, k) =>
           0 < id /\ id < nextId' /\ \A d \in Clients : pending'[d] = id => k = d
      BY <1>1 DEF WebTypes, IsOf
  <1>8. \A d \in Clients : pending'[d] = nextId => c = d
      BY <1>1 DEF WebTypes, InFlightIsPending
  <1>9. RequestsAreNamed'
    <2>1. ASSUME NEW w \in Web!Workers, NEW i \in DOMAIN queue'[w]
          PROVE  IsOf(queue[w][i].id, queue[w][i].call)'
      <3>1. queue[w] \in Seq(Posted) /\ \A j \in DOMAIN queue[w] :
               /\ queue[w][j].id \in Nat /\ queue[w][j].call \in Clients
               /\ IsOf(queue[w][j].id, queue[w][j].call)
          BY NamesAreTyped DEF WebTypes, RequestsAreNamed
      <3>2. CASE i \in DOMAIN queue[w] /\ queue'[w][i] = queue[w][i]
          BY <1>7, <3>1, <3>2 DEF IsOf
      <3>3. CASE queue'[w][i] = r
          BY <1>1, <1>8, <3>3 DEF IsOf, WebTypes
      <3>4. CASE queue'[w] = queue[w]
          BY <2>1, <3>2, <3>4
      <3>5. CASE queue'[w] = Append(queue[w], r)
        <4>1. /\ DOMAIN queue'[w] = 1 .. Len(queue[w]) + 1
              /\ DOMAIN queue[w] = 1 .. Len(queue[w]) /\ Len(queue[w]) \in Nat
              /\ queue'[w][Len(queue[w]) + 1] = r
              /\ \A j \in 1 .. Len(queue[w]) : queue'[w][j] = queue[w][j]
            BY <1>3, <3>1, <3>5
        <4>2. i \in DOMAIN queue[w] \/ i = Len(queue[w]) + 1
            BY <2>1, <4>1
        <4> QED
            BY <3>2, <3>3, <4>1, <4>2
      <3> QED
          BY <1>2, <3>4, <3>5
    <2>2. ASSUME NEW w \in Web!Workers, NEW i \in DOMAIN inbox'[w]
          PROVE  IsOf(inbox[w][i].id, inbox[w][i].call)'
      <3>1. i \in DOMAIN inbox[w] /\ inbox'[w] = inbox[w]
            /\ inbox[w][i].id \in Nat /\ inbox[w][i].call \in Clients
          BY <1>1, <2>2, NamesAreTyped
      <3> QED
          BY <1>7, <3>1 DEF RequestsAreNamed, IsOf
    <2> QED
        BY <2>1, <2>2 DEF RequestsAreNamed, Web!Workers
  <1> QED
      BY <1>1, <1>5, <1>6, <1>9 DEF Web!AnswerIsOwn

LEMMA CallAbortedKeeps ==
    ASSUME WebInv, NEW c \in Clients, Web!CallAborted(c)
    PROVE  WebInv'
  <1> USE DEF WebInv
  <1>1. /\ status[c] = "idle"
        /\ nextId' = nextId + 1
        /\ status' = [status EXCEPT ![c] = "cancelled"]
        /\ UNCHANGED <<queue, inbox, pending, wanted>>
      BY DEF Web!CallAborted
  <1>2. WebTypes'
      BY <1>1 DEF WebTypes, Verdicts
  <1>3. InFlightIsPending'
      BY <1>1 DEF WebTypes, InFlightIsPending
  <1>4. \A w \in Web!Workers :
           /\ \A i \in DOMAIN queue[w] : queue[w][i].id \in Nat
           /\ \A i \in DOMAIN inbox[w] : inbox[w][i].id \in Nat
      BY NamesAreTyped
  <1>5. nextId \in Nat
      BY DEF WebTypes
  <1>6. RequestsAreNamed'
      BY <1>1, <1>4, <1>5 DEF RequestsAreNamed, IsOf, Web!Workers
  <1> QED
      BY <1>1, <1>2, <1>3, <1>6 DEF Web!AnswerIsOwn

LEMMA ServesKeeps ==
    ASSUME WebInv, NEW w \in Web!Workers, Web!Serves(w)
    PROVE  WebInv'
  <1> USE DEF WebInv
  <1>1. queue[w] \in Seq(Posted) /\ queue[w] # <<>> /\ inbox[w] \in Seq(Answer)
      BY DEF Web!Serves, WebTypes
  <1> DEFINE h == Head(queue[w])
  <1>2. PICK kind \in {"result", "error"} :
           inbox' = [inbox EXCEPT ![w] = Append(@, [call |-> h.call, id |-> h.id, kind |-> kind])]
      BY DEF Web!Serves
  <1> DEFINE a == [call |-> h.call, id |-> h.id, kind |-> kind]
  <1>3. /\ queue' = [queue EXCEPT ![w] = Tail(@)]
        /\ UNCHANGED <<nextId, pending, status, wanted>>
      BY DEF Web!Serves, Web!client
  <1>4. h = queue[w][1] /\ 1 \in DOMAIN queue[w] /\ h \in Posted
      BY <1>1
  <1>5. a \in Answer /\ IsOf(a.id, a.call)
      BY <1>4 DEF RequestsAreNamed, Posted, Answer
  <1>6. Tail(queue[w]) \in Seq(Posted) /\ Append(inbox[w], a) \in Seq(Answer)
      BY <1>1, <1>5
  <1>7. WebTypes'
      BY <1>2, <1>3, <1>6 DEF WebTypes
  <1>8. RequestsAreNamed'
    <2>1. ASSUME NEW v \in Web!Workers, NEW i \in DOMAIN queue'[v]
          PROVE  IsOf(queue'[v][i].id, queue'[v][i].call)
      <3>1. \A j \in DOMAIN Tail(queue[w]) :
               j + 1 \in DOMAIN queue[w] /\ Tail(queue[w])[j] = queue[w][j + 1]
          BY <1>1
      <3> QED
          BY <1>3, <2>1, <3>1 DEF RequestsAreNamed, WebTypes
    <2>2. ASSUME NEW v \in Web!Workers, NEW i \in DOMAIN inbox'[v]
          PROVE  IsOf(inbox'[v][i].id, inbox'[v][i].call)
      <3>1. CASE v # w
          BY <1>2, <2>2, <3>1 DEF RequestsAreNamed, WebTypes
      <3>2. CASE v = w
        <4>1. inbox'[w] = Append(inbox[w], a)
            BY <1>2 DEF WebTypes
        <4>2. \/ i \in DOMAIN inbox[w] /\ inbox'[w][i] = inbox[w][i]
              \/ inbox'[w][i] = a
            BY <1>1, <1>5, <2>2, <3>2, <4>1
        <4> QED
            BY <1>5, <3>2, <4>2 DEF RequestsAreNamed
      <3> QED
          BY <3>1, <3>2
    <2> QED
        BY <1>3, <2>1, <2>2 DEF RequestsAreNamed, IsOf, Web!Workers
  <1> QED
      BY <1>3, <1>7, <1>8 DEF InFlightIsPending, Web!AnswerIsOwn

LEMMA RejectionKeeps ==
    ASSUME WebInv, \/ \E c \in Clients : Web!Abort(c)
                   \/ \E w \in Web!Workers : Web!WorkerErrs(w)
    PROVE  WebInv'
  <1> USE DEF WebInv
  <1>1. /\ UNCHANGED <<queue, nextId, inbox, wanted>>
        /\ \/ UNCHANGED <<pending, status>>
           \/ \E C : Web!RejectAll(C, "cancelled") \/ Web!RejectAll(C, "error")
      BY DEF Web!Abort, Web!WorkerErrs, Web!workers
  <1>2. /\ pending' \in [Clients -> Nat]
        /\ status' \in [Clients -> {"idle", "pending"} \cup Verdicts]
        /\ \A c \in Clients : \/ pending'[c] = 0
                              \/ pending'[c] = pending[c] /\ status'[c] = status[c]
      BY <1>1 DEF Web!RejectAll, WebTypes, Verdicts
  <1> QED
      BY <1>1, <1>2, DropKeeps DEF WebTypes, Web!AnswerIsOwn

LEMMA MessageKeeps ==
    ASSUME WebInv, NEW w \in Web!Workers, Web!Message(w)
    PROVE  WebInv'
  <1> USE DEF WebInv
  <1> DEFINE m == Head(inbox[w])
             C == {c \in Web!InFlight : pending[c] = m.id}
  <1>1. inbox[w] \in Seq(Answer) /\ inbox[w] # <<>>
      BY DEF Web!Message, WebTypes
  <1>2. /\ UNCHANGED <<queue, nextId>>
        /\ inbox' = [inbox EXCEPT ![w] = Tail(@)]
        /\ pending' = [c \in Clients |-> IF c \in C THEN 0 ELSE pending[c]]
        /\ status' = [c \in Clients |-> IF c \in C THEN m.kind ELSE status[c]]
        /\ wanted' = [c \in Clients |-> IF c \in C THEN m.call ELSE wanted[c]]
      BY DEF Web!Message
  <1>3. m = inbox[w][1] /\ 1 \in DOMAIN inbox[w] /\ m \in Answer
        /\ Tail(inbox[w]) \in Seq(Answer)
      BY <1>1
  <1>4. m.kind \in {"result", "error"} /\ IsOf(m.id, m.call)
      BY <1>3 DEF Answer, RequestsAreNamed
  <1>5. \A c \in C : c \in Clients /\ m.call = c
      BY <1>4 DEF IsOf, Web!InFlight
  <1> HIDE DEF m, C
  <1>6. \A c \in Clients : wanted'[c] \in {"none", c}
      BY <1>2, <1>5 DEF Web!AnswerIsOwn
  <1>7. wanted' \in [Clients -> Clients \cup {"none"}]
      BY <1>2, <1>6 DEF WebTypes
  <1>8. /\ pending' \in [Clients -> Nat]
        /\ status' \in [Clients -> {"idle", "pending"} \cup Verdicts]
        /\ inbox' \in [Web!Workers -> Seq(Answer)]
        /\ \A c \in Clients : \/ pending'[c] = 0
                              \/ pending'[c] = pending[c] /\ status'[c] = status[c]
      BY <1>2, <1>3, <1>4 DEF WebTypes, Verdicts
  <1>9. \A v \in Web!Workers : \A i \in DOMAIN inbox'[v] :
           \E j \in DOMAIN inbox[v] : inbox'[v][i] = inbox[v][j]
    <2>1. \A j \in DOMAIN Tail(inbox[w]) :
             j + 1 \in DOMAIN inbox[w] /\ Tail(inbox[w])[j] = inbox[w][j + 1]
        BY <1>1
    <2> QED
        BY <1>2, <2>1 DEF WebTypes
  <1> QED
      BY <1>2, <1>6, <1>7, <1>8, <1>9, DropKeeps

LEMMA WebStep == WebInv /\ [Web!Next]_(Web!vars) => WebInv'
  <1> SUFFICES ASSUME WebInv, [Web!Next]_(Web!vars) PROVE WebInv'
      OBVIOUS
  <1>1. CASE UNCHANGED Web!vars
      BY <1>1 DEF Web!vars, Web!workers, Web!client, WebInv, WebTypes, RequestsAreNamed, IsOf,
         InFlightIsPending, Web!AnswerIsOwn, Web!Workers
  <1> QED
      BY <1>1, CallKeeps, CallAbortedKeeps, ServesKeeps, RejectionKeeps, MessageKeeps
      DEF Web!Next

-----------------------------------------------------------------------------
(* The three side by side *)

CallsInv ==
    /\ transport \in {"http", "shell", "web"}
    /\ transport = "http" => HttpInv
    /\ transport = "shell" => ShellInv
    /\ transport = "web" => WebInv /\ flag = {}

LEMMA CallsStart == CallsInit => CallsInv
  BY HttpInit, ShellInit, WebInit DEF CallsInit, CallsInv, StreamsRest

(* What is left alone is left as it was: one transport's variables rest    *)
(* while another one is in use.                                            *)
LEMMA CallsStep == CallsInv /\ [CallsNext]_all => CallsInv'
  <1> SUFFICES ASSUME CallsInv, [CallsNext]_all PROVE CallsInv'
      OBVIOUS
  <1>1. CASE OverHttp(Next)
      BY <1>1, HttpStep DEF OverHttp, CallsInv
  <1>2. CASE InShell(Shell!Next)
      BY <1>2, ShellStep DEF InShell, CallsInv
  <1>3. CASE InBrowser(Web!Next)
      BY <1>3, WebStep DEF InBrowser, CallsInv, streams
  <1>4. CASE UNCHANGED all
    <2>1. UNCHANGED <<transport, vars, flag, Shell!vars, Web!vars>>
        BY <1>4 DEF all, vars, server, channels, work, browser, shellOnly, webOnly, Shell!vars,
           Shell!registries, Shell!work, Shell!page, Web!vars, Web!workers, Web!client
    <2> QED
        BY <2>1, HttpStep, ShellStep, WebStep DEF CallsInv
  <1> QED
      BY <1>1, <1>2, <1>3, <1>4 DEF CallsNext

LEMMA CallsAreSound == CallsSpec => []CallsInv
  BY CallsStart, CallsStep, PTL DEF CallsSpec

(* A cancel request stops the run of the caller who sent it and no other,  *)
(* on every transport and for any number of callers, however long it was   *)
(* on its way.                                                             *)
THEOREM CancelsAreOwn == CallsSpec => []CancelHitsOwnRun
  <1>1. CallsInv => CancelHitsOwnRun
      BY DEF CallsInv, HttpInv, ShellInv, CancelHitsOwnRun
  <1> QED
      BY <1>1, CallsAreSound, PTL

(* generate_stream and generate_streaming_cmd leave no token and no waiting*)
(* thread of a finished run behind, whatever its caller did.               *)
THEOREM RunsDoNotLeak == CallsSpec => []NoRunLeaks
  <1>1. ShellInv => Shell!NothingLeaks
      BY DEF ShellInv, ListensFirst, TokensAreOwn, Shell!NothingLeaks
  <1>2. CallsInv => NoRunLeaks
      BY <1>1 DEF CallsInv, HttpInv, NoRunLeaks
  <1> QED
      BY <1>2, CallsAreSound, PTL

(* The verdict an HTTP caller reads is its own run's, and the last frame;  *)
(* the answer a call in the browser settles with is the one to the request *)
(* it posted, although dropped workers go on answering.                    *)
THEOREM VerdictsAreOwn == CallsSpec => []HearsOwnVerdict
  <1>1. CallsInv => HearsOwnVerdict
      BY DEF CallsInv, HttpInv, WebInv, HearsOwnVerdict
  <1> QED
      BY <1>1, CallsAreSound, PTL

(* If the caller's listeners are up before the worker stops waiting for    *)
(* them, no terminal event is emitted that they miss.                      *)
THEOREM VerdictsAreHeard == ASSUME ListensInTime PROVE CallsSpec => VerdictIsHeard
  <1>1. ASSUME CallsInv, NEW c \in Clients, transport = "shell", worker[c] = "done",
               status[c] = "pending"
        PROVE  outcome[c] \in listening[c]
    <2>1. outcome[c] \in Verdicts
        BY <1>1 DEF CallsInv, ShellInv, CallIsPlaced
    <2>2. listening[c] = Verdicts
        BY <1>1 DEF CallsInv, ShellInv, ListensFirst
    <2> QED
        BY <2>1, <2>2
  <1>2. CallsInv /\ [CallsNext]_all =>
          [\A c \in Clients :
              /\ transport = "shell" /\ worker[c] = "done" /\ worker'[c] = "ended"
              /\ status[c] = "pending"
              => outcome[c] \in listening[c]]_all
      BY <1>1
  <1> QED
      BY <1>2, CallsAreSound, PTL DEF CallsSpec, VerdictIsHeard

-----------------------------------------------------------------------------
(* The promise of WiacClient.generateStreaming *)

(* What one step may do to the callers' promises.                          *)
Keeps(before, after) ==
    /\ before \subseteq after
    /\ \A c \in Clients : status'[c] # status[c] =>
        \/ status[c] = "idle" /\ status'[c] = "pending"
        \/ status[c] = "pending" /\ status'[c] \in Verdicts \ {"cancelled"}
        \/ status[c] \in {"idle", "pending"} /\ status'[c] = "cancelled" /\ c \in after

LEMMA HttpKeepsIt == HttpInv /\ Next => Keeps(aborted, aborted')
  <1> SUFFICES ASSUME HttpInv, Next PROVE Keeps(aborted, aborted')
      OBVIOUS
  <1> USE DEF HttpInv
  <1>1. ASSUME NEW c \in Clients, Request(c) PROVE Keeps(aborted, aborted')
      BY <1>1 DEF Request, Keeps, HttpTypes
  <1>2. CASE UNCHANGED <<status, aborted>>
      BY <1>2 DEF Keeps
  <1>3. ASSUME NEW c \in Clients, BodyEnds(c) PROVE Keeps(aborted, aborted')
    <2>1. heard[c] \in Verdicts \cup {"none"} /\ (heard[c] = "cancelled" => c \in aborted)
        BY DEF HttpTypes, VerdictIsTheRuns, OutcomeIsEarned, CancelHitsOwnRun
    <2>2. /\ status[c] = "pending" /\ UNCHANGED aborted
          /\ status' = [status EXCEPT ![c] = IF heard[c] = "none" THEN "error" ELSE heard[c]]
        BY <1>3 DEF BodyEnds
    <2> QED
        BY <2>1, <2>2 DEF Keeps, HttpTypes, Verdicts
  <1>4. ASSUME NEW c \in Clients, Abort(c) \/ Disconnect(c) PROVE Keeps(aborted, aborted')
      BY <1>4 DEF Abort, Disconnect, Keeps, HttpTypes, Verdicts
  <1> QED
      BY <1>1, <1>2, <1>3, <1>4
      DEF Next, Work, Reads, OpDone, Completes, Fails, SeesCancel, Panics, RemoveToken, SendVerdict,
          Returned, ReadFrame, CancelArrives, CancelLost, server, browser

LEMMA ShellKeepsIt == ShellInv /\ Shell!Next => Keeps(aborted, aborted')
  <1> SUFFICES ASSUME ShellInv, Shell!Next PROVE Keeps(aborted, aborted')
      OBVIOUS
  <1> USE DEF ShellInv
  <1>1. ASSUME NEW c \in Clients, Shell!Invoke(c) PROVE Keeps(aborted, aborted')
      BY <1>1 DEF Shell!Invoke, Keeps, ShellTypes
  <1>2. CASE UNCHANGED <<status, aborted>>
      BY <1>2 DEF Keeps
  <1>3. ASSUME NEW c \in Clients, Shell!Hears(c) PROVE Keeps(aborted, aborted')
    <2>1. inbox[c] \in Seq(Verdicts) /\ inbox[c] # <<>>
        BY <1>3 DEF Shell!Hears, ShellTypes
    <2>2. Head(inbox[c]) = outcome[c] /\ Head(inbox[c]) \in Verdicts
        BY <2>1 DEF CallIsPlaced
    <2>3. outcome[c] = "cancelled" => c \in aborted
        BY DEF CallIsPlaced, CancelHitsOwnRun
    <2>4. /\ status[c] = "pending" /\ UNCHANGED aborted
          /\ status' = [status EXCEPT ![c] = Head(inbox[c])]
        BY <1>3 DEF Shell!Hears
    <2> QED
        BY <2>2, <2>3, <2>4 DEF Keeps, ShellTypes, Verdicts
  <1>4. ASSUME NEW c \in Clients, Shell!Abort(c) \/ Shell!ListenFails(c)
        PROVE  Keeps(aborted, aborted')
      BY <1>4 DEF Shell!Abort, Shell!ListenFails, Keeps, ShellTypes, Verdicts
  <1> QED
      BY <1>1, <1>2, <1>3, <1>4
      DEF Shell!Next, Shell!Released, Shell!TimesOut, Shell!Proceeds, Shell!Answers, Shell!Returns,
          Shell!Listens, Shell!Arms, Shell!ReadyArrives, Shell!CancelArrives, Shell!page

LEMMA WebKeepsIt == WebInv /\ Web!Next => Keeps(reached, reached')
  <1> SUFFICES ASSUME WebInv, Web!Next PROVE Keeps(reached, reached')
      OBVIOUS
  <1> USE DEF WebInv
  <1>1. \A c \in Web!InFlight : c \in Clients /\ status[c] = "pending"
      BY DEF Web!InFlight, InFlightIsPending
  <1>2. ASSUME NEW c \in Clients, Web!Call(c) \/ Web!CallAborted(c) PROVE Keeps(reached, reached')
      BY <1>2 DEF Web!Call, Web!CallAborted, Keeps, WebTypes
  <1>3. ASSUME NEW c \in Clients, Web!Abort(c) PROVE Keeps(reached, reached')
      BY <1>1, <1>3 DEF Web!Abort, Web!RejectAll, Keeps, WebTypes, Web!workers
  <1>4. ASSUME NEW w \in Web!Workers, Web!WorkerErrs(w) PROVE Keeps(reached, reached')
      BY <1>1, <1>4 DEF Web!WorkerErrs, Web!RejectAll, Keeps, WebTypes, Verdicts
  <1>5. ASSUME NEW w \in Web!Workers, Web!Serves(w) PROVE Keeps(reached, reached')
      BY <1>5 DEF Web!Serves, Web!client, Keeps
  <1>6. ASSUME NEW w \in Web!Workers, Web!Message(w) PROVE Keeps(reached, reached')
    <2> DEFINE m == Head(inbox[w])
               C == {c \in Web!InFlight : pending[c] = m.id}
    <2>1. inbox[w] \in Seq(Answer) /\ inbox[w] # <<>>
        BY <1>6 DEF Web!Message, WebTypes
    <2>2. m.kind \in {"result", "error"}
      <3>1. m \in Answer
          BY <2>1
      <3> QED
          BY <3>1 DEF Answer
    <2>3. /\ status' = [c \in Clients |-> IF c \in C THEN m.kind ELSE status[c]]
          /\ UNCHANGED reached
        BY <1>6 DEF Web!Message
    <2>4. \A c \in C : c \in Clients /\ status[c] = "pending"
        BY <1>1
    <2> HIDE DEF m, C
    <2> QED
        BY <2>2, <2>3, <2>4 DEF Keeps, Verdicts
  <1> QED
      BY <1>2, <1>3, <1>4, <1>5, <1>6 DEF Web!Next

(* The safety part of EveryTransportKeepsIt: on every transport, each step *)
(* is one the promise of generateStreaming allows - a call begins once,    *)
(* settles once, and is cancelled only if an abort reached it.             *)
THEOREM PromiseIsKept == CallsSpec => Answered!Init /\ [][Answered!Next]_(Answered!call)
  <1>1. CallsInit => Answered!Init
      BY DEF CallsInit, Init, Shell!Init, Web!Init, Answered!Init
  <1>2. CallsInv /\ [CallsNext]_all => [Answered!Next]_(Answered!call)
    <2> SUFFICES ASSUME CallsInv, [CallsNext]_all PROVE [Answered!Next]_(Answered!call)
        OBVIOUS
    <2>1. CASE OverHttp(Next)
        BY <2>1, HttpKeepsIt
        DEF OverHttp, CallsInv, Keeps, Answered!Next, Answered!Verdicts, Verdicts
    <2>2. CASE InShell(Shell!Next)
        BY <2>2, ShellKeepsIt
        DEF InShell, CallsInv, Keeps, Answered!Next, Answered!Verdicts, Verdicts
    <2>3. CASE InBrowser(Web!Next)
        BY <2>3, WebKeepsIt
        DEF InBrowser, CallsInv, Keeps, Answered!Next, Answered!Verdicts, Verdicts
    <2>4. CASE UNCHANGED all
        BY <2>4 DEF all, vars, browser, webOnly, Answered!call
    <2> QED
        BY <2>1, <2>2, <2>3, <2>4 DEF CallsNext
  <1> QED
      BY <1>1, <1>2, CallsAreSound, PTL DEF CallsSpec
=============================================================================
