----------------------------- MODULE PtcClient ------------------------------
(***************************************************************************)
(* PtcClient: queries to the lidar over one TCP connection that several    *)
(* threads share, and the calls that lengthen its timeouts for a while.    *)
(* An answer carries the command it is for but not which query, and may    *)
(* come after the query stopped waiting for it.  The bytes of an answer    *)
(* are its two identifiers, the rest of its header, and its body.          *)
(***************************************************************************)
EXTENDS Integers, Sequences, SequencesExt, FiniteSetsExt

CONSTANTS
  Callers,     \* the threads that call
  Cmds,        \* commands of single queries
  Packages,    \* packages of an upgrade
  BodyLen,     \* units of an answer's body; none looks like an identifier
  OldUpgrade,  \* are upgrades calls of the overload that takes no command?
  MaxQueries,  \* bound on queries
  MaxResets    \* bound on connections the lidar gives up

PtcAssumption ==
  /\ "none" \notin Callers  \* see holder
  /\ Packages \in Nat \ {0} /\ BodyLen \in Nat \ {0}
  /\ OldUpgrade \in BOOLEAN /\ MaxQueries \in Nat /\ MaxResets \in Nat

UpgradeCmd == "upgrade"
HeaderParts == <<"I0", "I1", "rest">>
HeaderSize == Len(HeaderParts)
Parts == HeaderParts \o [i \in 1..BodyLen |-> "body"]

VARIABLES
  conn,      \* the client's socket: "closed", "open", or "reset" by the lidar
  timeout,   \* SO_RCVTIMEO: "none", "default" (recv_timeout_ms_) or "long"
  toLidar,   \* queries on their way: [q, cmd]
  line,      \* units of answers on their way or in the socket
  opening,   \* open_thread_ptr_: "connect", "setTimeout" or "ended"
  holder,    \* who holds _mutex, or "none"
  at,        \* each caller: "idle", "check", "lock", "header", "body", "after"
  call,      \* what it calls: [cmd, todo: packages left, long: timeouts lengthened]
  query,     \* the query it waits for, 0 if it may get an older answer
  head,      \* u8HeaderBuf, from the identifiers on
  body,      \* u8BodyBuf
  ret,       \* what QueryCommand returns
  queries,   \* queries sent
  resets,
  late,      \* a query on this connection has stopped waiting for its answer
  reopened,  \* Send or Receive has connected again
  untimed    \* a query waits on a socket without timeouts

socket == <<conn, timeout, toLidar, line, late>>
callers == <<at, call, query, head, body, ret>>
history == <<queries, resets, reopened, untimed>>
ptcVars == <<socket, opening, holder, callers, history>>

Idle == [cmd |-> "none", todo |-> 0, long |-> FALSE]

Init ==
  /\ conn = "closed" /\ timeout = "none" /\ toLidar = <<>> /\ line = <<>>
  /\ opening = "connect" /\ holder = "none"
  /\ at = [c \in Callers |-> "idle"] /\ call = [c \in Callers |-> Idle]
  /\ query = [c \in Callers |-> 0]
  /\ head = [c \in Callers |-> <<>>] /\ body = [c \in Callers |-> <<>>]
  /\ ret = [c \in Callers |-> 0]
  /\ queries = 0 /\ resets = 0
  /\ late = FALSE /\ reopened = FALSE /\ untimed = FALSE

Closed ==
  /\ conn' = "closed" /\ line' = <<>> /\ toLidar' = <<>> /\ late' = FALSE

(***************************************************************************)
(* TryOpen's thread, and the lidar.                                        *)
(***************************************************************************)
Connect ==
  /\ opening = "connect"
  /\ \/ opening' = "ended" /\ UNCHANGED conn
     \/ opening' = "setTimeout" /\ conn' = "open"
  /\ UNCHANGED <<timeout, toLidar, line, late, holder, callers, history>>

(* SetTimeout, when there is a socket to set it on.                         *)
Timed(t) == timeout' = IF conn = "closed" THEN timeout ELSE t

SetTimeouts ==
  /\ opening = "setTimeout"
  /\ opening' = "ended" /\ Timed("default")
  /\ UNCHANGED <<conn, toLidar, line, late, holder, callers, history>>

Units(q, ok) == [i \in 1..Len(Parts) |-> [q |-> q.q, cmd |-> q.cmd, ok |-> ok, part |-> Parts[i]]]

Reply(ok) ==
  /\ conn = "open" /\ toLidar # <<>>
  /\ line' = line \o Units(Head(toLidar), ok) /\ toLidar' = Tail(toLidar)
  /\ UNCHANGED <<conn, timeout, late, opening, holder, callers, history>>

Silence ==
  /\ toLidar # <<>> /\ toLidar' = Tail(toLidar)
  /\ UNCHANGED <<conn, timeout, line, late, opening, holder, callers, history>>

Reset ==
  /\ conn = "open" /\ resets < MaxResets
  /\ conn' = "reset" /\ resets' = resets + 1
  /\ UNCHANGED <<timeout, toLidar, line, late, opening, holder, callers, queries, reopened,
                 untimed>>

(***************************************************************************)
(* The calls: a query is one package, an upgrade Packages with the same    *)
(* command.  GetOperationLog, GetFreezeFrames and GetUpgradeLidarLog are a *)
(* query with longer timeouts.                                             *)
(***************************************************************************)
Call(c, cmd, packages, long) ==
  /\ at[c] = "idle"
  /\ call' = [call EXCEPT ![c] = [cmd |-> cmd, todo |-> packages, long |-> long]]
  /\ at' = [at EXCEPT ![c] = "check"]
  /\ IF long THEN Timed("long") ELSE UNCHANGED timeout
  /\ UNCHANGED <<conn, toLidar, line, late, opening, holder, query, head, body, ret, history>>

(* QueryCommand looks at the connection before it locks.                    *)
Check(c) ==
  /\ at[c] = "check"
  /\ queries + Quantify(Callers, LAMBDA d : at[d] = "lock") < MaxQueries
  /\ IF conn = "closed" THEN at' = [at EXCEPT ![c] = "after"] /\ ret' = [ret EXCEPT ![c] = -1]
     ELSE at' = [at EXCEPT ![c] = "lock"] /\ UNCHANGED ret
  /\ UNCHANGED <<socket, opening, holder, call, query, head, body, history>>

(* Fault: nobody waits for the mutex. *)
FreeAlways(h) == h = h

Free(h) == h = "none"

(* TcpFlushIn and Send.  The flush takes nothing out of the socket: its     *)
(* flags 0xFF ask for urgent data.  A closed connection is opened again; a  *)
(* send that fails closes it, unless it only timed out.                     *)
Send(c) ==
  /\ at[c] = "lock" /\ Free(holder)
  /\ query' = [query EXCEPT ![c] = IF late THEN 0 ELSE queries + 1]
  /\ queries' = queries + 1
  /\ \E opens \in BOOLEAN, sends \in {"all", "failed", "timedOut"} :
       LET opened == conn # "closed" \/ opens
           again == conn = "closed" /\ opens
           sent == opened /\ sends = "all"
       IN /\ sends = "failed" => conn = "reset"
          /\ timeout' = IF again THEN "none" ELSE timeout
          /\ sends = "timedOut" => timeout' # "none"
          /\ reopened' = (reopened \/ again)
          /\ untimed' = (untimed \/ (sent /\ timeout' = "none"))
          /\ IF sends = "failed" THEN Closed
             ELSE /\ conn' = IF again THEN "open" ELSE conn
                  /\ toLidar' = IF sent /\ conn # "reset"
                                THEN Append(toLidar, [q |-> queries + 1, cmd |-> call[c].cmd])
                                ELSE toLidar
                  /\ UNCHANGED <<line, late>>
          /\ ret' = [ret EXCEPT ![c] = IF sent THEN 0 ELSE -1]
          /\ IF sent THEN at' = [at EXCEPT ![c] = "header"] /\ holder' = c
             ELSE at' = [at EXCEPT ![c] = "after"] /\ UNCHANGED holder
  /\ UNCHANGED <<opening, call, head, body, resets>>

(* What is kept of a chunk while the identifiers are looked for: two that   *)
(* come in different chunks are not found.                                  *)
Found(chunk) ==
  LET starts == {i \in 1..Len(chunk) - 1 : chunk[i].part = "I0" /\ chunk[i + 1].part = "I1"}
  IN IF starts = {} THEN <<>> ELSE SubSeq(chunk, Min(starts), Len(chunk))

Leave(c, r) ==
  /\ at' = [at EXCEPT ![c] = "after"] /\ ret' = [ret EXCEPT ![c] = r]
  /\ holder' = "none"

IsValid(h, c) == h.ok /\ h.cmd = call[c].cmd

Chunks(left) == {SubSeq(line, 1, n) : n \in 1..Min({left, Len(line)})}

ReceiveHeader(c) ==
  /\ at[c] = "header" /\ line # <<>>
  /\ \E chunk \in Chunks(HeaderSize - Len(head[c])) :
       LET h == IF head[c] = <<>> THEN Found(chunk) ELSE head[c] \o chunk
       IN /\ head' = [head EXCEPT ![c] = h]
          /\ line' = SubSeq(line, Len(chunk) + 1, Len(line))
          /\ IF Len(h) < HeaderSize THEN UNCHANGED <<at, ret, holder>>
             ELSE IF IsValid(h[HeaderSize], c)
             THEN at' = [at EXCEPT ![c] = "body"] /\ UNCHANGED <<ret, holder>>
             ELSE Leave(c, -1)
  /\ UNCHANGED <<conn, timeout, toLidar, late, opening, call, query, body, history>>

ReceiveBody(c) ==
  /\ at[c] = "body" /\ line # <<>>
  /\ \E chunk \in Chunks(BodyLen - Len(body[c])) :
       LET b == body[c] \o chunk
       IN /\ body' = [body EXCEPT ![c] = b]
          /\ line' = SubSeq(line, Len(chunk) + 1, Len(line))
          /\ IF Len(b) < BodyLen THEN UNCHANGED <<at, ret, holder>> ELSE Leave(c, 0)
  /\ UNCHANGED <<conn, timeout, toLidar, late, opening, call, query, head, history>>

Receives(c) == at[c] \in {"header", "body"}

(* Fault: a receive that timed out is tried again. *)
RecvTriesAgain(c) ==
  /\ Receives(c) /\ timeout # "none" /\ UNCHANGED ptcVars

RecvTimesOut(c) ==
  /\ Receives(c) /\ timeout # "none"
  /\ Leave(c, -1) /\ late' = TRUE
  /\ UNCHANGED <<conn, timeout, toLidar, line, opening, call, query, head, body, history>>

RecvFails(c) ==
  /\ Receives(c) /\ conn = "reset"
  /\ Leave(c, -1) /\ Closed
  /\ UNCHANGED <<timeout, opening, call, query, head, body, history>>

(* The overload without a command returns at the first package that fails.  *)
Restore(c) ==
  IF call[c].long /\ ~(OldUpgrade /\ call[c].cmd = UpgradeCmd /\ ret[c] # 0)
  THEN Timed("default") ELSE UNCHANGED timeout

After(c) ==
  /\ at[c] = "after"
  /\ IF ret[c] = 0 /\ call[c].todo > 1
     THEN /\ call' = [call EXCEPT ![c].todo = @ - 1]
          /\ at' = [at EXCEPT ![c] = "check"] /\ UNCHANGED timeout
     ELSE /\ call' = [call EXCEPT ![c] = Idle]
          /\ at' = [at EXCEPT ![c] = "idle"] /\ Restore(c)
  /\ head' = [head EXCEPT ![c] = <<>>] /\ body' = [body EXCEPT ![c] = <<>>]
  /\ query' = [query EXCEPT ![c] = 0] /\ ret' = [ret EXCEPT ![c] = 0]
  /\ UNCHANGED <<conn, toLidar, line, late, opening, holder, history>>

Step(c) ==
  \/ Check(c) \/ Send(c) \/ ReceiveHeader(c) \/ ReceiveBody(c)
  \/ RecvTimesOut(c) \/ RecvFails(c) \/ After(c)

Next ==
  \/ Connect \/ SetTimeouts \/ Silence \/ Reset
  \/ \E ok \in BOOLEAN : Reply(ok)
  \/ \E c \in Callers :
       \/ \E cmd \in Cmds, long \in BOOLEAN : Call(c, cmd, 1, long)
       \/ Call(c, UpgradeCmd, Packages, TRUE)
       \/ Step(c)

(* Both threads of the process run, and a receive with a timeout ends; what *)
(* the lidar does, and when, is not assumed.                                *)
Fairness ==
  /\ WF_ptcVars(Connect) /\ WF_ptcVars(SetTimeouts)
  /\ \A c \in Callers : WF_ptcVars(Step(c))

Spec == Init /\ [][Next]_ptcVars /\ Fairness

Own(c) ==
  LET answer == head[c] \o body[c]
  IN /\ [i \in DOMAIN answer |-> answer[i].part] = Parts
     /\ \A i \in DOMAIN answer :
          /\ answer[i].q = answer[1].q /\ answer[i].cmd = call[c].cmd /\ answer[i].ok
          /\ query[c] \in {0, answer[i].q}

(* What QueryCommand returns as an answer is one whole answer to the        *)
(* command it sent, however the stream was cut, whatever other threads ask  *)
(* for meanwhile, and it answers this very query unless an earlier one on   *)
(* the connection stopped waiting (QueryCommand, TcpFlushIn).               *)
AnswerIsOwn == \A c \in Callers : at[c] = "after" /\ ret[c] = 0 => Own(c)

(* When no call with longer timeouts is under way, a connection that was    *)
(* never lost has the timeouts TryOpen gave it, however those calls ended   *)
(* and overlapped (SetSocketTimeout).                                       *)
TimeoutsRestored ==
  opening = "ended" /\ conn # "closed" /\ ~reopened /\ ~(\E c \in Callers : call[c].long)
  => timeout = "default"

(* A query comes back, also when the lidar stays silent, unless one waits   *)
(* on a socket that Send opened again and gave no timeouts.                 *)
QueryReturns ==
  \A c \in Callers : at[c] \in {"lock", "header", "body"} ~> at[c] = "after" \/ untimed
=============================================================================
