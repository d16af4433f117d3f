---------------------------- MODULE SerialClient ----------------------------
(***************************************************************************)
(* SerialClient: commands to a serial lidar and its upgrade.  A command is  *)
(* sent, and the next acknowledgement of the ring is taken for its answer; *)
(* answers carry a command and its argument but not which call they are    *)
(* for, and may come after the client stopped to wait for them.            *)
(***************************************************************************)
EXTENDS Integers, Sequences

CONSTANTS
  Queries,        \* what can be asked for: correction, sn, version, fault state
  Blocks,         \* blocks of 1024 bytes of the upgrade file
  MaxCalls,       \* bound on calls
  MaxLost,        \* bound on commands and answers that get lost
  OnlyDoneIsZero, \* in the boot loader only "done" (0x05) ends with code 0
  Settled         \* an upgrade starts with nothing of earlier calls on its way

SerialClientAssumption ==
  /\ Blocks \in Nat \ {0} /\ MaxCalls \in Nat /\ MaxLost \in Nat
  /\ {OnlyDoneIsZero, Settled} \subseteq BOOLEAN

NowMode == "now"    \* m_now_mode, which nothing changes
Modes == {NowMode, "query", "upgrade"}
Ok == "0"           \* what a call returns when all went well

VARIABLES
  mode, inPbl, accepted,  \* the lidar: its mode, is it in its boot loader,
                          \* the blocks it has accepted there
  toLidar, answers,       \* commands and answers on their way
  lost,                   \* how many got lost
  acks,                   \* cmdAckRecvBuf of source_recv_
  opened,                 \* are source_send_ and source_recv_ open?
  step,                   \* the call's next exchange, or "idle"
  query, forPbl,          \* what GetX asks for; UpgradeLidar's mode # 0
  block,                  \* the blocks to send next, as one
  waiting,                \* has the command of step been sent?
  ret,                    \* ret
  result,                 \* what the last call returned: [call, ret]
  calls,                  \* calls so far
  unheeded                \* has a change of mode been lost or refused?

lidar == <<mode, inPbl, accepted>>
wire == <<toLidar, answers, lost, unheeded>>
client == <<opened, step, query, forPbl, block, waiting, ret, result, calls>>
serialClientVars == <<lidar, wire, acks, client>>

Init ==
  /\ mode = NowMode /\ inPbl = FALSE /\ accepted = {}
  /\ toLidar = <<>> /\ answers = <<>> /\ lost = 0 /\ unheeded = FALSE
  /\ acks = <<>> /\ opened = TRUE
  /\ step = "idle" /\ query \in Queries /\ forPbl \in BOOLEAN
  /\ block = {0} /\ waiting = FALSE
  /\ ret = Ok /\ result = [call |-> "none", ret |-> Ok] /\ calls = 0

(***************************************************************************)
(* The lidar.  It answers a command, refuses it, or says nothing.          *)
(***************************************************************************)
Answer(c, a, code) == [cmd |-> c, arg |-> a, code |-> code]
OtherCodes == IF OnlyDoneIsZero THEN {"1"} ELSE {"0", "1"}
Say(some) == answers' = answers \o some

Handle ==
  /\ toLidar # <<>> /\ toLidar' = Tail(toLidar)
  /\ LET c == Head(toLidar)
     IN \/ /\ c.cmd \in {"mode", "get", "request"} /\ ~inPbl
           /\ Say(<<Answer(c.cmd, c.arg, "1")>>) /\ UNCHANGED lidar
        \/ /\ c.cmd = "mode" /\ ~inPbl
           /\ mode' = c.arg /\ Say(<<Answer("mode", c.arg, Ok)>>)
           /\ UNCHANGED <<inPbl, accepted>>
        \/ /\ c.cmd = "get" /\ ~inPbl
           /\ Say(<<Answer("get", c.arg, Ok)>>) /\ UNCHANGED lidar
        \/ /\ c.cmd = "request" /\ ~inPbl
           /\ inPbl' = TRUE /\ accepted' = {}
           /\ \E code \in OtherCodes :
                Say(<<Answer("request", c.arg, Ok), Answer("ready", "none", code)>>)
           /\ UNCHANGED mode
        \/ /\ c.cmd = "pbl" /\ inPbl
           /\ \E code \in OtherCodes : Say(<<Answer("pbl", "none", code)>>)
           /\ accepted' = {} /\ UNCHANGED <<mode, inPbl>>
        \/ /\ c.cmd = "block" /\ inPbl
           /\ \/ accepted' = accepted \cup c.arg /\ Say(<<Answer("done", "none", Ok)>>)
              \/ /\ UNCHANGED accepted
                 /\ \E code \in OtherCodes : Say(<<Answer("failed", "none", code)>>)
           /\ UNCHANGED <<mode, inPbl>>
        \/ inPbl # (c.cmd \in {"pbl", "block"}) /\ UNCHANGED <<lidar, answers>>
  /\ unheeded' = (unheeded \/ (Head(toLidar).cmd = "mode" /\ mode' # Head(toLidar).arg))
  /\ UNCHANGED <<lost, acks, client>>

LoseCommand ==
  /\ toLidar # <<>> /\ lost < MaxLost
  /\ toLidar' = Tail(toLidar) /\ lost' = lost + 1
  /\ unheeded' = (unheeded \/ Head(toLidar).cmd = "mode")
  /\ UNCHANGED <<lidar, answers, acks, client>>

LoseAnswer ==
  /\ answers # <<>> /\ lost < MaxLost
  /\ answers' = Tail(answers) /\ lost' = lost + 1
  /\ UNCHANGED <<lidar, toLidar, unheeded, acks, client>>

(* What comes to a closed port is gone. *)
Arrive ==
  /\ answers # <<>>
  /\ answers' = Tail(answers)
  /\ acks' = IF opened THEN Append(acks, Head(answers)) ELSE acks
  /\ UNCHANGED <<lidar, toLidar, lost, unheeded, client>>

(***************************************************************************)
(* The calls.  GetCorrectionInfo, GetSnInfo, GetLidarVersion and           *)
(* GetLidarFaultState are one: change the mode, ask, change it back.       *)
(***************************************************************************)
GetInfo(q) ==
  /\ step = "idle" /\ opened /\ calls < MaxCalls
  /\ step' = "enter" /\ query' = q /\ calls' = calls + 1
  /\ UNCHANGED <<lidar, wire, acks, opened, forPbl, block, waiting, ret, result>>

(* UpgradeLidar starts with both ports closed and the receiving one opened. *)
UpgradeLidar(pbl, opens) ==
  /\ step = "idle" /\ calls < MaxCalls
  /\ Settled => toLidar = <<>> /\ answers = <<>>
  /\ calls' = calls + 1 /\ forPbl' = pbl /\ block' = {0}
  /\ acks' = <<>> /\ opened' = opens
  /\ IF opens THEN step' = "pbl" /\ UNCHANGED result
     ELSE step' = "idle" /\ result' = [call |-> "upgrade", ret |-> "openError"]
  /\ UNCHANGED <<lidar, wire, query, waiting, ret>>

CommandOf(s) ==
  CASE s = "enter"   -> [cmd |-> "mode", arg |-> "query"]
    [] s = "info"    -> [cmd |-> "get", arg |-> query]
    [] s = "leave"   -> [cmd |-> "mode", arg |-> NowMode]
    [] s = "mode"    -> [cmd |-> "mode", arg |-> "upgrade"]
    [] s = "request" -> [cmd |-> "request", arg |-> IF forPbl THEN "pbl" ELSE "app"]
    [] s = "pbl"     -> [cmd |-> "pbl", arg |-> "none"]
    [] s = "block"   -> [cmd |-> "block", arg |-> block]

(* QueryCommand, OtaQueryCommand and GetPblVersionIdInPbl up to the wait;   *)
(* only the last leaves older acknowledgements in the ring.                 *)
Ask ==
  /\ step \notin {"idle", "ready"} /\ ~waiting
  /\ toLidar' = Append(toLidar, CommandOf(step))
  /\ acks' = IF step = "pbl" THEN acks ELSE <<>>
  /\ waiting' = TRUE
  /\ UNCHANGED <<lidar, answers, lost, unheeded, opened, step, query, forPbl, block, ret,
                 result, calls>>

(* The checksum of a command's answer is not that of an upgrade's.          *)
IsOta(a) == a.cmd \in {"ready", "done", "failed", "pbl"}

(* What the functions return for the answer a.                              *)
Verdict(a) ==
  CASE step = "pbl"   -> IF a.cmd = "pbl" THEN "inPbl" ELSE "timeout"
    [] step = "ready" -> IF ~IsOta(a) THEN "invalid"
                         ELSE IF a.cmd # "ready" THEN "failed" ELSE Ok
    [] step = "block" -> IF ~IsOta(a) THEN "invalid"
                         ELSE IF a.cmd # "done" THEN a.code ELSE Ok
    [] OTHER -> IF IsOta(a) \/ [cmd |-> a.cmd, arg |-> a.arg] # CommandOf(step)
                THEN "invalid" ELSE a.code

(* Was the block acknowledged?                                              *)
Done(a) == step = "block" => a.cmd = "done"

Continue(s, v) ==
  /\ step' = s /\ ret' = v /\ waiting' = (s = "ready")
  /\ UNCHANGED <<opened, block, result>>
Return(v) ==
  /\ step' = "idle" /\ ret' = v /\ waiting' = FALSE
  /\ result' = [call |-> IF step = "leave" THEN "get" ELSE "upgrade", ret |-> v]
  /\ opened' = (step = "leave")
  /\ UNCHANGED block

NextBlock(v) == waiting' = FALSE /\ ret' = v /\ UNCHANGED <<opened, step, result>>

(* Fault: a query that fails returns before the mode is changed back. *)
AfterQueryEarly(v) ==
  \/ step = "enter" /\ Continue("info", v)
  \/ step = "info" /\ v = Ok /\ Continue("leave", v)
  \/ /\ step = "info" /\ v # Ok
     /\ step' = "idle" /\ ret' = v /\ waiting' = FALSE
     /\ result' = [call |-> "get", ret |-> v]
     /\ UNCHANGED <<opened, block>>
  \/ step = "leave" /\ Return(ret)

(* GetX goes on whatever its ChangeMode returns.                            *)
AfterQuery(v) ==
  \/ step = "enter" /\ Continue("info", v)
  \/ step = "info" /\ Continue("leave", v)
  \/ step = "leave" /\ Return(ret)

(* Fault: the last block's answer is not looked at. *)
AfterBlockUnchecked(v, done) ==
  /\ step = "block"
  /\ IF Blocks - 1 \in block THEN Return(Ok)
     ELSE IF v # Ok \/ ~done THEN Return(v)
     ELSE block' = {i + 1 : i \in block} /\ NextBlock(v)

(* An answer that is no "done" but has the code 0 ends the loop without     *)
(* ending the upgrade: the rest of the file is sent as one last block.      *)
AfterBlock(v, done) ==
  /\ step = "block"
  /\ IF v # Ok \/ Blocks - 1 \in block THEN Return(v)
     ELSE /\ block' = IF done THEN {i + 1 : i \in block}
                      ELSE UNION {i..Blocks - 1 : i \in block}
          /\ NextBlock(v)

AfterProbe(v) ==
  /\ step = "pbl"
  /\ IF v = "timeout" THEN Continue("mode", Ok)
     ELSE IF forPbl THEN Return(v) ELSE Continue("block", Ok)

AfterRequest(v) ==
  \/ step = "mode" /\ IF v \in {Ok, "timeout"} THEN Continue("request", v) ELSE Return(v)
  \/ step = "request" /\ IF v = Ok THEN Continue("ready", v)
                         ELSE IF v = "timeout" THEN Continue("block", Ok) ELSE Return(v)
  \/ step = "ready" /\ IF v \in {Ok, "timeout"} THEN Continue("block", Ok) ELSE Return(v)

After(v, done) ==
  AfterQuery(v) \/ AfterProbe(v) \/ AfterRequest(v) \/ AfterBlock(v, done)

(* The ports are closed and opened, and the ring cleared, between the probe *)
(* and what follows, and before the lidar's "ready": answers on their way   *)
(* may get lost with it.                                                    *)
Reopens == step = "pbl" \/ (step = "request" /\ step' = "ready")
Cleared(ring, line) ==
  IF Reopens
  THEN /\ acks' = <<>>
       /\ \E n \in 0..Len(line) : answers' = SubSeq(line, n + 1, Len(line))
  ELSE acks' = ring /\ answers' = line

Answered ==
  /\ waiting /\ acks # <<>>
  /\ After(Verdict(Head(acks)), Done(Head(acks)))
  /\ Cleared(Tail(acks), answers)
  /\ UNCHANGED <<lidar, toLidar, lost, unheeded, query, forPbl, calls>>

TimedOut ==
  /\ waiting /\ acks = <<>>
  /\ After("timeout", FALSE)
  /\ Cleared(acks, answers)
  /\ UNCHANGED <<lidar, toLidar, lost, unheeded, query, forPbl, calls>>

Next ==
  \/ Handle \/ LoseCommand \/ LoseAnswer \/ Arrive
  \/ \E q \in Queries : GetInfo(q)
  \/ \E pbl, opens \in BOOLEAN : UpgradeLidar(pbl, opens)
  \/ Ask \/ Answered \/ TimedOut

Spec == Init /\ [][Next]_serialClientVars

(* Whatever was answered late or not at all: once GetX has returned and the *)
(* lidar has seen all of its commands, it is back in the mode it is used in *)
(* and goes on sending points, as long as it heeds what it is told (GetX,   *)
(* ChangeMode(m_now_mode)).                                                 *)
ModeRestored ==
  step = "idle" /\ result.call = "get" /\ toLidar = <<>> /\ ~unheeded => mode = NowMode

(* UpgradeLidar returns 0 only if the lidar has accepted every block, the   *)
(* last one too, whatever it made of late answers and whichever requests it *)
(* went on without.                                                         *)
UpgradeSound ==
  step = "idle" /\ result = [call |-> "upgrade", ret |-> Ok]
  => accepted = 0..Blocks - 1
=============================================================================
