----------------------------- MODULE MCServices ----------------------------
(***************************************************************************)
(* What stands beside the stream of packets, as a model to check: commands  *)
(* to the lidar over the serial port (SerialClient) or over TCP (PtcClient),*)
(* recording to a file (PcapSaver) and the log (Logger).  Each is checked   *)
(* by itself: one of them runs, the variables of the others stay unused.  A *)
(* variable of several modules stands for the one that runs.  What must     *)
(* happen in the end is checked on a smaller instance of PtcClient.         *)
(***************************************************************************)
EXTENDS Integers, Sequences

CONSTANTS
  Queries, Blocks, MaxCalls, MaxLost, OnlyDoneIsZero, Settled, \* SerialClient
  Callers, Cmds, Packages, BodyLen, OldUpgrade, MaxQueries, MaxResets, \* PtcClient
  Receivers, MaxPackets, MaxStarts, CacheMax, BufferSize, CreationIsAtomic, \* PcapSaver
  MaxLines, NotifyIsLate, \* Logger, with Callers and MaxStarts
  c1                      \* the caller of QueryReturns

VARIABLES
  part,  \* which of them runs
  mode, inPbl, accepted, toLidar, answers, lost, acks, opened, step, query,
  forPbl, block, waiting, ret, result, calls, unheeded, conn, timeout, line,
  opening, holder, at, call, head, body, queries, resets, late, reopened,
  untimed, received, isRecordPcap, holds, created, cache, dumping, thread,
  buffer, isOpen, file, earlier, user, starts, pushed, owed, toFile, running,
  exit, queue, lines, notifies, stopping

varsSerial == <<mode, inPbl, accepted, answers, lost, acks, opened, step,
                forPbl, block, waiting, result, calls, unheeded>>
varsAsked == <<toLidar, query, ret>>
varsPtc == <<conn, timeout, line, opening, holder, call, head, body,
             queries, resets, late, reopened, untimed>>
varsAt == <<at>>
varsSaver == <<received, isRecordPcap, holds, created, cache, dumping,
               buffer, isOpen, earlier, user, pushed, owed>>
varsFiles == <<thread, file, starts>>
varsLogger == <<toFile, running, exit, queue, lines, notifies, stopping>>
vars == <<part, varsSerial, varsAsked, varsPtc, varsAt, varsSaver,
          varsFiles, varsLogger>>

Serial == INSTANCE SerialClient
Ptc == INSTANCE PtcClient
Waits == INSTANCE PtcClient WITH
  Cmds <- {}, Packages <- 1, BodyLen <- 1, OldUpgrade <- FALSE,
  MaxQueries <- 2, MaxResets <- 1
Saver == INSTANCE PcapSaver
Log == INSTANCE Logger

ASSUME SerialParameters == Serial!SerialClientAssumption
ASSUME PtcParameters == Ptc!PtcAssumption
ASSUME WaitsParameters == Waits!PtcAssumption
ASSUME SaverParameters == Saver!SaverAssumption
ASSUME LogParameters == Log!LoggerAssumption
ASSUME CallerAssumption == c1 \in Callers

Unused == "unused"
NoSerial == /\ mode = Unused /\ inPbl = Unused /\ accepted = Unused
            /\ answers = Unused /\ lost = Unused /\ acks = Unused
            /\ opened = Unused /\ step = Unused /\ forPbl = Unused
            /\ block = Unused /\ waiting = Unused /\ result = Unused
            /\ calls = Unused /\ unheeded = Unused
NoAsked == /\ toLidar = Unused /\ query = Unused /\ ret = Unused
NoPtc == /\ conn = Unused /\ timeout = Unused /\ line = Unused
         /\ opening = Unused /\ holder = Unused /\ call = Unused
         /\ head = Unused /\ body = Unused /\ queries = Unused
         /\ resets = Unused /\ late = Unused /\ reopened = Unused
         /\ untimed = Unused
NoAt == /\ at = Unused
NoSaver == /\ received = Unused /\ isRecordPcap = Unused /\ holds = Unused
           /\ created = Unused /\ cache = Unused /\ dumping = Unused
           /\ buffer = Unused /\ isOpen = Unused /\ earlier = Unused
           /\ user = Unused /\ pushed = Unused /\ owed = Unused
NoFiles == /\ thread = Unused /\ file = Unused /\ starts = Unused
NoLogger == /\ toFile = Unused /\ running = Unused /\ exit = Unused
            /\ queue = Unused /\ lines = Unused /\ notifies = Unused
            /\ stopping = Unused

Init ==
  \/ part = "serial" /\ Serial!Init
     /\ NoPtc /\ NoAt /\ NoSaver /\ NoFiles /\ NoLogger
  \/ part = "ptc" /\ Ptc!Init
     /\ NoSerial /\ NoSaver /\ NoFiles /\ NoLogger
  \/ part = "waits" /\ Waits!Init
     /\ NoSerial /\ NoSaver /\ NoFiles /\ NoLogger
  \/ part = "saver" /\ Saver!Init
     /\ NoSerial /\ NoAsked /\ NoPtc /\ NoLogger
  \/ part = "logger" /\ Log!Init
     /\ NoSerial /\ NoAsked /\ NoPtc /\ NoAt /\ NoSaver

(* A step of one of them. *)
OfSerial(A) ==
  /\ part = "serial" /\ A
  /\ UNCHANGED <<part, varsPtc, varsAt, varsSaver, varsFiles, varsLogger>>
OfPtc(A) ==
  /\ part = "ptc" /\ A
  /\ UNCHANGED <<part, varsSerial, varsSaver, varsFiles, varsLogger>>
OfWaits(A) ==
  /\ part = "waits" /\ A
  /\ UNCHANGED <<part, varsSerial, varsSaver, varsFiles, varsLogger>>
OfSaver(A) ==
  /\ part = "saver" /\ A
  /\ UNCHANGED <<part, varsSerial, varsAsked, varsPtc, varsLogger>>
OfLog(A) ==
  /\ part = "logger" /\ A
  /\ UNCHANGED <<part, varsSerial, varsAsked, varsPtc, varsAt, varsSaver>>

Next ==
  \/ OfSerial(Serial!Next)
  \/ OfPtc(Ptc!Next)
  \/ OfWaits(Waits!Next)
  \/ OfSaver(Saver!Next)
  \/ OfLog(Log!Next)

(* The threads of the process run (PtcClient, Logger). *)
Fairness ==
  /\ WF_vars(OfWaits(Waits!Connect)) /\ WF_vars(OfWaits(Waits!SetTimeouts))
  /\ \A c \in Callers : WF_vars(OfWaits(Waits!Step(c))) /\ WF_vars(OfLog(Log!AddNotifies(c)))
  /\ WF_vars(OfLog(Log!StopNotifies)) /\ WF_vars(OfLog(Log!Join))
  /\ WF_vars(OfLog(Log!Return)) /\ WF_vars(OfLog(Log!Lock)) /\ WF_vars(OfLog(Log!Write))
  /\ WF_vars(OfLog(Log!Test)) /\ WF_vars(OfLog(Log!Sleep))

Spec == Init /\ [][Next]_vars /\ Fairness

(* A command that changed something for itself puts it back: the mode of a  *)
(* serial lidar, the timeouts of the connection (SerialClient, PtcClient).  *)
ChangesUndone ==
  /\ part = "serial" => Serial!ModeRestored
  /\ part = "ptc" => Ptc!TimeoutsRestored
(* An upgrade that returns 0 was accepted whole (SerialClient).             *)
UpgradeSound == part = "serial" => Serial!UpgradeSound
(* An answer is whole and for the command asked (PtcClient).                *)
AnswerIsOwn == part = "ptc" => Ptc!AnswerIsOwn
(* A query comes back: of one caller, and so of the other, which is no       *)
(* different (PtcClient).                                                   *)
QueryReturns ==
  (part = "waits" /\ at[c1] \in {"lock", "header", "body"})
    ~> (part = "waits" /\ (at[c1] = "after" \/ untimed))
(* A recording holds what was put into the cache before it was stopped      *)
(* (PcapSaver).                                                             *)
RecordingComplete == part = "saver" => Saver!RecordingComplete
(* A queued line is written, and the logger can be stopped (Logger).        *)
LoggerServes ==
  /\ (part = "logger" /\ running /\ queue # <<>>)
       ~> (part = "logger" /\ (exit \/ queue = <<>>))
  /\ (part = "logger" /\ stopping # "no") ~> (part = "logger" /\ stopping = "no")
=============================================================================
