------------------------------- MODULE Logger -------------------------------
(***************************************************************************)
(* GlobalLogger and its two loggers (include/log/Log.hpp).                 *)
(*                                                                         *)
(* Any thread logs through the singleton, whose settings any thread may    *)
(* change: a setter replaces the selected logger by a new one, and the old *)
(* one dies with its shared_ptr.  Only output() takes g_log_mutex; its     *)
(* critical section is one step here.  What a record says is the business  *)
(* of module Format: here it is the number of its call, and its time.      *)
(*                                                                         *)
(* A step that uses a dead or null object makes undefined TRUE, and        *)
(* nothing is said about what comes after it.                              *)
(***************************************************************************)
EXTENDS Naturals, Sequences

CONSTANTS
    Callers,
    Levels,       \* LogLevel: naturals, 0 is DEBUG
    Paths,        \* file paths
    DefaultPath,  \* "./log.txt"
    MaxCalls,     \* bound: calls in one behaviour
    MaxTime       \* bound: the clock

ASSUME LoggerAssumption ==
    Callers # {} /\ Levels \subseteq Nat /\ 0 \in Levels /\ DefaultPath \in Paths

VARIABLES
    inst,       \* g_instance: 0, or the number of the GlobalLogger
    settings,   \* g_choice, g_min_level and g_file_path
    loggers,    \* g_logger and g_file_logger: [id, level, path], id 0 is null
    buffer,     \* records in the stream of the file logger
    files,      \* records in each file
    tm,         \* the static object that std::localtime returns
    clock,
    call,       \* the call that each thread is in, see Idle
    calls,      \* number of calls begun
    written,    \* history: records that output() gave to each file
    undefined,
    overlapped  \* history: a setter, or the first use, overlapped a call

objectVars == <<inst, settings, loggers>>
fileVars == <<buffer, files, written>>
timeVars == <<tm, clock>>
historyVars == <<calls, undefined, overlapped>>
loggerVars == <<objectVars, fileVars, timeVars, call, historyVars>>

Choices == {"STDOUT", "FILE", "NONE"}

(* The calls: a record of some level, or a new value for a setting. *)
Ops == [kind : {"log", "level"}, value : Levels]
       \cup [kind : {"choice"}, value : Choices]
       \cup [kind : {"path"}, value : Paths]
IsSetter(o) == o.kind \in {"level", "choice", "path"}

Null == [id |-> 0, level |-> 0, path |-> DefaultPath]
NoLoggers == [c \in {"STDOUT", "FILE"} |-> Null]
Defaults == [choice |-> "STDOUT", level |-> 0, path |-> DefaultPath]

(* A thread in no call.  In a call, n is its number, from the time at      *)
(* which it began, inst and logger the objects that it uses, and time the  *)
(* time of its record.                                                     *)
Idle == [pc |-> "idle", kind |-> "none", value |-> 0, n |-> 0, from |-> 0,
         inst |-> 0, logger |-> 0, time |-> 0]

LoggerInit ==
    /\ inst = 0 /\ settings = Defaults /\ loggers = NoLoggers
    /\ buffer = <<>>
    /\ files = [p \in Paths |-> <<>>] /\ written = [p \in Paths |-> <<>>]
    /\ tm = 0 /\ clock = 0
    /\ call = [t \in Callers |-> Idle]
    /\ calls = 0 /\ undefined = FALSE /\ overlapped = FALSE

(* The call of t goes on from one place to another with a field changed,   *)
(* or returns.                                                             *)
At(t, pc) == call[t].pc = pc
ProceedWith(t, pc, field, v) ==
    call' = [call EXCEPT ![t].pc = pc, ![t][field] = v]
Proceed(t, pc) == call' = [call EXCEPT ![t].pc = pc]
Done(t) == call' = [call EXCEPT ![t] = Idle]

(* A number for each object that is made. *)
NewId == LET ids == {loggers[c].id : c \in DOMAIN loggers}
         IN  1 + CHOOSE i \in ids : \A j \in ids : j <= i

UndefinedIf(cond) == undefined' = cond /\ UNCHANGED <<calls, overlapped>>

-----------------------------------------------------------------------------
(* The singleton.                                                          *)

(* A call begins with GlobalLogger::instance(). *)
Begin(t, o) ==
    /\ At(t, "idle")
    /\ calls < MaxCalls /\ calls' = calls + 1
    /\ call' = [call EXCEPT ![t] = [Idle EXCEPT !.pc = "instance", !.kind = o.kind,
                  !.value = o.value, !.n = calls + 1, !.from = clock]]
    /\ overlapped' = (overlapped \/ \E u \in Callers :
           ~At(u, "idle") /\ (IsSetter(o) \/ IsSetter(call[u]) \/ inst = 0))
    /\ UNCHANGED <<objectVars, fileVars, timeVars, undefined>>

(* if (g_instance == nullptr), else return *g_instance *)
Instance(t) ==
    /\ At(t, "instance")
    /\ ProceedWith(t, IF inst = 0 THEN "reset" ELSE "call", "inst", inst)
    /\ UNCHANGED <<objectVars, fileVars, timeVars, historyVars>>

(* Closing a file logger writes its buffer. *)
Close == files' = [files EXCEPT ![loggers["FILE"].path] = @ \o buffer] /\ buffer' = <<>>

(* g_instance.reset(new GlobalLogger()): default settings and a            *)
(* StdoutLogger; the old object and its loggers are destroyed.             *)
Reset(t) ==
    /\ At(t, "reset")
    /\ ProceedWith(t, "call", "inst", inst + 1)
    /\ inst' = inst + 1
    /\ settings' = Defaults
    /\ loggers' = [NoLoggers EXCEPT !["STDOUT"] = [Null EXCEPT !.id = NewId]]
    /\ Close
    /\ UNCHANGED <<written, timeVars, historyVars>>

-----------------------------------------------------------------------------
(* Setters.                                                                *)

(* setLogLevel, setLogFile, setFilePath, setLogChoice: nothing to do if    *)
(* the value is the same, else the member is assigned.                     *)
Set(t) ==
    LET k == call[t].kind
        v == call[t].value
    IN  /\ At(t, "call") /\ IsSetter(call[t])
        /\ IF settings[k] = v THEN Done(t) ELSE Proceed(t, "flush")
        /\ settings' = [settings EXCEPT ![k] = v]
        /\ UndefinedIf(call[t].inst # inst)
        /\ UNCHANGED <<inst, loggers, fileVars, timeVars>>

(* The logger that flush() makes. *)
Fresh == [id |-> NewId, level |-> settings.level, path |-> settings.path]

(* Mutants of Created: a logger that exists is kept; the file is opened    *)
(* without ios::app.                                                       *)
CreatedOnce(c) ==
    /\ loggers' = [loggers EXCEPT ![c] = IF @.id # 0 THEN @ ELSE Fresh]
    /\ UNCHANGED <<buffer, files>>
CreatedTruncating(c) ==
    /\ loggers' = [loggers EXCEPT ![c] = Fresh]
    /\ files' = IF c = "FILE" THEN [files EXCEPT ![settings.path] = <<>>] ELSE files
    /\ buffer' = IF c = "FILE" THEN <<>> ELSE buffer

(* createLogger with the settings, assigned over the old logger, which is  *)
(* destroyed: a new file is open, for appending, before the old one closes. *)
Created(c) ==
    /\ loggers' = [loggers EXCEPT ![c] = Fresh]
    /\ IF c = "FILE" THEN Close ELSE UNCHANGED <<buffer, files>>

(* flush() *)
Flush(t) ==
    /\ At(t, "flush") /\ Done(t)
    /\ IF settings.choice = "NONE" THEN UNCHANGED <<loggers, buffer, files>>
                                   ELSE Created(settings.choice)
    /\ UndefinedIf(call[t].inst # inst)
    /\ UNCHANGED <<inst, settings, written, timeVars>>

-----------------------------------------------------------------------------
(* debug, release, info, warn, error, fatal, and Logger::log.              *)

Selected == loggers[settings.choice]

(* if (g_choice == ...) g_logger->log(...) *)
Choose(t) ==
    /\ At(t, "call") /\ ~IsSetter(call[t])
    /\ IF settings.choice = "NONE" THEN Done(t)
                                   ELSE ProceedWith(t, "level", "logger", Selected.id)
    /\ UndefinedIf(call[t].inst # inst)
    /\ UNCHANGED <<objectVars, fileVars, timeVars>>

(* The logger that the call uses, if it is alive. *)
Mine(t) == {c \in DOMAIN loggers : loggers[c].id = call[t].logger /\ loggers[c].id # 0}

(* if (level < min_level_) return; and system_clock::now() *)
Level(t) ==
    /\ At(t, "level")
    /\ IF \E c \in Mine(t) : call[t].value < loggers[c].level
       THEN Done(t)
       ELSE ProceedWith(t, "localtime", "time", clock)
    /\ UndefinedIf(Mine(t) = {})
    /\ UNCHANGED <<objectVars, fileVars, timeVars>>

(* std::localtime fills its static object ... *)
Localtime(t) ==
    /\ At(t, "localtime") /\ Proceed(t, "copy")
    /\ tm' = call[t].time
    /\ UNCHANGED <<objectVars, fileVars, clock, historyVars>>

(* ... which is then copied to now_tm. *)
Copy(t) ==
    /\ At(t, "copy") /\ ProceedWith(t, "output", "time", tm)
    /\ UNCHANGED <<objectVars, fileVars, timeVars, historyVars>>

(* format throws, and log with it. *)
FormatThrows(t) ==
    /\ At(t, "output") /\ Done(t)
    /\ UNCHANGED <<objectVars, fileVars, timeVars, historyVars>>

(* file_ << log_message: the stream may write itself out. *)
ToFile(p, n) ==
    /\ written' = [written EXCEPT ![p] = Append(@, n)]
    /\ \/ buffer' = Append(buffer, n) /\ UNCHANGED files
       \/ files' = [files EXCEPT ![p] = @ \o Append(buffer, n)] /\ buffer' = <<>>

(* output(), under g_log_mutex *)
Output(t) ==
    /\ At(t, "output") /\ Done(t)
    /\ IF Mine(t) = {"FILE"} THEN ToFile(loggers["FILE"].path, call[t].n)
                             ELSE UNCHANGED fileVars
    /\ UndefinedIf(Mine(t) = {})
    /\ UNCHANGED <<objectVars, timeVars>>

-----------------------------------------------------------------------------

Tick ==
    /\ clock < MaxTime /\ clock' = clock + 1
    /\ UNCHANGED <<objectVars, fileVars, tm, call, historyVars>>

(* The end of the program destroys g_instance. *)
Exit ==
    /\ \A t \in Callers : At(t, "idle")
    /\ inst # 0
    /\ call' = [t \in Callers |-> [Idle EXCEPT !.pc = "exited"]]
    /\ loggers' = NoLoggers /\ Close
    /\ UNCHANGED <<inst, settings, written, timeVars, historyVars>>

LoggerNext ==
    /\ ~undefined
    /\ \/ \E t \in Callers :
            \/ \E o \in Ops : Begin(t, o)
            \/ Instance(t) \/ Reset(t) \/ Set(t) \/ Flush(t)
            \/ Choose(t) \/ Level(t) \/ Localtime(t) \/ Copy(t)
            \/ FormatThrows(t) \/ Output(t)
       \/ Tick \/ Exit

LoggerSpec == LoggerInit /\ [][LoggerNext]_loggerVars

-----------------------------------------------------------------------------
(* Properties.                                                             *)

(* If the first use and the setters overlap with no other call: between a  *)
(* setter and the next one the selected logger has the level and the path  *)
(* of the settings, those included that were set while another logger, or  *)
(* none, was selected.                                                     *)
SelectedIsCurrent ==
    (~overlapped /\ settings.choice # "NONE" /\ inst # 0
       /\ \A t \in Callers : ~At(t, "flush") /\ ~At(t, "exited")) =>
        Selected.level = settings.level /\ Selected.path = settings.path

(* Then, too, no call meets a null or dead object, however log calls       *)
(* overlap with each other, and every file has the records given to it in  *)
(* the order of output(), those in the stream last: replacing loggers and  *)
(* the end of the program lose and reorder nothing.                        *)
NothingLost ==
    ~overlapped =>
        /\ ~undefined
        /\ \A p \in Paths :
             written[p] = IF loggers["FILE"].id # 0 /\ loggers["FILE"].path = p
                          THEN files[p] \o buffer ELSE files[p]

(* "通过全局的日志锁保证了打印日志的线程安全性" (README.md): a record has  *)
(* a time during its call.                                                 *)
TimeOfCall == \A t \in Callers : At(t, "output") => call[t].from <= call[t].time

=============================================================================
