-------------------------------- MODULE Logger --------------------------------
(***************************************************************************)
(* s4logger of common/s4logger.h and .cpp: one object, configured again    *)
(* and again by init(cfg), that writes messages to a console and to up to  *)
(* four files.  The files belong to loggers of spdlog, which registers     *)
(* them by name; s4logger keeps the same loggers by name in _file_loggers, *)
(* and points to those in use with _file_all, _file_all_pure, _file_err    *)
(* and _file_err_pure.                                                     *)
(*                                                                         *)
(* One thread makes, configures and uses the object, as the test program   *)
(* does: the pointers are not protected.  Levels are left out: a message   *)
(* is one that the configured level lets through.                          *)
(***************************************************************************)
EXTENDS Naturals

CONSTANTS
  Folders,     \* values of save_path
  Preambles,   \* values of file_preamble
  Enabled,     \* sets of files a configuration enables
  MaxBuffered, \* bound: messages waiting in the buffer of a file
  None

Kinds == {"all", "all_pure", "err", "err_pure"}
KindsOf(level) == IF level \in {"err", "fatal"} THEN Kinds ELSE {"all", "all_pure"}
Saved == {"warn", "err", "fatal"}    \* levels whose macro, or function, calls flush

(* A name is file_preamble + _time_base + kind; _time_base never changes. *)
Names == Preambles \X Kinds
ASSUME LoggerAssumption ==
  MaxBuffered \in Nat \ {0} /\ None \notin Folders /\ {"all_pure", "err_pure"} \in Enabled /\ Enabled \subseteq SUBSET Kinds
Configs == [enable : Enabled, console : BOOLEAN, save_path : Folders, file_preamble : Preambles]

VARIABLES
  _param,      \* the configuration in force
  registry,    \* registry[n]: the folder of the file of spdlog's logger n, or None
  _file_loggers, \* the names s4logger has loggers for
  sinks,       \* the names of the loggers that _file_all ... point to
  _console,    \* there is a console
  buffered,    \* buffered[n]: messages for n's file not yet handed to the system
  quiet,       \* a minute has not passed since a file failed
  state        \* "none", "half" made, "running", "terminated", "refused" or "exited"

logVars == <<_param, registry, _file_loggers, sinks, _console, buffered, quiet, state>>

Running == state \in {"half", "running"}
Wanted(p) == {p.file_preamble} \X p.enable
Unwanted(p) == {p.file_preamble} \X (Kinds \ p.enable)

LogInit ==
  /\ _param \in {p \in Configs : p.console /\ p.enable = {"all_pure", "err_pure"}}  \* the defaults
  /\ registry = [n \in Names |-> None]
  /\ _file_loggers = {} /\ sinks = {} /\ _console = FALSE
  /\ buffered = [n \in Names |-> 0]
  /\ quiet = FALSE /\ state = "none"

-----------------------------------------------------------------------------
(* flush() reaches the files in use, and no others. *)
FlushedSome(b) == [n \in Names |-> IF n \in sinks /\ n[2] \in {"all", "err"} THEN 0 ELSE b[n]]
                                     \* mutant: the pure files are forgotten
Flushed(b) == [n \in Names |-> IF n \in sinks THEN 0 ELSE b[n]]

(* init_files_all and init_files_err: what is not wanted is dropped from   *)
(* the registry and from the map, what is wanted and missing is created.   *)
DroppedAll(p) == _file_loggers \ Wanted(p)   \* mutant: those of other preambles leave the map too
Dropped(p) == Unwanted(p) \cap _file_loggers

NoneMoved(p) == {}                   \* mutant: an open file is used wherever it is
Moved(p) == {n \in Wanted(p) \cap _file_loggers : registry[n] # p.save_path}

InitFiles(p) ==
  /\ registry' = [n \in Names |-> IF n \in Unwanted(p) \cap _file_loggers THEN None
                                  ELSE IF n \in Wanted(p) \ _file_loggers THEN p.save_path
                                  ELSE registry[n]]
  /\ _file_loggers' = (_file_loggers \ Dropped(p)) \cup Wanted(p)
  /\ sinks' = Wanted(p)
  /\ buffered' = [n \in Names |-> IF n \in Dropped(p) THEN 0 ELSE Flushed(buffered)[n]]

(* pInstance: the first use makes the object and calls init(). *)
MakeInstance ==
  /\ state = "none"
  /\ state' = "running"
  /\ _console' = TRUE
  /\ InitFiles(_param)
  /\ UNCHANGED <<_param, quiet>>

(* The folder cannot be made, or one of the files not opened: the          *)
(* exception reaches the first message, and the object stays with the      *)
(* files it has got (all_pure comes first).                                *)
MakeInstanceFails(got) ==
  /\ state = "none"
  /\ state' = "half"
  /\ _console' = TRUE
  /\ registry' = [n \in Names |-> IF n \in got THEN _param.save_path ELSE None]
  /\ _file_loggers' = got /\ sinks' = got
  /\ UNCHANGED <<_param, buffered, quiet>>

(* init(cfg) *)
Configure(p) ==
  /\ Running
  /\ Moved(p) = {}
  /\ state' = "running"
  /\ _param' = p
  /\ _console' = p.console
  /\ InitFiles(p)
  /\ UNCHANGED quiet

(* init(cfg) is noexcept, so that whatever init() throws ends the program: *)
(* a folder or file that cannot be made, or, when a file is to move to     *)
(* another folder, spdlog::create, because the logger is taken out of the  *)
(* map but its name stays registered.                                      *)
End(how) ==
  /\ state' = how
  /\ UNCHANGED <<_param, registry, _file_loggers, sinks, _console, buffered, quiet>>

ConfigureFails ==
  /\ Running
  /\ End("terminated")

ConfigureRefused(p) ==
  /\ Running
  /\ Moved(p) # {}
  /\ End("refused")

-----------------------------------------------------------------------------
(* trace, info, warn, err, fatal: the files of the level, one after the    *)
(* other.  A file that fails calls err_handler, which throws once a minute *)
(* and otherwise swallows the failure.  written: the files that took it.   *)
Targets(level) == {n \in sinks : n[2] \in KindsOf(level)}
Buffer(written) ==
  [n \in Names |-> IF n \in written /\ buffered[n] < MaxBuffered THEN buffered[n] + 1 ELSE buffered[n]]

Log(level, written) ==
  /\ Running
  /\ written = Targets(level) \/ quiet
  /\ buffered' = IF level \in Saved THEN Flushed(Buffer(written)) ELSE Buffer(written)
  /\ state' = IF level = "fatal" THEN "exited" ELSE state
  /\ UNCHANGED <<_param, registry, _file_loggers, sinks, _console, quiet>>

(* The exception leaves the call: what follows it, the flush included, is  *)
(* not done.                                                               *)
LogThrows(level, written) ==
  /\ Running /\ ~quiet
  /\ written # Targets(level)
  /\ buffered' = Buffer(written)
  /\ quiet' = TRUE
  /\ UNCHANGED <<_param, registry, _file_loggers, sinks, _console, state>>

MinutePasses ==
  /\ quiet
  /\ quiet' = FALSE
  /\ UNCHANGED <<_param, registry, _file_loggers, sinks, _console, buffered, state>>

Levels == {"info", "warn", "err", "fatal"}
LogNext ==
  \/ MakeInstance \/ ConfigureFails \/ MinutePasses
  \/ \E got \in {{}, {<<_param.file_preamble, "all_pure">>}} : MakeInstanceFails(got)
  \/ \E p \in Configs : Configure(p) \/ ConfigureRefused(p)
  \/ \E level \in Levels : \E written \in SUBSET Targets(level) : Log(level, written) \/ LogThrows(level, written)

LogSpec == LogInit /\ [][LogNext]_logVars

-----------------------------------------------------------------------------
LogTypeOK ==
  /\ _param \in Configs
  /\ registry \in [Names -> Folders \cup {None}]
  /\ _file_loggers \subseteq Names /\ sinks \subseteq Names
  /\ _console \in BOOLEAN /\ quiet \in BOOLEAN
  /\ buffered \in [Names -> 0..MaxBuffered]
  /\ state \in {"none", "half", "running", "terminated", "refused", "exited"}

(* The map and the registry name the same loggers, so that the file of a   *)
(* known logger can be asked for (line 102 dereferences what the registry  *)
(* returns) and the name of an unknown one is free (line 109).             *)
NamesAgree == Running => _file_loggers = {n \in Names : registry[n] # None}

(* However it got there through other folders and preambles, a logger that *)
(* runs writes exactly the enabled files, in the configured folder.        *)
FilesAsConfigured ==
  state = "running" =>
    /\ sinks = Wanted(_param)
    /\ \A n \in sinks : registry[n] = _param.save_path
    /\ _console = _param.console

(* When a warning, an error or a fatal message returns, everything logged  *)
(* before it is with the system, in files no longer written to as well: a  *)
(* crash then loses nothing.                                               *)
Returned(level) == \E written \in SUBSET Targets(level) : Log(level, written)
SavedMessagesSaveAll ==
  [][(\E level \in Saved : Returned(level)) => \A n \in Names : buffered'[n] = 0]_logVars

(* "redirect file path" (line 102): a running logger can be configured to  *)
(* write to another folder.                                                *)
RedirectWorks == state # "refused"
===============================================================================
