-------------------------------- MODULE Logging --------------------------------
(***************************************************************************)
(* The logger of sealedx/security/redaction.py and the global options of   *)
(* cli.py, over the life of one process after another: the level of the    *)
(* `sealedx` logger is taken from the environment when the first module    *)
(* that calls get_logger is imported (cli.py itself), the options are      *)
(* parsed later and only change os.environ.  A process runs one command.   *)
(***************************************************************************)
EXTENDS Integers

CONSTANTS
  EnvLevels,      \* values SEALEDX_LOG_LEVEL may have in the user's shell, "" for none
  Options         \* sets of options a command line may have

VARIABLES
  shell,          \* what the user's shell exports: [level, unsafe]
  env,            \* os.environ of the process, as far as logging reads it
  level,          \* the logger's level, "" until _configure_root has run
  options,        \* the options of the command line, once _global_opts has run
  stderr          \* what the process has written to stderr

logVars == <<shell, env, level, options, stderr>>

Rank == [DEBUG |-> 10, INFO |-> 20, WARNING |-> 30, ERROR |-> 40, CRITICAL |-> 50]

\* Before the options are parsed.
Unparsed == {"unparsed"}

ASSUME OptionsAreParsed == Unparsed \notin Options

LogInit ==
  /\ shell \in [level : EnvLevels, unsafe : BOOLEAN]
  /\ env = shell
  /\ level = ""
  /\ options = Unparsed
  /\ stderr = {}

\* A record of severity r reaches the handler when the logger's level lets it.
Emit(r, what) ==
  /\ stderr' = IF Rank[r] >= Rank[level] THEN stderr \cup {what} ELSE stderr
  /\ UNCHANGED <<shell, env, level, options>>
-----------------------------------------------------------------------------
(* Mutated forms, used by the mutation runs only. *)

GlobalOptsSilent(opts) ==           \* prints no warning
  /\ level # "" /\ options = Unparsed
  /\ options' = opts
  /\ env' = [env EXCEPT !.unsafe = @ \/ "unsafe_debug_prompt" \in opts]
  /\ UNCHANGED <<shell, level, stderr>>
-----------------------------------------------------------------------------
\* _configure_root, at import.  A name logging does not know means WARNING.
Configure ==
  /\ level = ""
  /\ level' = IF env.level \in DOMAIN Rank THEN env.level ELSE "WARNING"
  /\ UNCHANGED <<shell, env, options, stderr>>

\* _global_opts: the later assignment wins.
GlobalOpts(opts) ==
  /\ level # "" /\ options = Unparsed
  /\ options' = opts
  /\ env' = [level |-> CASE "unsafe_debug_prompt" \in opts -> "DEBUG"
                         [] "quiet" \in opts /\ "unsafe_debug_prompt" \notin opts -> "ERROR"
                         [] "verbose" \in opts /\ opts \cap {"quiet", "unsafe_debug_prompt"} = {}
                              -> "INFO"
                         [] OTHER -> env.level,
             unsafe |-> env.unsafe \/ "unsafe_debug_prompt" \in opts]
  /\ stderr' = IF "unsafe_debug_prompt" \in opts THEN stderr \cup {"banner"} ELSE stderr
  /\ UNCHANGED <<shell, level>>

\* The openai adapter logs its request, prompt included, in the unsafe mode.
LogRequest == IF env.unsafe THEN Emit("DEBUG", "request") ELSE UNCHANGED logVars

\* execute logs a warning for every outcome but success.
Warn == Emit("WARNING", "outcome")

\* The process ends; the next one starts from the user's shell.
Exit ==
  /\ env' = shell /\ level' = "" /\ options' = Unparsed /\ stderr' = {}
  /\ UNCHANGED shell

LogNext ==
  \/ Configure
  \/ \E opts \in Options : GlobalOpts(opts)
  \/ options # Unparsed /\ (LogRequest \/ Warn \/ Exit)

LogSpec == LogInit /\ [][LogNext]_logVars
-----------------------------------------------------------------------------
\* docs/threat-model.md:48 (T4) and docs/prd.md:93, 217: --unsafe-debug-prompt is
\* the only thing that may render the prompt, and it prints a warning.
PromptNeedsFlag ==
  "request" \in stderr => "unsafe_debug_prompt" \in options /\ "banner" \in stderr

\* What the code does keep of that: in a shell that does not export the unsafe mode
\* itself, the prompt reaches stderr only of a process that was given the flag and
\* has printed the warning -- and only when the shell exports the DEBUG level, which
\* the flag comes too late to set.  Nothing is left over from one process to the next.
PromptGated ==
  ~shell.unsafe /\ "request" \in stderr =>
    /\ shell.level = "DEBUG"
    /\ "unsafe_debug_prompt" \in options /\ "banner" \in stderr

\* cli.py:45 and docs/prd.md:217: --quiet suppresses what is not an error.
QuietSuppresses ==
  "quiet" \in options /\ "unsafe_debug_prompt" \notin options => "outcome" \notin stderr
=============================================================================
