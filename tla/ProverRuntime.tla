---------------------------- MODULE ProverRuntime ----------------------------
(***************************************************************************)
(* Concurrent calls into crypto-prover: prove_age_snark, its wrapper       *)
(* prove_age_snark_auto, load_proving_key and dump_debug_log, each on a    *)
(* thread of its own, over the crate's process-wide state: the mutexes     *)
(* DEBUG_LOGGER and RUNTIME_CONFIG, the Once called INIT and the panic     *)
(* hook.                                                                   *)
(*                                                                         *)
(* Granularity.  RUNTIME_CONFIG is only ever held for one copy or one      *)
(* assignment, and nothing under it can panic, so an access to it is one   *)
(* step.  A critical section of DEBUG_LOGGER is one step as well, except   *)
(* that a panic inside it leaves the mutex held: `logger' names the call   *)
(* that holds it between steps.  A log line is the pair of its call and    *)
(* its place in the code; the lines of one phase are one line.             *)
(***************************************************************************)
EXTENDS Naturals

CONSTANTS
  Calls,        \* the calls into the library, one thread each
  NoCall,       \* the holder of a free mutex
  Level,        \* RuntimeConfig::new's debug_level: 0 None, 1 Basic, 2 Verbose, 3 Extreme
  StderrFails,  \* whether a write to stderr may fail (eprintln! then panics)
  Unwinds       \* panic = "unwind" (dev, test) or "abort" (the release profiles)

ASSUME CallsAssumption == NoCall \notin Calls
ASSUME LevelAssumption == Level \in 0..3
ASSUME BuildAssumption == StderrFails \in BOOLEAN /\ Unwinds \in BOOLEAN

VARIABLES
  pc,        \* where each call is in the code
  doing,     \* running, or which stage of a panic its thread is in
  logger,    \* the call that holds DEBUG_LOGGER between two steps
  poisoned,  \* DEBUG_LOGGER is poisoned
  logs,      \* DebugLogger.logs
  config,    \* RUNTIME_CONFIG
  once,      \* INIT
  hooks,     \* how many times this crate wrapped the panic hook
  input,     \* what the call's public inputs and witness are like
  snap,      \* the call's local copy of RUNTIME_CONFIG
  proof,     \* the proof the call holds
  wire,      \* what the serialised proof reads back as
  result,    \* the value the call returns
  dump,      \* DebugInfo.full_debug_log of the call
  since,     \* history: lines written since the call's start_session
  aborted    \* the process is gone

logVars   == <<logger, poisoned, logs, since>>
initVars  == <<config, once, hooks>>
proofVars == <<snap, proof, wire, result, dump>>
vars == <<pc, doing, logVars, initVars, proofVars, input, aborted>>

------------------------------------------------------------------------------
(* Places in the code. *)

Basic   == 1
Verbose == 2

EntryPoints == {"auto_log", "session", "load_log", "dump_debug_log"}
LogPoints == {"auto_log", "load_log", "loaded_log", "started_log", "init_log",
              "inputs_log", "starting_log", "error_log", "retry_log", "recover_log",
              "proved_log", "verified_log", "complete_log"}
InitPoints == {"set_config", "set_hook", "init_log", "init_done"}
Attempts == {"prove1", "prove2", "prove3"}
Points == EntryPoints \cup LogPoints \cup InitPoints \cup Attempts \cup
          {"read_params", "once", "read_config", "validate", "synthesise", "verify", "reread",
           "collect", "returned"}

\* The levels of the debug_log! lines of a phase, and the statement that follows it.
\* log_detailed_inputs warns of some inputs at the level Basic.
LineLevels(p) == IF p = "inputs_log" THEN {Basic, Verbose} ELSE {Basic}

After(p) ==
  CASE p = "auto_log"     -> "session"
    [] p = "load_log"     -> "read_params"
    [] p = "loaded_log"   -> "returned"
    [] p = "started_log"  -> "once"
    [] p = "init_log"     -> "init_done"
    [] p = "inputs_log"   -> "validate"
    [] p = "starting_log" -> "prove1"
    [] p = "error_log"    -> "returned"
    [] p = "retry_log"    -> "prove2"
    [] p = "recover_log"  -> "prove3"
    [] p = "proved_log"   -> "verify"
    [] p = "verified_log" -> "reread"
    [] p = "complete_log" -> "collect"

Lines   == Calls \X LogPoints
Config  == [detected : BOOLEAN, level : 0..3]
Results == {"none", "ok", "loaded", "InvalidFormat", "InvalidInput", "ProverFailed"}

\* RuntimeConfig::new: one thread, not mobile, the level of the build.
DefaultConfig == [detected |-> FALSE, level |-> Level]

Running(c, p) == ~aborted /\ doing[c] = "running" /\ pc[c] = p
Go(c, p) == pc' = [pc EXCEPT ![c] = p]
Fail(c, e) == Go(c, "error_log") /\ result' = [result EXCEPT ![c] = e]
Panic(c) == doing' = [doing EXCEPT ![c] = "panicking"]
Returned(c) == pc[c] = "returned" \/ doing[c] = "escaped"

\* What a call can be given: a proving call any input, load_proving_key bytes
\* that parse or do not.
Inputs(entry) ==
  CASE entry = "dump_debug_log" -> {"good"}
    [] entry = "load_log"       -> {"good", "invalid"}
    [] OTHER                    -> {"good", "invalid", "unsatisfying"}

Init ==
  /\ pc \in [Calls -> EntryPoints]
  /\ doing = [c \in Calls |-> "running"]
  /\ logger = NoCall /\ poisoned = FALSE /\ logs = {}
  /\ since = [c \in Calls |-> {}]
  /\ config = DefaultConfig /\ once = "new" /\ hooks = 0
  /\ input \in [Calls -> {"good", "invalid", "unsatisfying"}]
  /\ \A c \in Calls : input[c] \in Inputs(pc[c])
  /\ snap = [c \in Calls |-> DefaultConfig]
  /\ proof = [c \in Calls |-> "none"]
  /\ wire = [c \in Calls |-> "none"]
  /\ result = [c \in Calls |-> "none"]
  /\ dump = [c \in Calls |-> {}]
  /\ aborted = FALSE

------------------------------------------------------------------------------
(* The debug logger.  Locking blocks while another call holds the mutex; a  *)
(* poisoned mutex still has to be free before lock() reports the poison.    *)

\* Broken: a session keeps the lines of the earlier ones.
StartSessionKeeping(c) ==
  /\ Running(c, "session")
  /\ logger = NoCall
  /\ Go(c, "started_log")
  /\ IF poisoned THEN UNCHANGED since ELSE since' = [since EXCEPT ![c] = {}]
  /\ UNCHANGED <<doing, logger, poisoned, logs, initVars, proofVars, input, aborted>>

\* "Start the scoped debug session": forget the lines so far.
StartSession(c) ==
  /\ Running(c, "session")
  /\ logger = NoCall
  /\ Go(c, "started_log")
  /\ IF poisoned
     THEN UNCHANGED <<logs, since>>
     ELSE logs' = {} /\ since' = [since EXCEPT ![c] = {}]
  /\ UNCHANGED <<doing, logger, poisoned, initVars, proofVars, input, aborted>>

\* Broken: the debug level is not looked at.
AudibleAtAnyLevel(p) == ~poisoned

\* A line goes out when the mutex is healthy and the level lets it through.
Audible(p) == ~poisoned /\ \E l \in LineLevels(p) : l <= config.level
Silent(p)  == poisoned \/ \E l \in LineLevels(p) : l > config.level

LogLine(c) == \E p \in LogPoints :
  /\ Running(c, p)
  /\ logger = NoCall
  /\ Audible(p)
  /\ logs' = logs \cup {<<c, p>>}
  /\ since' = [d \in Calls |-> since[d] \cup {<<c, p>>}]
  /\ Go(c, After(p))
  /\ UNCHANGED <<doing, logger, poisoned, initVars, proofVars, input, aborted>>

SkipLine(c) == \E p \in LogPoints :
  /\ Running(c, p)
  /\ logger = NoCall
  /\ Silent(p)
  /\ Go(c, After(p))
  /\ UNCHANGED <<doing, logVars, initVars, proofVars, input, aborted>>

\* eprintln! fails inside DebugLogger::log, with the mutex held.
LineFails(c) == \E p \in LogPoints :
  /\ StderrFails
  /\ Running(c, p)
  /\ logger = NoCall
  /\ Audible(p)
  /\ Panic(c)
  /\ logger' = c
  /\ UNCHANGED <<pc, poisoned, logs, since, initVars, proofVars, input, aborted>>

\* load_proving_key parses the parameters; the two errors are one.
ReadParams(c) ==
  /\ Running(c, "read_params")
  /\ \/ input[c] = "invalid" /\ Fail(c, "InvalidFormat")
     \/ input[c] # "invalid" /\ Go(c, "loaded_log")
        /\ result' = [result EXCEPT ![c] = "loaded"]
  /\ UNCHANGED <<doing, logVars, initVars, snap, proof, wire, dump, input, aborted>>

\* The public dump_debug_log prints every line with the mutex held.
DumpDebugLog(c) ==
  /\ Running(c, "dump_debug_log")
  /\ logger = NoCall
  /\ \/ /\ Go(c, "returned")
        /\ UNCHANGED <<doing, logger>>
     \/ /\ StderrFails /\ ~poisoned /\ logs # {}
        /\ Panic(c)
        /\ logger' = c
        /\ UNCHANGED pc
  /\ UNCHANGED <<poisoned, logs, since, initVars, proofVars, input, aborted>>

------------------------------------------------------------------------------
(* init_prover_runtime: INIT.call_once runs the closure once; the others    *)
(* wait for it.  The only statement of the closure that can panic is its    *)
(* log line, after the hook is in place: by then the hook never lets the    *)
(* panic unwind (see RunHook), so INIT is never poisoned.                   *)

\* Broken: a flag instead of a Once, the others do not wait for the closure.
CallOnceWithoutWaiting(c) ==
  /\ Running(c, "once")
  /\ \/ once = "new" /\ once' = "running" /\ Go(c, "set_config")
     \/ once # "new" /\ Go(c, "read_config") /\ UNCHANGED once
  /\ UNCHANGED <<doing, logVars, config, hooks, proofVars, input, aborted>>

\* Broken: every call runs the closure.
CallOnceEveryTime(c) ==
  /\ Running(c, "once")
  /\ once # "running" /\ once' = "running" /\ Go(c, "set_config")
  /\ UNCHANGED <<doing, logVars, config, hooks, proofVars, input, aborted>>

CallOnce(c) ==
  /\ Running(c, "once")
  /\ \/ once = "new"  /\ once' = "running" /\ Go(c, "set_config")
     \/ once = "done" /\ Go(c, "read_config") /\ UNCHANGED once
  /\ UNCHANGED <<doing, logVars, config, hooks, proofVars, input, aborted>>

\* Broken: the detected configuration is a new one, with the level at its default.
SetConfigDroppingLevel(c) ==
  /\ Running(c, "set_config")
  /\ config' = [detected |-> TRUE, level |-> 0]
  /\ Go(c, "set_hook")
  /\ UNCHANGED <<doing, logVars, once, hooks, proofVars, input, aborted>>

SetConfig(c) ==
  /\ Running(c, "set_config")
  /\ config' = [detected |-> TRUE, level |-> config.level]
  /\ Go(c, "set_hook")
  /\ UNCHANGED <<doing, logVars, once, hooks, proofVars, input, aborted>>

SetHook(c) ==
  /\ Running(c, "set_hook")
  /\ hooks' = hooks + 1
  /\ Go(c, "init_log")
  /\ UNCHANGED <<doing, logVars, config, once, proofVars, input, aborted>>

FinishInit(c) ==
  /\ Running(c, "init_done")
  /\ once' = "done"
  /\ Go(c, "read_config")
  /\ UNCHANGED <<doing, logVars, config, hooks, proofVars, input, aborted>>

------------------------------------------------------------------------------
(* prove_age_snark after the initialisation. *)

ReadConfig(c) ==
  /\ Running(c, "read_config")
  /\ snap' = [snap EXCEPT ![c] = config]
  /\ Go(c, "inputs_log")
  /\ UNCHANGED <<doing, logVars, initVars, proof, wire, result, dump, input, aborted>>

\* validate_inputs_detailed and the early return on its verdict.
Validate(c) ==
  /\ Running(c, "validate")
  /\ \/ input[c] = "invalid" /\ Fail(c, "InvalidInput")
     \/ input[c] # "invalid" /\ Go(c, "synthesise") /\ UNCHANGED result
  /\ UNCHANGED <<doing, logVars, initVars, snap, proof, wire, dump, input, aborted>>

\* test_circuit_synthesis: the constraints are evaluated before proving.
Synthesise(c) ==
  /\ Running(c, "synthesise")
  /\ \/ input[c] = "unsatisfying" /\ Fail(c, "ProverFailed")
     \/ input[c] # "unsatisfying" /\ Go(c, "starting_log") /\ UNCHANGED result
  /\ UNCHANGED <<doing, logVars, initVars, snap, proof, wire, dump, input, aborted>>

\* create_random_proof makes a proof: a bad one when the witness does not
\* satisfy the circuit or the parameters are another circuit's.
Provable(c) == IF input[c] = "good" THEN {"valid", "bad"} ELSE {"bad"}

ProofMade(c) == \E p \in Attempts, q \in Provable(c) :
  /\ Running(c, p)
  /\ proof' = [proof EXCEPT ![c] = q]
  /\ Go(c, "proved_log")
  /\ UNCHANGED <<doing, logVars, initVars, snap, wire, result, dump, input, aborted>>

\* Broken: every error is retried.
ProofErrRetriedAlways(c) == \E p \in Attempts :
  /\ Running(c, p)
  /\ Go(c, "retry_log")
  /\ UNCHANGED <<doing, logVars, initVars, proofVars, input, aborted>>

\* An error of the first attempt is retried, of any other it is final.
ProofErr(c) == \E p \in Attempts :
  /\ Running(c, p)
  /\ \/ p = "prove1" /\ Go(c, "retry_log") /\ UNCHANGED result
     \/ p # "prove1" /\ Fail(c, "ProverFailed")
  /\ UNCHANGED <<doing, logVars, initVars, snap, proof, wire, dump, input, aborted>>

ProofPanics(c) == \E p \in Attempts :
  /\ Running(c, p)
  /\ Panic(c)
  /\ UNCHANGED <<pc, logVars, initVars, proofVars, input, aborted>>

\* The proof must verify before it is serialised.
Verify(c) ==
  /\ Running(c, "verify")
  /\ \/ proof[c] = "valid" /\ Go(c, "verified_log") /\ UNCHANGED result
     \/ proof[c] # "valid" /\ Fail(c, "ProverFailed")
  /\ UNCHANGED <<doing, logVars, initVars, snap, proof, wire, dump, input, aborted>>

\* Broken: the bytes are not read back.
RereadSkipped(c) == \E w \in {proof[c], "unreadable"} :
  /\ Running(c, "reread")
  /\ wire' = [wire EXCEPT ![c] = w]
  /\ Go(c, "complete_log")
  /\ UNCHANGED <<doing, logVars, initVars, snap, proof, result, dump, input, aborted>>

\* Serialise, read the bytes back, verify again.  Proof::read refuses
\* encodings that Proof::write produces (a point at infinity).
Reread(c) == \E w \in {proof[c], "unreadable"} :
  /\ Running(c, "reread")
  /\ wire' = [wire EXCEPT ![c] = w]
  /\ \/ w = "valid" /\ Go(c, "complete_log") /\ UNCHANGED result
     \/ w # "valid" /\ Fail(c, "ProverFailed")
  /\ UNCHANGED <<doing, logVars, initVars, snap, proof, dump, input, aborted>>

\* Gather DebugInfo unless the level is None; a poisoned mutex gives "".
Collect(c) ==
  /\ Running(c, "collect")
  /\ \/ /\ snap[c].level # 0
        /\ logger = NoCall
        /\ dump' = [dump EXCEPT ![c] = IF poisoned THEN {} ELSE logs]
     \/ /\ snap[c].level = 0
        /\ UNCHANGED dump
  /\ result' = [result EXCEPT ![c] = "ok"]
  /\ Go(c, "returned")
  /\ UNCHANGED <<doing, logVars, initVars, snap, proof, wire, input, aborted>>

------------------------------------------------------------------------------
(* Panics: the hook runs first, then the thread unwinds or the process     *)
(* aborts.                                                                 *)

\* This crate's hook.  A panic inside a hook aborts the process, whatever
\* the profile; relocking the mutex its own thread holds never returns.  A
\* guard taken while panicking does not poison the mutex.
HookFails(c) ==
  /\ ~aborted /\ doing[c] = "panicking" /\ hooks > 0
  /\ StderrFails
  /\ aborted' = TRUE
  /\ UNCHANGED <<pc, doing, logVars, initVars, proofVars, input>>

RunHook(c) ==
  /\ ~aborted /\ doing[c] = "panicking" /\ hooks > 0
  /\ \/ logger = c      /\ doing' = [doing EXCEPT ![c] = "wedged"]
     \/ logger = NoCall /\ doing' = [doing EXCEPT ![c] = "unwinding"]
  /\ UNCHANGED <<pc, logVars, initVars, proofVars, input, aborted>>

PastHook(c) == doing[c] = "unwinding" \/ (doing[c] = "panicking" /\ hooks = 0)

Abort(c) ==
  /\ ~aborted /\ PastHook(c) /\ ~Unwinds
  /\ aborted' = TRUE
  /\ UNCHANGED <<pc, doing, logVars, initVars, proofVars, input>>

\* Broken: only the first attempt is inside catch_unwind.
UnwindThroughLastAttempt(c) ==
  /\ ~aborted /\ PastHook(c) /\ Unwinds
  /\ \/ /\ pc[c] = "prove1"
        /\ Go(c, "recover_log")
        /\ doing' = [doing EXCEPT ![c] = "running"]
        /\ UNCHANGED <<logger, poisoned>>
     \/ /\ pc[c] # "prove1"
        /\ doing' = [doing EXCEPT ![c] = "escaped"]
        /\ poisoned' = (poisoned \/ logger = c)
        /\ logger' = IF logger = c THEN NoCall ELSE logger
        /\ UNCHANGED pc
  /\ UNCHANGED <<logs, since, initVars, proofVars, input, aborted>>

\* Broken: a guard that is dropped while unwinding does not poison the mutex.
UnwindWithoutPoison(c) ==
  /\ ~aborted /\ PastHook(c) /\ Unwinds
  /\ \/ /\ pc[c] \in {"prove1", "prove3"}
        /\ Go(c, IF pc[c] = "prove1" THEN "recover_log" ELSE "error_log")
        /\ doing' = [doing EXCEPT ![c] = "running"]
        /\ UNCHANGED logger
     \/ /\ pc[c] \notin {"prove1", "prove3"}
        /\ doing' = [doing EXCEPT ![c] = "escaped"]
        /\ logger' = IF logger = c THEN NoCall ELSE logger
        /\ UNCHANGED pc
  /\ UNCHANGED <<poisoned, logs, since, initVars, proofVars, input, aborted>>

\* Broken: the guard outlives the panic, the mutex stays held.
UnwindKeepingGuard(c) ==
  /\ ~aborted /\ PastHook(c) /\ Unwinds
  /\ \/ /\ pc[c] \in {"prove1", "prove3"}
        /\ Go(c, IF pc[c] = "prove1" THEN "recover_log" ELSE "error_log")
        /\ doing' = [doing EXCEPT ![c] = "running"]
        /\ UNCHANGED poisoned
     \/ /\ pc[c] \notin {"prove1", "prove3"}
        /\ doing' = [doing EXCEPT ![c] = "escaped"]
        /\ poisoned' = (poisoned \/ logger = c)
        /\ UNCHANGED pc
  /\ UNCHANGED <<logger, logs, since, initVars, proofVars, input, aborted>>

\* catch_unwind surrounds the first and the third attempt.  The second runs
\* unprotected, and so does every log line: their panics leave the call, and
\* a guard that is dropped on the way poisons its mutex.
Unwind(c) ==
  /\ ~aborted /\ PastHook(c) /\ Unwinds
  /\ \/ /\ pc[c] = "prove1"
        /\ Go(c, "recover_log")
        /\ doing' = [doing EXCEPT ![c] = "running"]
        /\ UNCHANGED <<logger, poisoned, result>>
     \/ /\ pc[c] = "prove3"
        /\ Fail(c, "ProverFailed")
        /\ doing' = [doing EXCEPT ![c] = "running"]
        /\ UNCHANGED <<logger, poisoned>>
     \/ /\ pc[c] \notin {"prove1", "prove3"}
        /\ doing' = [doing EXCEPT ![c] = "escaped"]
        /\ poisoned' = (poisoned \/ logger = c)
        /\ logger' = IF logger = c THEN NoCall ELSE logger
        /\ UNCHANGED <<pc, result>>
  /\ UNCHANGED <<logs, since, initVars, snap, proof, wire, dump, input, aborted>>

------------------------------------------------------------------------------

Step(c) ==
  \/ StartSession(c) \/ LogLine(c) \/ SkipLine(c) \/ LineFails(c)
  \/ ReadParams(c) \/ DumpDebugLog(c)
  \/ CallOnce(c) \/ SetConfig(c) \/ SetHook(c) \/ FinishInit(c)
  \/ ReadConfig(c) \/ Validate(c) \/ Synthesise(c)
  \/ ProofMade(c) \/ ProofErr(c) \/ ProofPanics(c)
  \/ Verify(c) \/ Reread(c) \/ Collect(c)
  \/ HookFails(c) \/ RunHook(c) \/ Abort(c) \/ Unwind(c)

\* Every call has returned or the process is gone: nothing is left to do.
Finished ==
  /\ aborted \/ \A c \in Calls : Returned(c)
  /\ UNCHANGED vars

Next == (\E c \in Calls : Step(c)) \/ Finished

Spec == Init /\ [][Next]_vars

\* Threads are scheduled by the operating system: one that can move does.
FairSpec == Spec /\ \A c \in Calls : WF_vars(Step(c))

------------------------------------------------------------------------------
(* Types. *)

\* The types of the crate's statics and of every call's locals.
TypeOK ==
  /\ pc \in [Calls -> Points]
  /\ doing \in [Calls -> {"running", "panicking", "unwinding", "wedged", "escaped"}]
  /\ logger \in Calls \cup {NoCall}
  /\ poisoned \in BOOLEAN
  /\ logs \subseteq Lines
  /\ since \in [Calls -> SUBSET Lines]
  /\ config \in Config
  /\ once \in {"new", "running", "done"}
  /\ hooks \in Nat
  /\ input \in [Calls -> {"good", "invalid", "unsatisfying"}]
  /\ snap \in [Calls -> Config]
  /\ proof \in [Calls -> {"none", "valid", "bad"}]
  /\ wire \in [Calls -> {"none", "valid", "bad", "unreadable"}]
  /\ result \in [Calls -> Results]
  /\ dump \in [Calls -> SUBSET Lines]
  /\ aborted \in BOOLEAN

------------------------------------------------------------------------------
(* The inductive invariant: the properties below, and what they rest on.   *)

\* Places a call can be in before INIT is known to be done.
EarlyPoints == EntryPoints \cup InitPoints \cup
  {"read_params", "loaded_log", "started_log", "once", "error_log", "returned"}

\* Places between Synthesise's verdict and the result.
ProvingPoints == Attempts \cup
  {"starting_log", "retry_log", "recover_log", "proved_log", "verify", "verified_log",
   "reread", "complete_log", "collect"}

\* Between two steps DEBUG_LOGGER is held exactly by the call whose log line or
\* dump panicked; nobody holds it once it is poisoned.
LoggerInv ==
  /\ \A c \in Calls : logger = c <=>
       /\ doing[c] \in {"panicking", "wedged"}
       /\ pc[c] \in LogPoints \cup {"dump_debug_log"}
  /\ logger # NoCall => StderrFails
  /\ poisoned => logger = NoCall
  /\ Level = 0 => logs = {} /\ logger = NoCall /\ ~poisoned

\* A panicking thread holds the logger or is inside a proof attempt.
PanicInv == \A c \in Calls :
  /\ doing[c] = "panicking" => pc[c] \in Attempts \/ logger = c
  /\ doing[c] = "unwinding" => pc[c] \in Attempts
  /\ doing[c] = "wedged" => logger = c
  /\ doing[c] = "escaped" => pc[c] = "prove2" \/ (StderrFails /\ poisoned)

\* One call at a time is inside INIT's closure, and what the closure has done so
\* far; a call past INIT finds the closure completed.
OnceInv ==
  /\ config.level = Level
  /\ hooks <= 1
  /\ once = "new" => ~config.detected /\ hooks = 0
  /\ once = "done" => config.detected /\ hooks = 1
  /\ \A c \in Calls :
       /\ pc[c] \in InitPoints => once = "running"
       /\ pc[c] \notin EarlyPoints => once = "done"
       /\ pc[c] = "set_config" => ~config.detected /\ hooks = 0
       /\ pc[c] = "set_hook" => config.detected /\ hooks = 0
       /\ pc[c] \in {"init_log", "init_done"} => config.detected /\ hooks = 1
  /\ \A c, d \in Calls : pc[c] \in InitPoints /\ pc[d] \in InitPoints => c = d

\* What a call knows at each place of prove_age_snark.
CallInv == \A c \in Calls :
  /\ pc[c] \notin EarlyPoints \cup {"read_config"} =>
       snap[c] = [detected |-> TRUE, level |-> Level]
  /\ pc[c] = "synthesise" => input[c] # "invalid"
  /\ pc[c] \in ProvingPoints => input[c] = "good"
  /\ pc[c] \in {"complete_log", "collect"} => wire[c] = "valid"
  /\ result[c] = "ok" => pc[c] = "returned" /\ wire[c] = "valid" /\ input[c] = "good"

\* The lines in the buffer are younger than every session.
FreshInv == \A c \in Calls :
  /\ logs \subseteq since[c]
  /\ dump[c] \subseteq since[c]
  /\ pc[c] # "returned" => dump[c] = {}
  /\ Level = 0 => dump[c] = {}

\* The whole inductive invariant of the runtime.
IInv == TypeOK /\ LoggerInv /\ PanicInv /\ OnceInv /\ CallInv /\ FreshInv

------------------------------------------------------------------------------
(* Safety, liveness and what the documentation says. *)

\* Whatever sequence of errors, panics and retries led to it, prove_age_snark
\* returns Ok only with bytes that read back as a proof that verifies.
ReturnedProofVerifies == \A c \in Calls :
  result[c] = "ok" => wire[c] = "valid" /\ input[c] = "good"

\* A call proves with the detected configuration and the debug level of the
\* build, never with RuntimeConfig::new's placeholder: not even while another
\* thread is still inside INIT.call_once.
ProvesWithDetectedConfig == \A c \in Calls :
  pc[c] \in Attempts => snap[c] = [detected |-> TRUE, level |-> Level]

\* However the calls race, the panic hook is wrapped at most once, and it is
\* wrapped before any call gets to the code whose panics it reports.
HookInstalledOnce ==
  /\ hooks <= 1
  /\ (\E c \in Calls : pc[c] \in Attempts) => hooks = 1

\* full_debug_log never carries a line that was written before the session of
\* the call that returns it: a long-lived process does not leak the log of an
\* earlier, finished call into a later result.
DumpIsFresh == \A c \in Calls : dump[c] \subseteq since[c]

\* A panic leaves prove_age_snark only from the unprotected second attempt,
\* or from a log line that could not be written.
EscapesOnlyUnprotected == \A c \in Calls :
  doing[c] = "escaped" => pc[c] = "prove2" \/ (StderrFails /\ poisoned)

\* A poisoned logger and a thread stuck in the hook exclude each other: once
\* the mutex is poisoned no call holds it again, so no call can block on it.
PoisonExcludesWedge ==
  poisoned => logger = NoCall /\ \A c \in Calls : doing[c] # "wedged"

\* A build with level None buffers nothing, returns no debug information and
\* neither poisons nor wedges the logger, even when stderr is broken.
SilentLevelIsSafe ==
  Level = 0 => /\ logs = {} /\ \A c \in Calls : dump[c] = {}
               /\ logger = NoCall /\ ~poisoned
               /\ \A c \in Calls : doing[c] # "wedged"

\* The configuration changes once, from the placeholder to the detected one,
\* and that change keeps the debug level.
ConfigWrittenOnce ==
  [][config' # config => /\ ~config.detected /\ config'.detected
                         /\ config'.level = config.level
                         /\ \A c \in Calls : pc[c] \notin Attempts]_vars

\* Every call comes back: no lock is kept, nobody waits for ever on INIT.
EveryCallReturns == \A c \in Calls : <>(aborted \/ Returned(c))

\* Poison is contained: once the logger is poisoned every call comes back.
PoisonIsContained ==
  poisoned ~> (aborted \/ \A c \in Calls : Returned(c))

\* The panic hook reports and returns: no thread gets stuck in it.
HookReturns == \A c \in Calls : doing[c] # "wedged"
=============================================================================
