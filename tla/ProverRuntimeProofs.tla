------------------------- MODULE ProverRuntimeProofs -------------------------
(* Proofs about ProverRuntime, for every set of calls, level and build. *)
EXTENDS ProverRuntime, TLAPS

\* The initial states satisfy the invariant.
LEMMA InitInv == Init => IInv
  <1> SUFFICES ASSUME Init PROVE IInv
    OBVIOUS
  <1> USE CallsAssumption, LevelAssumption, BuildAssumption
      DEF Init, EntryPoints, LogPoints, InitPoints, Attempts, EarlyPoints, DefaultConfig
  <1>1. TypeOK
    <2>1. config \in Config /\ snap \in [Calls -> Config]
      BY DEF Config
    <2>2. logs \subseteq Lines /\ since \in [Calls -> SUBSET Lines]
          /\ dump \in [Calls -> SUBSET Lines]
      OBVIOUS
    <2>3. pc \in [Calls -> Points] /\ result \in [Calls -> Results]
      BY DEF Points, Results
    <2>4. /\ doing \in [Calls -> {"running", "panicking", "unwinding", "wedged", "escaped"}]
          /\ proof \in [Calls -> {"none", "valid", "bad"}]
          /\ wire \in [Calls -> {"none", "valid", "bad", "unreadable"}]
      OBVIOUS
    <2>5. /\ logger \in Calls \cup {NoCall} /\ poisoned \in BOOLEAN
          /\ once \in {"new", "running", "done"} /\ hooks \in Nat /\ aborted \in BOOLEAN
          /\ input \in [Calls -> {"good", "invalid", "unsatisfying"}]
      OBVIOUS
    <2>6. QED
      BY <2>1, <2>2, <2>3, <2>4, <2>5, Zenon DEF TypeOK
  <1>2. LoggerInv /\ PanicInv
    BY DEF LoggerInv, PanicInv
  <1>3. OnceInv
    <2>1. config.level = Level /\ ~config.detected
      OBVIOUS
    <2>2. \A c \in Calls : pc[c] \in EntryPoints
      OBVIOUS
    <2>3. \A c \in Calls : pc[c] \notin InitPoints /\ pc[c] \in EarlyPoints
      BY <2>2
    <2>4. QED
      BY <2>1, <2>3 DEF OnceInv
  <1>4. CallInv
    BY DEF CallInv, ProvingPoints
  <1>5. FreshInv
    BY DEF FreshInv
  <1>6. QED
    BY <1>1, <1>2, <1>3, <1>4, <1>5 DEF IInv

\* A call that moves between places outside INIT's closure, with INIT done
\* if it was past INIT, leaves what is known about the initialisation alone.
LEMMA OnceFrame ==
  ASSUME OnceInv, NEW c \in Calls, UNCHANGED initVars,
         \A d \in Calls : d # c => pc'[d] = pc[d],
         pc'[c] \notin InitPoints,
         pc'[c] \in EarlyPoints \/ once = "done"
  PROVE  OnceInv'
  BY DEF OnceInv, initVars, InitPoints

\* Every step of every call keeps the invariant.
LEMMA StepInv ==
  ASSUME IInv, [Next]_vars
  PROVE  IInv'
  <1> USE CallsAssumption, LevelAssumption, BuildAssumption
      DEF Points, EntryPoints, LogPoints, InitPoints, Attempts, EarlyPoints, ProvingPoints,
          Lines, Config, Results, Running, Go,
          logVars, initVars, proofVars
  <1>1. ASSUME NEW c \in Calls, Step(c) PROVE IInv'
  <2> USE <1>1 DEF IInv
  <2>1. CASE StartSession(c)
    <3>1. TypeOK'
      BY <2>1 DEF StartSession, TypeOK
    <3>2. LoggerInv'
      BY <2>1 DEF StartSession, TypeOK, LoggerInv, PanicInv
    <3>3. PanicInv'
      BY <2>1 DEF StartSession, TypeOK, LoggerInv, PanicInv
    <3>4. OnceInv'
      BY <2>1 DEF StartSession, TypeOK, OnceInv
    <3>5. CallInv'
      BY <2>1 DEF StartSession, TypeOK, OnceInv, CallInv
    <3>6. FreshInv'
      BY <2>1 DEF StartSession, TypeOK, CallInv, FreshInv
    <3>7. QED
      BY <3>1, <3>2, <3>3, <3>4, <3>5, <3>6 DEF IInv
  <2>2. CASE LogLine(c)
    <3>1. TypeOK'
      BY <2>2 DEF LogLine, Audible, After, LineLevels, Basic, Verbose, TypeOK
    <3>2. LoggerInv'
      BY <2>2 DEF LogLine, Audible, After, LineLevels, Basic, Verbose, TypeOK, LoggerInv,
         PanicInv, OnceInv
    <3>3. PanicInv'
      BY <2>2 DEF LogLine, Audible, After, LineLevels, Basic, Verbose, TypeOK, LoggerInv,
         PanicInv
    <3>4. OnceInv'
      BY <2>2 DEF LogLine, Audible, After, LineLevels, Basic, Verbose, TypeOK, OnceInv
    <3>5. CallInv'
      BY <2>2 DEF LogLine, Audible, After, LineLevels, Basic, Verbose, TypeOK, OnceInv, CallInv
    <3>6. FreshInv'
      BY <2>2 DEF LogLine, Audible, After, LineLevels, Basic, Verbose, TypeOK, CallInv, FreshInv
    <3>7. QED
      BY <3>1, <3>2, <3>3, <3>4, <3>5, <3>6 DEF IInv
  <2>3. CASE SkipLine(c)
    <3>1. TypeOK'
      BY <2>3 DEF SkipLine, Silent, After, TypeOK
    <3>2. LoggerInv'
      BY <2>3 DEF SkipLine, Silent, After, TypeOK, LoggerInv, PanicInv
    <3>3. PanicInv'
      BY <2>3 DEF SkipLine, Silent, After, TypeOK, LoggerInv, PanicInv
    <3>4. OnceInv'
      BY <2>3 DEF SkipLine, Silent, After, TypeOK, OnceInv
    <3>5. CallInv'
      BY <2>3 DEF SkipLine, Silent, After, TypeOK, OnceInv, CallInv
    <3>6. FreshInv'
      BY <2>3 DEF SkipLine, Silent, After, TypeOK, CallInv, FreshInv
    <3>7. QED
      BY <3>1, <3>2, <3>3, <3>4, <3>5, <3>6 DEF IInv
  <2>4. CASE LineFails(c)
    <3>1. TypeOK'
      BY <2>4 DEF LineFails, Audible, LineLevels, Basic, Verbose, Panic, TypeOK
    <3>2. LoggerInv'
      BY <2>4 DEF LineFails, Audible, LineLevels, Basic, Verbose, Panic, TypeOK, LoggerInv,
         PanicInv, OnceInv
    <3>3. PanicInv'
      BY <2>4 DEF LineFails, Audible, LineLevels, Basic, Verbose, Panic, TypeOK, LoggerInv,
         PanicInv
    <3>4. OnceInv'
      BY <2>4 DEF LineFails, Audible, LineLevels, Basic, Verbose, Panic, TypeOK, OnceInv
    <3>5. CallInv'
      BY <2>4 DEF LineFails, Audible, LineLevels, Basic, Verbose, Panic, TypeOK, OnceInv, CallInv
    <3>6. FreshInv'
      BY <2>4 DEF LineFails, Audible, LineLevels, Basic, Verbose, Panic, TypeOK, CallInv,
         FreshInv
    <3>7. QED
      BY <3>1, <3>2, <3>3, <3>4, <3>5, <3>6 DEF IInv
  <2>5. CASE ReadParams(c)
    <3>1. TypeOK'
      BY <2>5 DEF ReadParams, Fail, TypeOK
    <3>2. LoggerInv'
      BY <2>5 DEF ReadParams, Fail, TypeOK, LoggerInv, PanicInv
    <3>3. PanicInv'
      BY <2>5 DEF ReadParams, Fail, TypeOK, LoggerInv, PanicInv
    <3>4. OnceInv'
      BY <2>5 DEF ReadParams, Fail, TypeOK, OnceInv
    <3>5. CallInv'
      BY <2>5 DEF ReadParams, Fail, TypeOK, OnceInv, CallInv
    <3>6. FreshInv'
      BY <2>5 DEF ReadParams, Fail, TypeOK, CallInv, FreshInv
    <3>7. QED
      BY <3>1, <3>2, <3>3, <3>4, <3>5, <3>6 DEF IInv
  <2>6. CASE DumpDebugLog(c)
    <3>1. TypeOK'
      BY <2>6 DEF DumpDebugLog, Panic, TypeOK
    <3>2. LoggerInv'
      BY <2>6 DEF DumpDebugLog, Panic, TypeOK, LoggerInv, PanicInv
    <3>3. PanicInv'
      BY <2>6 DEF DumpDebugLog, Panic, TypeOK, LoggerInv, PanicInv
    <3>4. OnceInv'
      <4>1. CASE UNCHANGED pc
        BY <2>6, <4>1 DEF DumpDebugLog, OnceInv
      <4>2. CASE Go(c, "returned")
        <5>1. pc'[c] = "returned" /\ \A d \in Calls : d # c => pc'[d] = pc[d]
          BY <4>2 DEF TypeOK
        <5>2. UNCHANGED initVars
          BY <2>6 DEF DumpDebugLog
        <5>3. QED
          BY <5>1, <5>2, OnceFrame
      <4>3. QED
        BY <2>6, <4>1, <4>2 DEF DumpDebugLog
    <3>5. CallInv'
      BY <2>6 DEF DumpDebugLog, Panic, TypeOK, OnceInv, CallInv
    <3>6. FreshInv'
      BY <2>6 DEF DumpDebugLog, Panic, TypeOK, CallInv, FreshInv
    <3>7. QED
      BY <3>1, <3>2, <3>3, <3>4, <3>5, <3>6 DEF IInv
  <2>7. CASE CallOnce(c)
    <3>1. TypeOK'
      BY <2>7 DEF CallOnce, TypeOK
    <3>2. LoggerInv'
      BY <2>7 DEF CallOnce, TypeOK, LoggerInv, PanicInv
    <3>3. PanicInv'
      BY <2>7 DEF CallOnce, TypeOK, LoggerInv, PanicInv
    <3>4. OnceInv'
      BY <2>7 DEF CallOnce, TypeOK, OnceInv
    <3>5. CallInv'
      BY <2>7 DEF CallOnce, TypeOK, OnceInv, CallInv
    <3>6. FreshInv'
      BY <2>7 DEF CallOnce, TypeOK, CallInv, FreshInv
    <3>7. QED
      BY <3>1, <3>2, <3>3, <3>4, <3>5, <3>6 DEF IInv
  <2>8. CASE SetConfig(c)
    <3>1. TypeOK'
      BY <2>8 DEF SetConfig, TypeOK
    <3>2. LoggerInv'
      BY <2>8 DEF SetConfig, TypeOK, LoggerInv, PanicInv
    <3>3. PanicInv'
      BY <2>8 DEF SetConfig, TypeOK, LoggerInv, PanicInv
    <3>4. OnceInv'
      BY <2>8 DEF SetConfig, TypeOK, OnceInv
    <3>5. CallInv'
      BY <2>8 DEF SetConfig, TypeOK, OnceInv, CallInv
    <3>6. FreshInv'
      BY <2>8 DEF SetConfig, TypeOK, CallInv, FreshInv
    <3>7. QED
      BY <3>1, <3>2, <3>3, <3>4, <3>5, <3>6 DEF IInv
  <2>9. CASE SetHook(c)
    <3>1. TypeOK'
      BY <2>9 DEF SetHook, TypeOK
    <3>2. LoggerInv'
      BY <2>9 DEF SetHook, TypeOK, LoggerInv, PanicInv
    <3>3. PanicInv'
      BY <2>9 DEF SetHook, TypeOK, LoggerInv, PanicInv
    <3>4. OnceInv'
      BY <2>9 DEF SetHook, TypeOK, OnceInv
    <3>5. CallInv'
      BY <2>9 DEF SetHook, TypeOK, OnceInv, CallInv
    <3>6. FreshInv'
      BY <2>9 DEF SetHook, TypeOK, CallInv, FreshInv
    <3>7. QED
      BY <3>1, <3>2, <3>3, <3>4, <3>5, <3>6 DEF IInv
  <2>10. CASE FinishInit(c)
    <3>1. TypeOK'
      BY <2>10 DEF FinishInit, TypeOK
    <3>2. LoggerInv'
      BY <2>10 DEF FinishInit, TypeOK, LoggerInv, PanicInv
    <3>3. PanicInv'
      BY <2>10 DEF FinishInit, TypeOK, LoggerInv, PanicInv
    <3>4. OnceInv'
      BY <2>10 DEF FinishInit, TypeOK, OnceInv
    <3>5. CallInv'
      BY <2>10 DEF FinishInit, TypeOK, OnceInv, CallInv
    <3>6. FreshInv'
      BY <2>10 DEF FinishInit, TypeOK, CallInv, FreshInv
    <3>7. QED
      BY <3>1, <3>2, <3>3, <3>4, <3>5, <3>6 DEF IInv
  <2>11. CASE ReadConfig(c)
    <3>1. TypeOK'
      BY <2>11 DEF ReadConfig, TypeOK
    <3>2. LoggerInv'
      BY <2>11 DEF ReadConfig, TypeOK, LoggerInv, PanicInv
    <3>3. PanicInv'
      BY <2>11 DEF ReadConfig, TypeOK, LoggerInv, PanicInv
    <3>4. OnceInv'
      BY <2>11 DEF ReadConfig, TypeOK, OnceInv
    <3>5. CallInv'
      BY <2>11 DEF ReadConfig, TypeOK, OnceInv, CallInv
    <3>6. FreshInv'
      BY <2>11 DEF ReadConfig, TypeOK, CallInv, FreshInv
    <3>7. QED
      BY <3>1, <3>2, <3>3, <3>4, <3>5, <3>6 DEF IInv
  <2>12. CASE Validate(c)
    <3>1. TypeOK'
      BY <2>12 DEF Validate, Fail, TypeOK
    <3>2. LoggerInv'
      BY <2>12 DEF Validate, Fail, TypeOK, LoggerInv, PanicInv
    <3>3. PanicInv'
      BY <2>12 DEF Validate, Fail, TypeOK, LoggerInv, PanicInv
    <3>4. OnceInv'
      <4>1. pc[c] = "validate" /\ pc'[c] \in {"error_log", "synthesise"}
        BY <2>12 DEF Validate, Fail, TypeOK
      <4>2. UNCHANGED initVars /\ \A d \in Calls : d # c => pc'[d] = pc[d]
        BY <2>12 DEF Validate, Fail, TypeOK
      <4>3. QED
        BY <4>1, <4>2, OnceFrame DEF OnceInv
    <3>5. CallInv'
      <4>1. CASE input[c] = "invalid"
        BY <2>12, <4>1 DEF Validate, Fail, TypeOK, OnceInv, CallInv
      <4>2. CASE input[c] # "invalid"
        BY <2>12, <4>2 DEF Validate, Fail, TypeOK, OnceInv, CallInv
      <4>3. QED
        BY <4>1, <4>2
    <3>6. FreshInv'
      BY <2>12 DEF Validate, Fail, TypeOK, CallInv, FreshInv
    <3>7. QED
      BY <3>1, <3>2, <3>3, <3>4, <3>5, <3>6 DEF IInv
  <2>13. CASE Synthesise(c)
    <3>1. TypeOK'
      BY <2>13 DEF Synthesise, Fail, TypeOK
    <3>2. LoggerInv'
      BY <2>13 DEF Synthesise, Fail, TypeOK, LoggerInv, PanicInv
    <3>3. PanicInv'
      BY <2>13 DEF Synthesise, Fail, TypeOK, LoggerInv, PanicInv
    <3>4. OnceInv'
      <4>1. pc[c] = "synthesise" /\ pc'[c] \in {"error_log", "starting_log"}
        BY <2>13 DEF Synthesise, Fail, TypeOK
      <4>2. UNCHANGED initVars /\ \A d \in Calls : d # c => pc'[d] = pc[d]
        BY <2>13 DEF Synthesise, Fail, TypeOK
      <4>3. QED
        BY <4>1, <4>2, OnceFrame DEF OnceInv
    <3>5. CallInv'
      BY <2>13 DEF Synthesise, Fail, TypeOK, OnceInv, CallInv
    <3>6. FreshInv'
      BY <2>13 DEF Synthesise, Fail, TypeOK, CallInv, FreshInv
    <3>7. QED
      BY <3>1, <3>2, <3>3, <3>4, <3>5, <3>6 DEF IInv
  <2>14. CASE ProofMade(c)
    <3>1. TypeOK'
      BY <2>14 DEF ProofMade, Provable, TypeOK
    <3>2. LoggerInv'
      BY <2>14 DEF ProofMade, Provable, TypeOK, LoggerInv, PanicInv
    <3>3. PanicInv'
      BY <2>14 DEF ProofMade, Provable, TypeOK, LoggerInv, PanicInv
    <3>4. OnceInv'
      BY <2>14 DEF ProofMade, Provable, TypeOK, OnceInv
    <3>5. CallInv'
      BY <2>14 DEF ProofMade, Provable, TypeOK, OnceInv, CallInv
    <3>6. FreshInv'
      BY <2>14 DEF ProofMade, Provable, TypeOK, CallInv, FreshInv
    <3>7. QED
      BY <3>1, <3>2, <3>3, <3>4, <3>5, <3>6 DEF IInv
  <2>15. CASE ProofErr(c)
    <3>1. TypeOK'
      <4>1. pc' \in [Calls -> Points] /\ result' \in [Calls -> Results]
        BY <2>15 DEF ProofErr, Fail, TypeOK
      <4>2. QED
        BY <2>15, <4>1 DEF ProofErr, TypeOK
    <3>2. LoggerInv'
      BY <2>15 DEF ProofErr, Fail, TypeOK, LoggerInv, PanicInv
    <3>3. PanicInv'
      BY <2>15 DEF ProofErr, Fail, TypeOK, LoggerInv, PanicInv
    <3>4. OnceInv'
      BY <2>15 DEF ProofErr, Fail, TypeOK, OnceInv
    <3>5. CallInv'
      BY <2>15 DEF ProofErr, Fail, TypeOK, OnceInv, CallInv
    <3>6. FreshInv'
      BY <2>15 DEF ProofErr, Fail, TypeOK, CallInv, FreshInv
    <3>7. QED
      BY <3>1, <3>2, <3>3, <3>4, <3>5, <3>6 DEF IInv
  <2>16. CASE ProofPanics(c)
    <3>1. TypeOK'
      BY <2>16 DEF ProofPanics, Panic, TypeOK
    <3>2. LoggerInv'
      BY <2>16 DEF ProofPanics, Panic, TypeOK, LoggerInv, PanicInv
    <3>3. PanicInv'
      BY <2>16 DEF ProofPanics, Panic, TypeOK, LoggerInv, PanicInv
    <3>4. OnceInv'
      BY <2>16 DEF ProofPanics, Panic, TypeOK, OnceInv
    <3>5. CallInv'
      BY <2>16 DEF ProofPanics, Panic, TypeOK, OnceInv, CallInv
    <3>6. FreshInv'
      BY <2>16 DEF ProofPanics, Panic, TypeOK, CallInv, FreshInv
    <3>7. QED
      BY <3>1, <3>2, <3>3, <3>4, <3>5, <3>6 DEF IInv
  <2>17. CASE Verify(c)
    <3>1. TypeOK'
      BY <2>17 DEF Verify, Fail, TypeOK
    <3>2. LoggerInv'
      BY <2>17 DEF Verify, Fail, TypeOK, LoggerInv, PanicInv
    <3>3. PanicInv'
      BY <2>17 DEF Verify, Fail, TypeOK, LoggerInv, PanicInv
    <3>4. OnceInv'
      BY <2>17 DEF Verify, Fail, TypeOK, OnceInv
    <3>5. CallInv'
      BY <2>17 DEF Verify, Fail, TypeOK, OnceInv, CallInv
    <3>6. FreshInv'
      BY <2>17 DEF Verify, Fail, TypeOK, CallInv, FreshInv
    <3>7. QED
      BY <3>1, <3>2, <3>3, <3>4, <3>5, <3>6 DEF IInv
  <2>18. CASE Reread(c)
    <3>1. TypeOK'
      <4>1. PICK w \in {proof[c], "unreadable"} : Reread(c)!(w)
        BY <2>18 DEF Reread
      <4>2. w \in {"none", "valid", "bad", "unreadable"}
        BY <4>1 DEF TypeOK
      <4>3. pc' \in [Calls -> Points] /\ result' \in [Calls -> Results]
        BY <4>1 DEF Fail, TypeOK
      <4>4. wire' \in [Calls -> {"none", "valid", "bad", "unreadable"}]
        BY <4>1, <4>2 DEF TypeOK
      <4>5. QED
        BY <4>1, <4>3, <4>4 DEF TypeOK
    <3>2. LoggerInv'
      BY <2>18 DEF Reread, Fail, TypeOK, LoggerInv, PanicInv
    <3>3. PanicInv'
      BY <2>18 DEF Reread, Fail, TypeOK, LoggerInv, PanicInv
    <3>4. OnceInv'
      BY <2>18 DEF Reread, Fail, TypeOK, OnceInv
    <3>5. CallInv'
      BY <2>18 DEF Reread, Fail, TypeOK, OnceInv, CallInv
    <3>6. FreshInv'
      BY <2>18 DEF Reread, Fail, TypeOK, CallInv, FreshInv
    <3>7. QED
      BY <3>1, <3>2, <3>3, <3>4, <3>5, <3>6 DEF IInv
  <2>19. CASE Collect(c)
    <3>1. TypeOK'
      BY <2>19 DEF Collect, TypeOK
    <3>2. LoggerInv'
      BY <2>19 DEF Collect, TypeOK, LoggerInv, PanicInv
    <3>3. PanicInv'
      BY <2>19 DEF Collect, TypeOK, LoggerInv, PanicInv
    <3>4. OnceInv'
      BY <2>19 DEF Collect, TypeOK, OnceInv
    <3>5. CallInv'
      BY <2>19 DEF Collect, TypeOK, OnceInv, CallInv
    <3>6. FreshInv'
      <4>1. /\ pc' = [pc EXCEPT ![c] = "returned"] /\ UNCHANGED <<logs, since>>
            /\ dump' = dump \/ (dump' = [dump EXCEPT ![c] = IF poisoned THEN {} ELSE logs]
                                /\ snap[c].level # 0)
        BY <2>19 DEF Collect
      <4>2. snap[c].level = Level
        BY <2>19 DEF Collect, CallInv
      <4>3. QED
        BY <4>1, <4>2 DEF TypeOK, FreshInv
    <3>7. QED
      BY <3>1, <3>2, <3>3, <3>4, <3>5, <3>6 DEF IInv
  <2>20. CASE HookFails(c)
    <3>1. TypeOK'
      BY <2>20 DEF HookFails, TypeOK
    <3>2. LoggerInv'
      BY <2>20 DEF HookFails, TypeOK, LoggerInv, PanicInv
    <3>3. PanicInv'
      BY <2>20 DEF HookFails, TypeOK, LoggerInv, PanicInv
    <3>4. OnceInv'
      BY <2>20 DEF HookFails, TypeOK, OnceInv
    <3>5. CallInv'
      BY <2>20 DEF HookFails, TypeOK, OnceInv, CallInv
    <3>6. FreshInv'
      BY <2>20 DEF HookFails, TypeOK, CallInv, FreshInv
    <3>7. QED
      BY <3>1, <3>2, <3>3, <3>4, <3>5, <3>6 DEF IInv
  <2>21. CASE RunHook(c)
    <3>1. TypeOK'
      BY <2>21 DEF RunHook, TypeOK
    <3>2. LoggerInv'
      BY <2>21 DEF RunHook, TypeOK, LoggerInv, PanicInv
    <3>3. PanicInv'
      BY <2>21 DEF RunHook, TypeOK, LoggerInv, PanicInv
    <3>4. OnceInv'
      BY <2>21 DEF RunHook, TypeOK, OnceInv
    <3>5. CallInv'
      BY <2>21 DEF RunHook, TypeOK, OnceInv, CallInv
    <3>6. FreshInv'
      BY <2>21 DEF RunHook, TypeOK, CallInv, FreshInv
    <3>7. QED
      BY <3>1, <3>2, <3>3, <3>4, <3>5, <3>6 DEF IInv
  <2>22. CASE Abort(c)
    <3>1. TypeOK'
      BY <2>22 DEF Abort, PastHook, TypeOK
    <3>2. LoggerInv'
      BY <2>22 DEF Abort, PastHook, TypeOK, LoggerInv, PanicInv
    <3>3. PanicInv'
      BY <2>22 DEF Abort, PastHook, TypeOK, LoggerInv, PanicInv
    <3>4. OnceInv'
      BY <2>22 DEF Abort, PastHook, TypeOK, OnceInv
    <3>5. CallInv'
      BY <2>22 DEF Abort, PastHook, TypeOK, OnceInv, CallInv
    <3>6. FreshInv'
      BY <2>22 DEF Abort, PastHook, TypeOK, CallInv, FreshInv
    <3>7. QED
      BY <3>1, <3>2, <3>3, <3>4, <3>5, <3>6 DEF IInv
  <2>23. CASE Unwind(c)
    <3>1. TypeOK'
      <4>1. CASE pc[c] = "prove1"
        BY <2>23, <4>1 DEF Unwind, TypeOK
      <4>2. CASE pc[c] = "prove3"
        BY <2>23, <4>2 DEF Unwind, Fail, TypeOK
      <4>3. CASE pc[c] \notin {"prove1", "prove3"}
        BY <2>23, <4>3 DEF Unwind, TypeOK
      <4>4. QED
        BY <4>1, <4>2, <4>3
    <3>2. LoggerInv'
      <4>1. CASE pc[c] = "prove1"
        BY <2>23, <4>1 DEF Unwind, PastHook, TypeOK, LoggerInv, PanicInv
      <4>2. CASE pc[c] = "prove3"
        <5>1. /\ doing' = [doing EXCEPT ![c] = "running"] /\ UNCHANGED logVars
              /\ pc' = [pc EXCEPT ![c] = "error_log"]
          BY <2>23, <4>2 DEF Unwind, Fail
        <5>2. logger # c
          BY <4>2 DEF LoggerInv
        <5>3. QED
          BY <5>1, <5>2 DEF TypeOK, LoggerInv
      <4>3. CASE pc[c] \notin {"prove1", "prove3"}
        BY <2>23, <4>3 DEF Unwind, PastHook, TypeOK, LoggerInv, PanicInv
      <4>4. QED
        BY <4>1, <4>2, <4>3
    <3>3. PanicInv'
      BY <2>23 DEF Unwind, Fail, PastHook, TypeOK, LoggerInv, PanicInv
    <3>4. OnceInv'
      <4>1. CASE pc[c] \in {"prove1", "prove3"}
        <5>1. pc'[c] \in {"recover_log", "error_log"} /\ once = "done"
          BY <2>23, <4>1 DEF Unwind, Fail, TypeOK, OnceInv
        <5>2. UNCHANGED initVars /\ \A d \in Calls : d # c => pc'[d] = pc[d]
          BY <2>23 DEF Unwind, Fail, TypeOK
        <5>3. QED
          BY <5>1, <5>2, OnceFrame
      <4>2. CASE pc[c] \notin {"prove1", "prove3"}
        BY <2>23, <4>2 DEF Unwind, OnceInv
      <4>3. QED
        BY <4>1, <4>2
    <3>5. CallInv'
      BY <2>23 DEF Unwind, Fail, PastHook, TypeOK, OnceInv, CallInv
    <3>6. FreshInv'
      BY <2>23 DEF Unwind, Fail, PastHook, TypeOK, CallInv, FreshInv
    <3>7. QED
      BY <3>1, <3>2, <3>3, <3>4, <3>5, <3>6 DEF IInv
  <2>24. QED
    BY <1>1, <2>1, <2>2, <2>3, <2>4, <2>5, <2>6, <2>7, <2>8, <2>9, <2>10, <2>11, <2>12, <2>13,
       <2>14, <2>15, <2>16, <2>17, <2>18, <2>19, <2>20, <2>21, <2>22, <2>23 DEF Step
  <1>2. CASE UNCHANGED vars
    BY <1>2 DEF vars, IInv, TypeOK, LoggerInv, PanicInv, OnceInv, CallInv, FreshInv
  <1>3. QED
    BY <1>1, <1>2 DEF Next, Finished

\* IInv is an invariant of the runtime, for every set of calls and every build.
THEOREM Inductive == Spec => []IInv
  <1>1. IInv /\ [Next]_vars => IInv'
    BY StepInv
  <1>2. QED
    BY InitInv, <1>1, PTL DEF Spec

------------------------------------------------------------------------------
(* What the invariant gives: one theorem per safety property. *)

\* Every state of the runtime is well typed.
THEOREM TypeCorrect == Spec => []TypeOK
  <1>1. IInv => TypeOK
    BY DEF IInv
  <1>2. QED
    BY Inductive, <1>1, PTL

\* An Ok result carries a proof that verifies after the round trip.
THEOREM ReturnedProofVerifiesTheorem == Spec => []ReturnedProofVerifies
  <1>1. IInv => ReturnedProofVerifies
    BY DEF IInv, CallInv, ReturnedProofVerifies
  <1>2. QED
    BY Inductive, <1>1, PTL

\* No proof attempt runs on the placeholder configuration.
THEOREM ProvesWithDetectedConfigTheorem == Spec => []ProvesWithDetectedConfig
  <1>1. IInv => ProvesWithDetectedConfig
    BY DEF IInv, CallInv, ProvesWithDetectedConfig, Attempts, EarlyPoints, EntryPoints,
           InitPoints
  <1>2. QED
    BY Inductive, <1>1, PTL

\* The hook is wrapped at most once, and before the first attempt.
THEOREM HookInstalledOnceTheorem == Spec => []HookInstalledOnce
  <1>1. IInv => HookInstalledOnce
    BY DEF IInv, OnceInv, HookInstalledOnce, Attempts, EarlyPoints, EntryPoints, InitPoints
  <1>2. QED
    BY Inductive, <1>1, PTL

\* A returned debug log holds no line older than the call's session.
THEOREM DumpIsFreshTheorem == Spec => []DumpIsFresh
  <1>1. IInv => DumpIsFresh
    BY DEF IInv, FreshInv, DumpIsFresh
  <1>2. QED
    BY Inductive, <1>1, PTL

\* Panics leave a call at two places only.
THEOREM EscapesOnlyUnprotectedTheorem == Spec => []EscapesOnlyUnprotected
  <1>1. IInv => EscapesOnlyUnprotected
    BY DEF IInv, PanicInv, EscapesOnlyUnprotected
  <1>2. QED
    BY Inductive, <1>1, PTL

\* A poisoned logger is free and nobody is stuck on it.
THEOREM PoisonExcludesWedgeTheorem == Spec => []PoisonExcludesWedge
  <1>1. IInv => PoisonExcludesWedge
    BY CallsAssumption DEF IInv, LoggerInv, PanicInv, PoisonExcludesWedge
  <1>2. QED
    BY Inductive, <1>1, PTL

\* With level None the debug machinery has no effect, whatever stderr does.
THEOREM SilentLevelIsSafeTheorem == Spec => []SilentLevelIsSafe
  <1>1. IInv => SilentLevelIsSafe
    BY CallsAssumption DEF IInv, LoggerInv, PanicInv, FreshInv, SilentLevelIsSafe
  <1>2. QED
    BY Inductive, <1>1, PTL

\* The configuration changes in one step of one call, before any attempt.
THEOREM ConfigWrittenOnceTheorem == Spec => ConfigWrittenOnce
  <1> DEFINE Once == config' # config =>
               /\ ~config.detected /\ config'.detected
               /\ config'.level = config.level
               /\ \A c \in Calls : pc[c] \notin Attempts
  <1>1. ASSUME IInv, [Next]_vars PROVE [Once]_vars
    <2> SUFFICES ASSUME config' # config PROVE Once
      OBVIOUS
    <2>1. PICK c \in Calls : SetConfig(c)
      BY <1>1 DEF Next, Finished, Step, vars, initVars, StartSession, LogLine, SkipLine,
         LineFails, ReadParams, DumpDebugLog, CallOnce, SetHook, FinishInit, ReadConfig, Validate,
         Synthesise, ProofMade, ProofErr, ProofPanics, Verify, Reread, Collect,
         HookFails, RunHook, Abort, Unwind
    <2>2. pc[c] = "set_config"
      BY <2>1 DEF SetConfig, Running
    <2>3. ~config.detected /\ once = "running"
      BY <1>1, <2>2 DEF IInv, OnceInv, InitPoints
    <2>4. \A d \in Calls : pc[d] \notin Attempts
      BY <1>1, <2>3 DEF IInv, OnceInv, Attempts, EarlyPoints, EntryPoints, InitPoints
    <2>5. QED
      BY <2>1, <2>3, <2>4 DEF SetConfig
  <1>2. QED
    BY Inductive, <1>1, PTL DEF Spec, ConfigWrittenOnce
=============================================================================
