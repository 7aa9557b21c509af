------------------------- MODULE SingBoxProcess_proofs -------------------------
(***************************************************************************)
(* Proofs about the supervisor of sing-box, for any number of applies and  *)
(* of children.  IInv below is the inductive invariant behind all of them. *)
(***************************************************************************)
EXTENDS SingBoxProcess, SequenceTheorems, TLAPS

\* A Stop in progress waits for a child that was started.
StopTargets ==
    /\ applyPc = "stopWait" => applyCmd \in 1..started
    /\ shutPc = "stopWait" => shutCmd \in 1..started

\* While an apply writes, the file is its own; from the check that passed until
\* the start it is moreover accepted.
CheckedUntilStart ==
    /\ applyPc \in {"fill", "check"} => file.apply = applies
    /\ applyPc \in {"isRunning", "stop", "stopWait", "start"} =>
          file = File(applies, TRUE)

\* No child is of a later apply than the last, nor of the one in progress.
LaunchesPrecede ==
    \A c \in 1..started :
        /\ launches[c] \in Nat /\ launches[c] <= applies
        /\ applyPc # "idle" => launches[c] < applies

\* What a child would read now: its own checked file, or one of a later apply.
FileOnDisk ==
    \A c \in 1..started : file = File(launches[c], TRUE) \/ file.apply > launches[c]

\* TypeOK in two halves: the tags, and everything that counts children.
Tags ==
    /\ lastError \in Errors
    /\ lastApply \in ApplyStatus
    /\ applyPc \in ApplyPcs
    /\ shutPc \in ShutPcs

Values ==
    /\ running \in BOOLEAN
    /\ cmd \in 0..started
    /\ alive \subseteq 1..started
    /\ signalled \subseteq 1..started
    /\ waiting \subseteq 1..started
    /\ launches \in Seq(Nat)
    /\ DOMAIN loaded \subseteq 1..started
    /\ \A c \in DOMAIN loaded : loaded[c] \in Files
    /\ file \in Files
    /\ applies \in Nat
    /\ applyCmd \in 0..started
    /\ shutCmd \in 0..started
    /\ StopTargets

TypeInv == Tags /\ Values

\* Who watches the children, and what the configuration file is when.
FlagsInv == RunningIsWatched /\ LiveChildIsWatched /\ StartNeverNoops

FilesInv ==
    /\ AppliedIsLoaded
    /\ CheckedUntilStart
    /\ LaunchesPrecede
    /\ FileOnDisk
    /\ OwnFileWasChecked

\* The inductive invariant: what the runs check, and what each caller of Stop
\* and each apply past its check relies on.
IInv == TypeInv /\ FlagsInv /\ FilesInv

-----------------------------------------------------------------------------
\* What a successful Start adds to the list of started children.
LEMMA StartedGrows ==
    ASSUME launches \in Seq(Nat), applies \in Nat
    PROVE  /\ Append(launches, applies) \in Seq(Nat)
           /\ Len(Append(launches, applies)) = Len(launches) + 1
           /\ Append(launches, applies)[Len(launches) + 1] = applies
           /\ \A c \in 1..Len(launches) : Append(launches, applies)[c] = launches[c]
OBVIOUS

\* What reading the file adds to what the children have read.
LEMMA ReadEffect ==
    ASSUME NEW c, ReadConfig(c)
    PROVE  /\ DOMAIN loaded' = DOMAIN loaded \cup {c}
           /\ loaded'[c] = file
           /\ \A d \in DOMAIN loaded : loaded'[d] = loaded[d]
BY DEF ReadConfig

\* The initial state is well typed and satisfies the rest of the invariant.
LEMMA InitInv == Init => IInv
<1> SUFFICES ASSUME Init PROVE IInv
  OBVIOUS
<1>1. launches \in Seq(Nat) /\ started = 0
  BY EmptySeq DEF Init, started
<1>2. file \in Files
  BY DEF Init, File, Files
<1>3. Tags
  BY DEF Init, Tags, Errors, ApplyStatus, ApplyPcs, ShutPcs
<1>4. DOMAIN loaded = {}
  <2>1. <<>> \in Seq(Nat) /\ Len(<<>>) = 0
    BY EmptySeq
  <2>2. DOMAIN <<>> = 1..0
    BY <2>1, LenProperties
  <2>3. 1..0 = {}
    OBVIOUS
  <2> QED
    BY <2>2, <2>3 DEF Init
<1>5. Values
  <2>1. 0 \in 0..started
    BY <1>1
  <2> QED
    BY <1>1, <1>2, <1>4, <2>1 DEF Init, Values, StopTargets, NoChild
<1>6. LaunchesPrecede /\ FileOnDisk /\ OwnFileWasChecked
  BY <1>1, <1>4 DEF LaunchesPrecede, FileOnDisk, OwnFileWasChecked
<1> QED
  BY <1>1, <1>3, <1>5, <1>6 DEF Init, IInv, TypeInv, FlagsInv, FilesInv, RunningIsWatched,
     LiveChildIsWatched, StartNeverNoops, AppliedIsLoaded, CheckedUntilStart

\* Every program counter, status and error written is one of those listed.
LEMMA TagsStep == Tags /\ [Next]_vars => Tags'
<1> SUFFICES ASSUME Tags, [Next]_vars PROVE Tags'
  OBVIOUS
<1> USE DEF Tags, Errors, ApplyStatus, ApplyPcs, ShutPcs, procVars, childVars, shutVars
<1>1. CASE Apply
  BY <1>1 DEF Apply, ApplyBegin, ApplyBuildFails, ApplyTruncate, ApplyWrite, ApplyWriteFails, ApplyCheckPasses,
         ApplyCheckFails, ApplyIsRunning, ApplyStopFindsNone, ApplyStopSignals,
         ApplyStopDone, ApplyStopCancelled, ApplyStartFails, ApplyStart, StartChild, Finish
<1>2. ASSUME NEW c \in waiting, Wait(c) PROVE Tags'
  BY <1>2 DEF Wait
<1>3. ASSUME NEW c \in alive, ReadConfig(c) \/ ChildExit(c) PROVE Tags'
  BY <1>3 DEF ReadConfig, ChildExit
<1>4. CASE Shutdown
  BY <1>4 DEF Shutdown, ShutdownBegin, ShutdownStopFindsNone, ShutdownStopSignals,
              ShutdownStopDone, ShutdownStopTimeout, Exit
<1>5. CASE UNCHANGED vars
  BY <1>5 DEF vars
<1> QED
  BY <1>1, <1>2, <1>3, <1>4, <1>5 DEF Next

\* The children numbered so far stay numbered when one more is started.
LEMMA Wider ==
    ASSUME NEW m \in Nat, NEW n, n = m + 1
    PROVE  /\ 1..m \subseteq 1..n /\ 0..m \subseteq 0..n
           /\ n \in 1..n /\ 0 \in 0..n /\ 1..n \subseteq 0..n
OBVIOUS

\* A Start that succeeds appends a child, which is the one now current.
LEMMA StartEffect ==
    ASSUME Values, ApplyStart, ~running
    PROVE  /\ started \in Nat /\ started' = started + 1 /\ started' > 0
           /\ launches' \in Seq(Nat) /\ launches'[started'] = applies
           /\ \A c \in 1..started : launches'[c] = launches[c]
           /\ loaded' = loaded
           /\ cmd' = started' /\ running' = TRUE
           /\ alive' = alive \cup {started'} /\ waiting' = waiting \cup {started'}
           /\ file' = file /\ applies' = applies /\ signalled' = signalled
           /\ applyCmd' = NoChild /\ applyPc' = "idle" /\ lastApply' = "applied"
           /\ shutCmd' = shutCmd /\ shutPc' = shutPc
<1>1. launches \in Seq(Nat) /\ applies \in Nat
  BY DEF Values
<1>2. launches' = Append(launches, applies) /\ loaded' = loaded
  BY DEF ApplyStart, StartChild
<1>3. started \in Nat
  BY <1>1, LenProperties DEF started
<1>4. started' = started + 1
  BY <1>1, <1>2, StartedGrows DEF started
<1>5. started' > 0
  BY <1>3, <1>4
<1> QED
  BY <1>1, <1>2, <1>3, <1>4, <1>5, StartedGrows
     DEF ApplyStart, StartChild, Finish, NoChild, shutVars, started

\* Every step keeps the children it mentions among those started.
LEMMA ValuesStep == Values /\ [Next]_vars => Values'
<1> SUFFICES ASSUME Values, [Next]_vars PROVE Values'
  OBVIOUS
<1> USE MaxAppliesAssumption DEF Values, StopTargets, NoChild, procVars, childVars, shutVars
<1>s. /\ started \in Nat /\ 0 \in 0..started
      /\ launches' = launches => started' = started
  BY LenProperties DEF started
<1>1. CASE ApplyBegin
  BY <1>1, <1>s DEF ApplyBegin
<1>2. CASE ApplyBuildFails
  BY <1>2, <1>s DEF ApplyBuildFails, Finish
<1>3. CASE ApplyTruncate \/ ApplyWrite
  <2>1. PICK ok \in BOOLEAN : file' = File(applies, ok)
    BY <1>3 DEF ApplyTruncate, ApplyWrite
  <2>2. file' \in Files
    BY <2>1 DEF File, Files
  <2> QED
    BY <1>3, <2>2, <1>s DEF ApplyTruncate, ApplyWrite
<1>4. CASE ApplyWriteFails
  BY <1>4, <1>s DEF ApplyWriteFails, Finish
<1>5. CASE ApplyCheckPasses
  BY <1>5, <1>s DEF ApplyCheckPasses
<1>6. CASE ApplyCheckFails
  BY <1>6, <1>s DEF ApplyCheckFails, Finish
<1>7. CASE ApplyIsRunning
  BY <1>7, <1>s DEF ApplyIsRunning
<1>8. CASE ApplyStopFindsNone
  BY <1>8, <1>s DEF ApplyStopFindsNone
<1>9. CASE ApplyStopSignals
  BY <1>9, <1>s DEF ApplyStopSignals
<1>10. CASE ApplyStopDone
  BY <1>10, <1>s DEF ApplyStopDone, ForgetChild
<1>11. CASE ApplyStopCancelled
  BY <1>11, <1>s DEF ApplyStopCancelled, Finish
<1>12. CASE ApplyStartFails
  BY <1>12, <1>s DEF ApplyStartFails, Finish
<1>13. CASE ApplyStart
  <2>1. CASE running
    BY <1>13, <2>1, <1>s DEF ApplyStart, StartChild, Finish
  <2>2. CASE ~running
    <3>1. /\ 1..started \subseteq 1..started' /\ 0..started \subseteq 0..started'
          /\ started' \in 1..started' /\ 0 \in 0..started'
          /\ 1..started' \subseteq 0..started'
      BY <1>13, <2>2, StartEffect, Wider
    <3>2. StopTargets'
      BY <1>13, <2>2, <3>1, StartEffect
    <3> QED
      BY <1>13, <2>2, <3>1, <3>2, StartEffect
  <2> QED
    BY <2>1, <2>2
<1>14. ASSUME NEW c \in waiting, Wait(c) PROVE Values'
  BY <1>14, <1>s DEF Wait
<1>15. ASSUME NEW c \in alive, ReadConfig(c) \/ ChildExit(c) PROVE Values'
  <2>1. CASE ReadConfig(c)
    <3>1. /\ DOMAIN loaded' \subseteq 1..started'
          /\ \A d \in DOMAIN loaded' : loaded'[d] \in Files
      <4>1. /\ DOMAIN loaded' = DOMAIN loaded \cup {c} /\ loaded'[c] = file
            /\ \A d \in DOMAIN loaded : loaded'[d] = loaded[d]
        BY <2>1, ReadEffect
      <4>2. started' = started
        BY <2>1, <1>s DEF ReadConfig
      <4> QED
        BY <4>1, <4>2
    <3> QED
      BY <2>1, <3>1, <1>s DEF ReadConfig
  <2>2. CASE ChildExit(c)
    BY <2>2, <1>s DEF ChildExit
  <2> QED
    BY <1>15, <2>1, <2>2
<1>16. CASE ShutdownBegin
  BY <1>16, <1>s DEF ShutdownBegin
<1>17. CASE ShutdownStopFindsNone
  BY <1>17, <1>s DEF ShutdownStopFindsNone
<1>18. CASE ShutdownStopSignals
  BY <1>18, <1>s DEF ShutdownStopSignals
<1>19. CASE ShutdownStopDone
  BY <1>19, <1>s DEF ShutdownStopDone, ForgetChild
<1>20. CASE ShutdownStopTimeout
  BY <1>20, <1>s DEF ShutdownStopTimeout
<1>21. CASE Exit
  BY <1>21, <1>s DEF Exit
<1>22. CASE UNCHANGED vars
  BY <1>22, <1>s DEF vars
<1> QED
  BY <1>1, <1>2, <1>3, <1>4, <1>5, <1>6, <1>7, <1>8, <1>9, <1>10, <1>11, <1>12, <1>13, <1>14, <1>15, <1>16, <1>17, <1>18, <1>19, <1>20, <1>21, <1>22
     DEF Next, Apply, Shutdown

\* A step that moves neither a child's launch nor the file, and brings the apply
\* no nearer to the start than the file allows.
LEMMA FilesUntouched ==
    ASSUME Values, FilesInv, UNCHANGED <<launches, loaded, file>>,
           \/ UNCHANGED <<applies, applyPc, lastApply>>
           \/ /\ applyPc # "idle" /\ applyPc' = "idle" /\ lastApply' # "applied"
              /\ applies' = applies
           \/ /\ applyPc = "idle" /\ applies' = applies + 1
              /\ applyPc' = "write" \/ (applyPc' = "idle" /\ lastApply' # "applied")
           \/ /\ applyPc' # "idle" /\ applies' = applies
              /\ applyPc \in {"isRunning", "stop", "stopWait", "start"}
              /\ applyPc' \in {"isRunning", "stop", "stopWait", "start"}
    PROVE  FilesInv'
<1>1. started' = started /\ applies \in Nat
  BY DEF started, Values
<1>2. AppliedIsLoaded' /\ CheckedUntilStart'
  BY <1>1 DEF FilesInv, AppliedIsLoaded, CheckedUntilStart
<1>3. LaunchesPrecede'
  BY <1>1 DEF FilesInv, LaunchesPrecede
<1>4. FileOnDisk' /\ OwnFileWasChecked'
  BY <1>1 DEF FilesInv, FileOnDisk, OwnFileWasChecked
<1> QED
  BY <1>2, <1>3, <1>4 DEF FilesInv

\* A step that writes the file of the apply in progress.
LEMMA FilesWritten ==
    ASSUME Values, FilesInv, NEW ok \in BOOLEAN, file' = File(applies, ok),
           applyPc \in {"write", "fill"}, applyPc' \in {"fill", "check"},
           UNCHANGED <<launches, loaded, applies, lastApply>>
    PROVE  FilesInv'
<1>1. started' = started /\ file'.apply = applies /\ applyPc # "idle"
  BY DEF started, File
<1>2. AppliedIsLoaded' /\ CheckedUntilStart' /\ LaunchesPrecede' /\ OwnFileWasChecked'
  BY <1>1 DEF FilesInv, AppliedIsLoaded, CheckedUntilStart, LaunchesPrecede, OwnFileWasChecked
<1>3. FileOnDisk'
  BY <1>1 DEF FilesInv, LaunchesPrecede, FileOnDisk
<1> QED
  BY <1>2, <1>3 DEF FilesInv

\* Every step keeps what a child has read, or would read, the file checked for it.
LEMMA FilesStep == TypeInv /\ FlagsInv /\ FilesInv /\ [Next]_vars => FilesInv'
<1> SUFFICES ASSUME TypeInv, FlagsInv, FilesInv, [Next]_vars PROVE FilesInv'
  OBVIOUS
<1> USE DEF procVars, childVars, shutVars
<1>v. Values
  BY DEF TypeInv
<1>1. CASE ApplyBegin \/ ApplyBuildFails
  BY <1>1, <1>v, FilesUntouched DEF ApplyBegin, ApplyBuildFails, Finish
<1>2. CASE ApplyTruncate \/ ApplyWrite
  BY <1>2, <1>v, FilesWritten DEF ApplyTruncate, ApplyWrite
<1>3. CASE ApplyWriteFails \/ ApplyCheckFails \/ ApplyStopCancelled \/ ApplyStartFails
  BY <1>3, <1>v, FilesUntouched
     DEF ApplyWriteFails, ApplyCheckFails, ApplyStopCancelled, ApplyStartFails, Finish
<1>4. CASE ApplyCheckPasses
  <2>1. /\ applyPc = "check" /\ applyPc' = "isRunning" /\ started' = started
        /\ UNCHANGED <<launches, loaded, file, applies, lastApply>>
    BY <1>4 DEF ApplyCheckPasses, started
  <2>2. file = File(applies, TRUE)
    BY <1>4, <1>v, <2>1 DEF ApplyCheckPasses, FilesInv, CheckedUntilStart, Values, Files, File
  <2> QED
    BY <2>1, <2>2 DEF FilesInv, AppliedIsLoaded, CheckedUntilStart, LaunchesPrecede,
                      FileOnDisk, OwnFileWasChecked
<1>5. CASE ApplyIsRunning \/ ApplyStopFindsNone \/ ApplyStopSignals \/ ApplyStopDone
  BY <1>5, <1>v, FilesUntouched
     DEF ApplyIsRunning, ApplyStopFindsNone, ApplyStopSignals, ApplyStopDone
<1>6. CASE ApplyStart
  <2>1. ~running /\ applyPc = "start"
    BY <1>6 DEF FlagsInv, StartNeverNoops, ApplyStart
  <2>2. file = File(applies, TRUE) /\ applies \in Nat
    BY <1>v, <2>1 DEF FilesInv, CheckedUntilStart, Values
  <2>3. started' \notin DOMAIN loaded' /\ 1..started' = 1..started \cup {started'}
    <3>1. started \in Nat /\ started' = started + 1 /\ loaded' = loaded
      BY <1>6, <1>v, <2>1, StartEffect
    <3>2. DOMAIN loaded \subseteq 1..started
      BY <1>v DEF Values
    <3> QED
      BY <3>1, <3>2
  <2>4. AppliedIsLoaded' /\ CheckedUntilStart'
    BY <1>6, <1>v, <2>1, <2>2, <2>3, StartEffect DEF AppliedIsLoaded, CheckedUntilStart
  <2>5. LaunchesPrecede' /\ FileOnDisk'
    <3> SUFFICES ASSUME NEW c \in 1..started'
                 PROVE  /\ launches'[c] \in Nat /\ launches'[c] <= applies'
                        /\ applyPc' # "idle" => launches'[c] < applies'
                        /\ file' = File(launches'[c], TRUE) \/ file'.apply > launches'[c]
      BY DEF LaunchesPrecede, FileOnDisk, File
    <3>1. applyPc' = "idle" /\ applies' = applies /\ file' = file
      BY <1>6, <1>v, <2>1, StartEffect
    <3>2. CASE c = started'
      <4>1. launches'[c] = applies
        BY <1>6, <1>v, <2>1, <3>2, StartEffect
      <4> QED
        BY <2>2, <3>1, <4>1
    <3>3. CASE c \in 1..started
      <4>1. launches'[c] = launches[c]
        BY <1>6, <1>v, <2>1, <3>3, StartEffect
      <4> QED
        BY <3>1, <3>3, <4>1 DEF FilesInv, LaunchesPrecede, FileOnDisk
    <3> QED
      BY <2>3, <3>2, <3>3
  <2>6. OwnFileWasChecked'
    BY <1>6, <1>v, <2>1, StartEffect DEF FilesInv, OwnFileWasChecked, Values
  <2> QED
    BY <2>4, <2>5, <2>6 DEF FilesInv
<1>7. ASSUME NEW c \in waiting, Wait(c) PROVE FilesInv'
  BY <1>7, <1>v, FilesUntouched DEF Wait
<1>8. ASSUME NEW c \in alive, ReadConfig(c) PROVE FilesInv'
  <2>1. c \in 1..started
    BY <1>v DEF Values
  <2>2. UNCHANGED <<launches, started, file, applies, applyPc, lastApply>>
    BY <1>8 DEF ReadConfig, started
  <2>3. /\ DOMAIN loaded' = DOMAIN loaded \cup {c} /\ loaded'[c] = file
        /\ \A d \in DOMAIN loaded : loaded'[d] = loaded[d]
    BY <1>8, ReadEffect
  <2>4. AppliedIsLoaded' /\ CheckedUntilStart' /\ LaunchesPrecede' /\ FileOnDisk'
    BY <2>2, <2>3 DEF FilesInv, AppliedIsLoaded, CheckedUntilStart, LaunchesPrecede, FileOnDisk
  <2>5. OwnFileWasChecked'
    BY <2>1, <2>2, <2>3 DEF FilesInv, FileOnDisk, OwnFileWasChecked
  <2> QED
    BY <2>4, <2>5 DEF FilesInv
<1>9. ASSUME NEW c \in alive, ChildExit(c) PROVE FilesInv'
  BY <1>9, <1>v, FilesUntouched DEF ChildExit
<1>10. CASE Shutdown
  BY <1>10, <1>v, FilesUntouched
     DEF Shutdown, ShutdownBegin, ShutdownStopFindsNone, ShutdownStopSignals,
         ShutdownStopDone, ShutdownStopTimeout, Exit
<1>11. CASE UNCHANGED vars
  BY <1>11, <1>v, FilesUntouched DEF vars
<1> QED
  BY <1>1, <1>2, <1>3, <1>4, <1>5, <1>6, <1>7, <1>8, <1>9, <1>10, <1>11 DEF Next, Apply

\* Every step keeps the flag and the children watched.
LEMMA FlagsStep == TypeInv /\ FlagsInv /\ [Next]_vars => FlagsInv'
<1> SUFFICES ASSUME TypeInv, FlagsInv, [Next]_vars PROVE FlagsInv'
  OBVIOUS
<1> USE DEF FlagsInv, RunningIsWatched, LiveChildIsWatched, StartNeverNoops,
            procVars, childVars, shutVars
<1>1. CASE ApplyBegin \/ ApplyBuildFails
  BY <1>1 DEF ApplyBegin, ApplyBuildFails, Finish
<1>2. CASE ApplyTruncate \/ ApplyWrite \/ ApplyCheckPasses
  <2>1. UNCHANGED <<running, cmd, waiting, alive>> /\ applyPc' # "start"
    BY <1>2 DEF ApplyTruncate, ApplyWrite, ApplyCheckPasses
  <2> QED
    BY <2>1
<1>3. CASE ApplyWriteFails \/ ApplyCheckFails \/ ApplyStopCancelled \/ ApplyStartFails
  BY <1>3 DEF ApplyWriteFails, ApplyCheckFails, ApplyStopCancelled, ApplyStartFails, Finish
<1>4. CASE ApplyIsRunning
  BY <1>4 DEF ApplyIsRunning
<1>5. CASE ApplyStopFindsNone \/ ApplyStopSignals \/ ApplyStopDone
  <2>1. NoChild \notin waiting
    BY DEF TypeInv, Values, NoChild
  <2> QED
    BY <1>5, <2>1 DEF ApplyStopFindsNone, ApplyStopSignals, ApplyStopDone, ForgetChild
<1>6. CASE ApplyStart
  BY <1>6, StartEffect DEF ApplyStart, TypeInv
<1>7. ASSUME NEW c \in waiting, Wait(c) PROVE FlagsInv'
  BY <1>7 DEF Wait
<1>8. ASSUME NEW c \in alive, ReadConfig(c) \/ ChildExit(c) PROVE FlagsInv'
  BY <1>8 DEF ReadConfig, ChildExit
<1>9. CASE Shutdown
  BY <1>9 DEF Shutdown, ShutdownBegin, ShutdownStopFindsNone, ShutdownStopSignals,
              ShutdownStopDone, ShutdownStopTimeout, Exit, ForgetChild
<1>10. CASE UNCHANGED vars
  BY <1>10 DEF vars
<1> QED
  BY <1>1, <1>2, <1>3, <1>4, <1>5, <1>6, <1>7, <1>8, <1>9, <1>10 DEF Next, Apply

\* The whole invariant is inductive.
LEMMA InvStep == IInv /\ [Next]_vars => IInv'
<1> SUFFICES ASSUME IInv, [Next]_vars PROVE IInv'
  OBVIOUS
<1>1. TypeInv'
  BY TagsStep, ValuesStep DEF IInv, TypeInv
<1> QED
  BY <1>1, FlagsStep, FilesStep DEF IInv

-----------------------------------------------------------------------------
\* The invariant holds in every reachable state.
THEOREM Invariance == Spec => []IInv
BY InitInv, InvStep, PTL DEF Spec

\* Process and its callers only ever hold values of their types.
THEOREM TypeCorrect == Spec => []TypeOK
<1>1. IInv => TypeOK
  BY DEF IInv, TypeInv, Tags, Values, TypeOK
<1> QED
  BY <1>1, Invariance, PTL

\* Process.running is set only while a wait goroutine can still clear it.
THEOREM RunningWatched == Spec => []RunningIsWatched
<1>1. IInv => RunningIsWatched
  BY DEF IInv, FlagsInv
<1> QED
  BY <1>1, Invariance, PTL

\* The early return of Process.Start is dead code for applyNodesToRuntime.
THEOREM StartIsNeverANoop == Spec => []StartNeverNoops
<1>1. IInv => StartNeverNoops
  BY DEF IInv, FlagsInv
<1> QED
  BY <1>1, Invariance, PTL

\* last_apply_status "applied" means that the newest sing-box is of the last apply
\* and that the file it has read or will read is the one checked for it.
THEOREM AppliedMeansLoaded == Spec => []AppliedIsLoaded
<1>1. IInv => AppliedIsLoaded
  BY DEF IInv, FilesInv
<1> QED
  BY <1>1, Invariance, PTL

\* A sing-box reads the file that `sing-box check` accepted for it, unless a later
\* apply has written the file before it got to read it.
THEOREM OwnFilesAreChecked == Spec => []OwnFileWasChecked
<1>1. IInv => OwnFileWasChecked
  BY DEF IInv, FilesInv
<1> QED
  BY <1>1, Invariance, PTL

-----------------------------------------------------------------------------
(* The refinement                                                           *)

\* The first state of the supervisor is a first state of the rollout.
LEMMA RolloutInit == Init => Rollout!Init
<1> SUFFICES ASSUME Init PROVE Rollout!Init
  OBVIOUS
<1>1. started = 0
  BY EmptySeq DEF Init, started
<1> QED
  BY <1>1 DEF Init, Rollout!Init

\* Every step of the supervisor is a step of the rollout or leaves it alone: only
\* ApplyStart launches, for the apply in progress.
LEMMA RolloutStep == IInv /\ [Next]_vars => [Rollout!Next]_Rollout!vars
<1> SUFFICES ASSUME IInv, [Next]_vars PROVE [Rollout!Next]_Rollout!vars
  OBVIOUS
<1> USE DEF Rollout!Next, Rollout!vars, procVars, childVars, shutVars
<1>s. launches' = launches => started' = started
  BY DEF started
<1>1. CASE ApplyBegin
  BY <1>1, <1>s DEF ApplyBegin, Rollout!Begin
<1>2. CASE ApplyBuildFails
  BY <1>2, <1>s DEF ApplyBuildFails, Finish, Rollout!Reject
<1>3. CASE ApplyTruncate \/ ApplyWrite
  BY <1>3, <1>s DEF ApplyTruncate, ApplyWrite
<1>4. CASE ApplyWriteFails
  BY <1>4, <1>s DEF ApplyWriteFails, Finish, Rollout!Fail
<1>5. CASE ApplyCheckPasses
  BY <1>5, <1>s DEF ApplyCheckPasses
<1>6. CASE ApplyCheckFails
  BY <1>6, <1>s DEF ApplyCheckFails, Finish, Rollout!Fail
<1>7. CASE ApplyIsRunning
  BY <1>7, <1>s DEF ApplyIsRunning
<1>8. CASE ApplyStopFindsNone
  BY <1>8, <1>s DEF ApplyStopFindsNone
<1>9. CASE ApplyStopSignals
  BY <1>9, <1>s DEF ApplyStopSignals
<1>10. CASE ApplyStopDone
  BY <1>10, <1>s DEF ApplyStopDone
<1>11. CASE ApplyStopCancelled
  BY <1>11, <1>s DEF ApplyStopCancelled, Finish, Rollout!Fail
<1>12. CASE ApplyStartFails
  BY <1>12, <1>s DEF ApplyStartFails, Finish, Rollout!Fail
<1>13. CASE ApplyStart
  <2>1. ~running /\ Values
    BY <1>13 DEF IInv, TypeInv, FlagsInv, StartNeverNoops, ApplyStart
  <2>2. started' > 0 /\ started' \in Nat /\ launches'[started'] = applies
    BY <1>13, <2>1, StartEffect
  <2>3. (IF started = 0 THEN 0 ELSE launches[started])' = applies
    BY <2>2
  <2>4. applyPc = "start" /\ applyPc' = "idle" /\ lastApply' = "applied" /\ applies' = applies
    BY <1>13, <2>1, StartEffect DEF ApplyStart
  <2> QED
    BY <2>3, <2>4 DEF Rollout!Launch
<1>14. ASSUME NEW c \in waiting, Wait(c) PROVE UNCHANGED Rollout!vars
  BY <1>14, <1>s DEF Wait
<1>15. ASSUME NEW c \in alive, ReadConfig(c) \/ ChildExit(c)
       PROVE UNCHANGED Rollout!vars
  BY <1>15, <1>s DEF ReadConfig, ChildExit
<1>16. CASE Shutdown
  BY <1>16, <1>s DEF Shutdown, ShutdownBegin, ShutdownStopFindsNone, ShutdownStopSignals,
                     ShutdownStopDone, ShutdownStopTimeout, Exit
<1>17. CASE UNCHANGED vars
  BY <1>17, <1>s DEF vars
<1> QED
  BY <1>1, <1>2, <1>3, <1>4, <1>5, <1>6, <1>7, <1>8, <1>9, <1>10, <1>11, <1>12, <1>13, <1>14, <1>15, <1>16, <1>17
     DEF Next, Apply

\* Process, its wait goroutines, Shutdown and applyNodesToRuntime together roll
\* configurations out as ConfigRollout promises.
THEOREM RolloutRefined == Spec => ImplementsRollout
<1>1. Spec => Rollout!Spec
  BY RolloutInit, RolloutStep, Invariance, PTL DEF Spec, Rollout!Spec
<1> QED
  BY <1>1 DEF ImplementsRollout
=============================================================================
