---------------------------- MODULE SingBoxProcess ----------------------------
(***************************************************************************)
(* The supervisor of the sing-box child process (internal/runtime/        *)
(* process.go) together with the code that drives it: applyNodesToRuntime  *)
(* (write config, check, stop, start), serialised by App.refreshMu, and    *)
(* App.Shutdown, which is not.                                             *)
(*                                                                         *)
(* Four kinds of actors interleave: the apply in progress, the shutdown    *)
(* goroutine, one wait goroutine per child ever started, and the children  *)
(* themselves, which may die at any time.  Process.mu protects each access *)
(* to cmd and running, not the sequence Stop makes of them.  Start only    *)
(* forks: the child opens the configuration file itself, at some later     *)
(* time, and the next apply may have begun to write it by then.            *)
(***************************************************************************)
EXTENDS Naturals, Sequences

CONSTANT MaxApplies      \* bound on the number of applies, for TLC only

ASSUME MaxAppliesAssumption == MaxApplies \in Nat

VARIABLES
    running,     \* Process.running
    cmd,         \* Process.cmd: the child it points to, NoChild for nil
    lastError,   \* Process.lastError, by the statement that wrote it
    lastApply,   \* Process.lastApplyStatus
    alive,       \* children whose operating-system process exists
    signalled,   \* children sent SIGINT, SIGTERM or SIGKILL
    waiting,     \* children whose wait goroutine has not finished
    launches,    \* per child started, the apply that started it
    loaded,      \* for the children that have read the file: what they read
    file,        \* the configuration file on disk
    applies,     \* applies begun so far
    applyPc, applyCmd,   \* the apply in progress, and the cmd its Stop read
    shutPc, shutCmd      \* Shutdown, and the cmd its Stop read

vars == <<running, cmd, lastError, lastApply, alive, signalled,
          waiting, launches, loaded, file, applies, applyPc, applyCmd, shutPc, shutCmd>>

procVars  == <<running, cmd, waiting>>
childVars == <<alive, launches, loaded>>
shutVars  == <<shutPc, shutCmd>>

NoChild == 0

\* Children are numbered in the order Start created them.
started == Len(launches)

\* A configuration file: the apply that wrote it (0 before any did), and
\* whether `sing-box check` accepts it.  A torn file is never accepted.
File(a, ok) == [apply |-> a, ok |-> ok]
Files == [apply : Nat, ok : BOOLEAN]

ApplyStatus == {"", "build_error", "write_error", "check_error", "stop_error",
                "start_error", "applied"}
Errors      == {"", "check", "start", "exit"}
ApplyPcs    == {"idle", "write", "fill", "check", "isRunning", "stop", "stopWait", "start"}
ShutPcs     == {"up", "stop", "stopWait", "stopped", "exited"}

Init ==
    /\ running = FALSE
    /\ cmd = NoChild
    /\ lastError = ""
    /\ lastApply = ""
    /\ alive = {}
    /\ signalled = {}
    /\ waiting = {}
    /\ launches = <<>>
    /\ loaded = <<>>
    /\ file = File(0, FALSE)
    /\ applies = 0
    /\ applyPc = "idle"
    /\ applyCmd = NoChild
    /\ shutPc = "up"
    /\ shutCmd = NoChild

\* main has not returned: once it has, no goroutine of the program runs.
Up == shutPc # "exited"

-----------------------------------------------------------------------------
(* Process.Stop, whose caller keeps in target the cmd it read under RLock.  *)

\* The child Stop waits for has been reaped: it forgets the current child,
\* whichever that is by now.
ForgetChild ==
    /\ cmd' = NoChild
    /\ running' = FALSE

-----------------------------------------------------------------------------
(* applyNodesToRuntime, under refreshMu                                     *)

\* RecordApplyResult and return.
Finish(status) ==
    /\ lastApply' = status
    /\ applyPc' = "idle"
    /\ applyCmd' = NoChild

\* buildRuntimePorts and BuildConfig succeed.
ApplyBegin ==
    /\ Up /\ applyPc = "idle" /\ applies < MaxApplies
    /\ applies' = applies + 1
    /\ applyPc' = "write"
    /\ UNCHANGED <<procVars, childVars, shutVars, lastError, lastApply,
                   signalled, file, applyCmd>>

ApplyBuildFails ==
    /\ Up /\ applyPc = "idle" /\ applies < MaxApplies
    /\ applies' = applies + 1
    /\ Finish("build_error")
    /\ UNCHANGED <<procVars, childVars, shutVars, lastError, signalled, file>>

\* os.WriteFile first truncates the file in place.
ApplyTruncate ==
    /\ Up /\ applyPc = "write"
    /\ file' = File(applies, FALSE)
    /\ applyPc' = "fill"
    /\ UNCHANGED <<procVars, childVars, shutVars, lastError, lastApply,
                   signalled, applies, applyCmd>>

\* The generated configuration may be one sing-box rejects.
ApplyWrite ==
    /\ Up /\ applyPc = "fill"
    /\ \E ok \in BOOLEAN : file' = File(applies, ok)
    /\ applyPc' = "check"
    /\ UNCHANGED <<procVars, childVars, shutVars, lastError, lastApply,
                   signalled, applies, applyCmd>>

\* os.WriteFile could not open the file, or truncated it and then failed.
ApplyWriteFails ==
    /\ Up /\ applyPc \in {"write", "fill"}
    /\ Finish("write_error")
    /\ UNCHANGED <<procVars, childVars, shutVars, lastError, signalled, file,
                   applies>>

\* A plausible bug: the result of the check is not looked at.
ApplyCheckIgnored ==
    /\ Up /\ applyPc = "check"
    /\ lastError' = "check"
    /\ applyPc' = "isRunning"
    /\ UNCHANGED <<procVars, childVars, shutVars, lastApply, signalled, file,
                   applies, applyCmd>>

ApplyCheckPasses ==
    /\ Up /\ applyPc = "check" /\ file.ok
    /\ lastError' = ""
    /\ applyPc' = "isRunning"
    /\ UNCHANGED <<procVars, childVars, shutVars, lastApply, signalled, file,
                   applies, applyCmd>>

\* The check also fails when ctx is cancelled or the binary cannot run.
ApplyCheckFails ==
    /\ Up /\ applyPc = "check"
    /\ lastError' = "check"
    /\ Finish("check_error")
    /\ UNCHANGED <<procVars, childVars, shutVars, signalled, file, applies>>

\* A plausible bug: the running child is not looked at, Start is called as is.
ApplyIsRunningSkipped ==
    /\ Up /\ applyPc = "isRunning"
    /\ applyPc' = "start"
    /\ UNCHANGED <<procVars, childVars, shutVars, lastError, lastApply,
                   signalled, file, applies, applyCmd>>

ApplyIsRunning ==
    /\ Up /\ applyPc = "isRunning"
    /\ applyPc' = IF running THEN "stop" ELSE "start"
    /\ UNCHANGED <<procVars, childVars, shutVars, lastError, lastApply,
                   signalled, file, applies, applyCmd>>

\* Stop finds no child (it died since IsRunning) and returns nil.
ApplyStopFindsNone ==
    /\ Up /\ applyPc = "stop" /\ cmd = NoChild
    /\ applyPc' = "start"
    /\ UNCHANGED <<procVars, childVars, shutVars, lastError, lastApply,
                   signalled, file, applies, applyCmd>>

\* A plausible bug: Stop waits for the child without signalling it.
ApplyStopSilently ==
    /\ Up /\ applyPc = "stop" /\ cmd # NoChild
    /\ applyCmd' = cmd
    /\ applyPc' = "stopWait"
    /\ UNCHANGED <<procVars, childVars, shutVars, lastError, lastApply, file,
                   signalled, applies>>

ApplyStopSignals ==
    /\ Up /\ applyPc = "stop" /\ cmd # NoChild
    /\ applyCmd' = cmd
    /\ signalled' = signalled \cup {cmd}
    /\ applyPc' = "stopWait"
    /\ UNCHANGED <<procVars, childVars, shutVars, lastError, lastApply, file,
                   applies>>

\* case <-done: cmd.Wait has returned.
ApplyStopDone ==
    /\ Up /\ applyPc = "stopWait" /\ applyCmd \notin alive
    /\ ForgetChild
    /\ applyPc' = "start"
    /\ applyCmd' = NoChild
    /\ UNCHANGED <<childVars, shutVars, lastError, lastApply, signalled,
                   waiting, file, applies>>

\* case <-ctx.Done(): Kill, and neither cmd nor running is touched.
ApplyStopCancelled ==
    /\ Up /\ applyPc = "stopWait"
    /\ signalled' = signalled \cup {applyCmd}
    /\ Finish("stop_error")
    /\ UNCHANGED <<procVars, childVars, shutVars, lastError, file, applies>>

\* A plausible bug: the error of Start is recorded, the apply goes on.
ApplyStartErrorIgnored ==
    /\ Up /\ applyPc = "start" /\ ~running
    /\ lastError' = "start"
    /\ Finish("applied")
    /\ UNCHANGED <<procVars, childVars, shutVars, signalled, file, applies>>

ApplyStartFails ==
    /\ Up /\ applyPc = "start" /\ ~running
    /\ lastError' = "start"
    /\ Finish("start_error")
    /\ UNCHANGED <<procVars, childVars, shutVars, signalled, file, applies>>

\* A plausible bug: `go p.wait(p.cmd)` before p.cmd is assigned.
StartChildWaitsOnOld ==
    IF running
    THEN UNCHANGED <<procVars, childVars, lastError>>
    ELSE /\ launches' = Append(launches, applies)
         /\ alive' = alive \cup {started + 1}
         /\ cmd' = started + 1
         /\ running' = TRUE
         /\ lastError' = ""
         /\ waiting' = waiting \cup {cmd}
         /\ UNCHANGED loaded

\* Process.Start: nothing happens when the flag says a child already runs.
StartChild ==
    IF running
    THEN UNCHANGED <<procVars, childVars, lastError>>
    ELSE /\ launches' = Append(launches, applies)
         /\ alive' = alive \cup {started + 1}
         /\ cmd' = started + 1
         /\ running' = TRUE
         /\ lastError' = ""
         /\ waiting' = waiting \cup {started + 1}
         /\ UNCHANGED loaded

ApplyStart ==
    /\ Up /\ applyPc = "start"
    /\ StartChild
    /\ Finish("applied")
    /\ UNCHANGED <<shutVars, signalled, file, applies>>

Apply ==
    \/ ApplyBegin \/ ApplyBuildFails
    \/ ApplyTruncate \/ ApplyWrite \/ ApplyWriteFails
    \/ ApplyCheckPasses \/ ApplyCheckFails
    \/ ApplyIsRunning
    \/ ApplyStopFindsNone \/ ApplyStopSignals \/ ApplyStopDone
    \/ ApplyStopCancelled
    \/ ApplyStartFails \/ ApplyStart

-----------------------------------------------------------------------------
(* The wait goroutine of child c, and the children themselves               *)

\* A plausible bug: running is not cleared.
WaitKeepsFlag(c) ==
    /\ Up /\ c \in waiting /\ c \notin alive
    /\ waiting' = waiting \ {c}
    /\ cmd' = IF cmd = c THEN NoChild ELSE cmd
    /\ lastError' \in {lastError, "exit"}
    /\ UNCHANGED <<running, childVars, shutVars, lastApply, signalled, file,
                   applies, applyPc, applyCmd>>

\* cmd is forgotten only when c is still current; running is cleared always.
Wait(c) ==
    /\ Up /\ c \in waiting /\ c \notin alive
    /\ waiting' = waiting \ {c}
    /\ cmd' = IF cmd = c THEN NoChild ELSE cmd
    /\ running' = FALSE
    /\ lastError' \in {lastError, "exit"}
    /\ UNCHANGED <<childVars, shutVars, lastApply, signalled, file, applies,
                   applyPc, applyCmd>>

\* `sing-box run -c p.Config` opens the file once, when it gets to it.  A read
\* that overlaps a write sees a torn file, as one right after the truncation.
ReadConfig(c) ==
    /\ c \in alive /\ c \notin DOMAIN loaded
    /\ loaded' = [d \in DOMAIN loaded \cup {c} |-> IF d = c THEN file ELSE loaded[d]]
    /\ UNCHANGED <<procVars, shutVars, lastError, lastApply, alive, signalled,
                   launches, file, applies, applyPc, applyCmd>>

\* A child exits because it was signalled, or on its own.
ChildExit(c) ==
    /\ c \in alive
    /\ alive' = alive \ {c}
    /\ UNCHANGED <<procVars, shutVars, lastError, lastApply, signalled,
                   launches, loaded, file, applies, applyPc, applyCmd>>

-----------------------------------------------------------------------------
(* App.Shutdown and the return of main                                      *)

\* cancel() and wg.Wait(): neither waits for a refresh in progress.
ShutdownBegin ==
    /\ shutPc = "up"
    /\ shutPc' = "stop"
    /\ UNCHANGED <<procVars, childVars, lastError, lastApply, signalled, file,
                   applies, applyPc, applyCmd, shutCmd>>

ShutdownStopFindsNone ==
    /\ shutPc = "stop" /\ cmd = NoChild
    /\ shutPc' = "stopped"
    /\ UNCHANGED <<procVars, childVars, lastError, lastApply, signalled, file,
                   applies, applyPc, applyCmd, shutCmd>>

ShutdownStopSignals ==
    /\ shutPc = "stop" /\ cmd # NoChild
    /\ shutCmd' = cmd
    /\ signalled' = signalled \cup {cmd}
    /\ shutPc' = "stopWait"
    /\ UNCHANGED <<procVars, childVars, lastError, lastApply, file, applies,
                   applyPc, applyCmd>>

ShutdownStopDone ==
    /\ shutPc = "stopWait" /\ shutCmd \notin alive
    /\ ForgetChild
    /\ shutPc' = "stopped"
    /\ UNCHANGED <<childVars, lastError, lastApply, signalled, waiting, file,
                   applies, applyPc, applyCmd, shutCmd>>

\* The five seconds main allows have passed.
ShutdownStopTimeout ==
    /\ shutPc = "stopWait"
    /\ signalled' = signalled \cup {shutCmd}
    /\ shutPc' = "stopped"
    /\ UNCHANGED <<procVars, childVars, lastError, lastApply, file, applies,
                   applyPc, applyCmd, shutCmd>>

\* Server.Shutdown makes ListenAndServe return, and main with it.
Exit ==
    /\ shutPc = "stopped"
    /\ shutPc' = "exited"
    /\ UNCHANGED <<procVars, childVars, lastError, lastApply, signalled, file,
                   applies, applyPc, applyCmd, shutCmd>>

Shutdown ==
    \/ ShutdownBegin
    \/ ShutdownStopFindsNone \/ ShutdownStopSignals
    \/ ShutdownStopDone \/ ShutdownStopTimeout
    \/ Exit

Next ==
    \/ Apply
    \/ \E c \in waiting : Wait(c)
    \/ \E c \in alive : ReadConfig(c) \/ ChildExit(c)
    \/ Shutdown

Spec == Init /\ [][Next]_vars

-----------------------------------------------------------------------------
(* Fairness: a goroutine that can run does; sing-box exits once signalled.  *)

\* No step of the apply but the cancellation of its ctx, which nobody owes it.
ApplyStep ==
    /\ applyPc # "idle"
    /\ \/ ApplyTruncate \/ ApplyWrite \/ ApplyWriteFails
       \/ ApplyCheckPasses \/ ApplyCheckFails
       \/ ApplyIsRunning
       \/ ApplyStopFindsNone \/ ApplyStopDone \/ ApplyStopSignals
       \/ ApplyStartFails \/ ApplyStart

Fairness ==
    /\ WF_vars(ApplyStep)
    /\ WF_vars(\E c \in waiting : Wait(c))
    /\ WF_vars(\E c \in alive \cap signalled : ChildExit(c))
    /\ WF_vars(Shutdown /\ shutPc # "up")

FairSpec == Spec /\ Fairness

-----------------------------------------------------------------------------
(* Properties                                                               *)

\* Type invariant.
TypeOK ==
    /\ running \in BOOLEAN
    /\ cmd \in 0..started
    /\ lastError \in Errors
    /\ lastApply \in ApplyStatus
    /\ alive \subseteq 1..started
    /\ signalled \subseteq 1..started
    /\ waiting \subseteq 1..started
    /\ launches \in Seq(Nat)
    /\ DOMAIN loaded \subseteq 1..started
    /\ \A c \in DOMAIN loaded : loaded[c] \in Files
    /\ file \in Files
    /\ applies \in Nat
    /\ applyPc \in ApplyPcs
    /\ applyCmd \in 0..started
    /\ shutPc \in ShutPcs
    /\ shutCmd \in 0..started

\* The status the admin API reports never claims a running sing-box that
\* nothing watches: while running is set, cmd points at a child whose wait
\* goroutine is still there to clear the flag.
RunningIsWatched == running => cmd \in waiting

\* Start is never called while the flag is set, however the apply, the wait
\* goroutines and Shutdown interleave: its early return "already running",
\* which would report "applied" and keep the old configuration, is dead code.
StartNeverNoops == applyPc = "start" => ~running

\* "applied" is the truth: the last apply started the newest child, the file it
\* wrote and had checked is still the one on disk, and this is what that child
\* has read, or will read if nothing follows, in spite of applies that fail in
\* between, late wait goroutines and Shutdown.
AppliedIsLoaded ==
    lastApply = "applied" /\ applyPc = "idle" =>
        /\ started > 0 /\ launches[started] = applies
        /\ file = File(applies, TRUE)
        /\ started \in DOMAIN loaded => loaded[started] = file

\* What a sing-box reads is the file that was checked for it, never the torn or
\* rejected file of an apply that failed before it was started, and never its own
\* before the check; unless a later apply has written the file before it got to
\* read it, which nothing prevents and after which it may be any file.
OwnFileWasChecked ==
    \A c \in DOMAIN loaded :
        loaded[c] = File(launches[c], TRUE) \/ loaded[c].apply > launches[c]

\* The mechanism keeps the promise of ConfigRollout: each apply launches its own
\* configuration once and reports it, or launches none and reports that, in spite
\* of the wait goroutines, the children that die and Shutdown.
Rollout == INSTANCE ConfigRollout WITH
    current <- applies,
    busy <- applyPc # "idle",
    newest <- IF started = 0 THEN 0 ELSE launches[started],
    reported <- IF lastApply = "" THEN "none"
                ELSE IF lastApply = "applied" THEN "applied" ELSE "failed"
ImplementsRollout == Rollout!Spec

\* Every child ever started and still alive keeps its wait goroutine, orphans
\* included.
LiveChildIsWatched == alive \subseteq waiting

\* The flag does not stick: once the child it stands for is dead, running is
\* cleared, or the program exits.
DeadChildIsForgotten == (running /\ cmd \notin alive) ~> (~running \/ ~Up)

\* An apply ends, whatever fails in it: refreshMu is not held for ever.
ApplyEnds == (applyPc # "idle") ~> (applyPc = "idle" \/ ~Up)

\* What the design document asks of the module ("maintains the current running
\* state") and the late wait goroutine breaks: a live current child is reported
\* as running.
CurrentChildIsReported == cmd \in alive => running
=============================================================================
