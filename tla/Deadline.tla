------------------------------ MODULE Deadline ------------------------------
(***************************************************************************)
(* The two deadlines of a hook, which share one timer: the hook's alarm,   *)
(* and guard/analyze.py's _deadline() around each analysis.                *)
(*                                                                         *)
(* An analysis saves what is left of the timer, takes it for itself, and   *)
(* gives back what the hook's alarm has left.  When the hook's alarm is    *)
(* the earlier of the two, the analysis runs to it and fails as the hook   *)
(* does; otherwise it fails alone, and the hook goes on.                   *)
(***************************************************************************)
EXTENDS Integers

CONSTANTS
    HookSeconds,        \* the hook's deadline
    AnalysisSeconds     \* ANALYSIS_DEADLINE_SECONDS

ASSUME DeadlineAssumption ==
    HookSeconds \in Nat \ {0} /\ AnalysisSeconds \in Nat \ {0}

VARIABLES
    now,        \* seconds since the hook set its alarm
    timer,      \* what is left of ITIMER_REAL, 0 when it is off
    previous,   \* what an analysis found left of it
    running,    \* an analysis is running
    began,      \* when it began
    ended       \* "no", or how the hook's work was cut: "hook"
timevars == << now, timer, previous, running, began, ended >>

DeadlineInit ==
    /\ now = 0 /\ timer = HookSeconds /\ previous = 0
    /\ running = FALSE /\ began = 0 /\ ended = "no"

(* The hook's alarm is the earlier one. *)
Outer(left) == 0 < left /\ left <= AnalysisSeconds
Delay(left) == IF Outer(left) THEN left ELSE AnalysisSeconds

(* Mutant: what was left when the analysis began is given back. *)
MutantRemaining == previous

(* setitimer(0) says what is left of the analysis's own delay. *)
Remaining == previous - Delay(previous) + timer
NotNegative(n) == IF n > 0 THEN n ELSE 0

BeginAnalysis ==
    /\ ended = "no" /\ ~running
    /\ running' = TRUE /\ began' = now
    /\ previous' = timer /\ timer' = Delay(timer)
    /\ UNCHANGED << now, ended >>

(* It returns, or fails alone. *)
EndAnalysis ==
    /\ ended = "no" /\ running
    /\ running' = FALSE /\ timer' = NotNegative(Remaining)
    /\ UNCHANGED << now, previous, began, ended >>

(* A second passes; the timer's signal raises in the analysis, which ends  *)
(* with it, or in the hook.                                                *)
Tick ==
    /\ ended = "no" /\ now < HookSeconds + AnalysisSeconds
    /\ now' = now + 1
    /\ IF timer # 1 THEN timer' = NotNegative(timer - 1) /\ UNCHANGED << running, ended >>
       ELSE IF running /\ ~Outer(previous)
       THEN /\ running' = FALSE /\ UNCHANGED ended
            /\ timer' = NotNegative(previous - Delay(previous))
       ELSE ended' = "hook" /\ running' = FALSE /\ timer' = 0
    /\ UNCHANGED << previous, began >>

DeadlineNext == BeginAnalysis \/ EndAnalysis \/ Tick

DeadlineSpec == DeadlineInit /\ [][DeadlineNext]_timevars

-----------------------------------------------------------------------------
(* However many analyses run, each to its end or to its own deadline, the  *)
(* hook's alarm comes when it was set to, neither lost nor late nor early; *)
(* and no analysis runs past its own deadline or the hook's.               *)
AlarmIsKept ==
    /\ ended = "no" <=> now < HookSeconds
    /\ ended = "no" /\ ~running => timer = HookSeconds - now
    /\ running => now - began < AnalysisSeconds

(* The inductive invariant: what an analysis found left of the timer is    *)
(* what the hook had then, and the timer is what the analysis has left.    *)
DeadlineInv ==
    /\ now \in Nat /\ timer \in Nat /\ began \in Nat /\ previous \in Nat
    /\ running \in BOOLEAN /\ ended \in {"no", "hook"}
    /\ ended = "no" <=> now < HookSeconds
    /\ ended = "no" /\ ~running => timer = HookSeconds - now
    /\ running =>
          /\ ended = "no" /\ began <= now /\ previous = HookSeconds - began
          /\ timer = Delay(previous) - (now - began) /\ timer > 0
=============================================================================
