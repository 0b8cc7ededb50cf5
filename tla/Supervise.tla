----------------------------- MODULE Supervise ------------------------------
(***************************************************************************)
(* The main thread of `shim watch` from the start of its client until the  *)
(* command ends (cli/watch.py): it waits for the client, passes signals on *)
(* and, when the client has ended, stops the proxy and writes the report.  *)
(*                                                                         *)
(* A signal may arrive at any step.  SIGINT raises KeyboardInterrupt in    *)
(* whatever main is doing; SIGTERM and SIGHUP ("term") run escalate() on   *)
(* top of it while their handlers are installed, and end the process       *)
(* otherwise.  The first request is passed on and arms a timer that kills  *)
(* the client, the second terminates it, a further one kills it.           *)
(***************************************************************************)
EXTENDS Naturals

CONSTANTS
    MaxSignals,     \* how many signals the run delivers
    SameGroup       \* whether the client shares shim's process group

ASSUME SignalsAssumption == MaxSignals \in Nat /\ SameGroup \in BOOLEAN

VARIABLES
    main,       \* what the main thread does next
    top,        \* the step of escalate() in a signal handler on top of it
    requests,   \* requests escalate() counted
    killer,     \* the timer that kills the client
    briefed,    \* Popen.wait has given the client its moment after Ctrl-C
    client,     \* "exited" is a client nobody has waited for yet
    escaped,    \* where an exception left the supervision, if one did
    outcome,    \* how the command ended
    signals     \* signals delivered

svars == << main, top, requests, killer, briefed, client, escaped, outcome,
            signals >>

Mains == {"spawning", "spawned", "wait", "brief", "count", "act", "arm",
          "restore", "stop", "report", "ended"}

(* The steps inside `try: while True`, where KeyboardInterrupt is caught ...*)
Waiting == {"wait", "brief"}
(* ... and those of escalate() in its except clause, where it is not.      *)
Escalating == {"count", "act", "arm"}
Handled == Waiting \cup Escalating \cup {"restore"}

Alive == client = "running"

STypeOK ==
    /\ main \in Mains
    /\ top \in {"none"} \cup Escalating
    /\ requests \in 0..MaxSignals
    /\ killer \in {"none", "armed", "fired", "cancelled"}
    /\ briefed \in BOOLEAN
    /\ client \in {"none", "running", "exited", "reaped"}
    /\ escaped \in {"none", "early", "nested", "late", "spawn", "lookup"}
    /\ outcome \in {"none", "report", "notStarted", "interrupted", "killed",
                     "raised"}
    /\ signals \in 0..MaxSignals

SInit ==
    /\ main = "spawning" /\ top = "none"
    /\ requests = 0 /\ killer = "none" /\ briefed = FALSE
    /\ client = "none" /\ escaped = "none" /\ outcome = "none"
    /\ signals = 0

-----------------------------------------------------------------------------
(* The client. *)

(* It ends by itself, or by a signal it got. *)
ClientExits ==
    /\ client = "running"
    /\ client' = "exited"
    /\ UNCHANGED << main, top, requests, killer, briefed, escaped, outcome, signals >>

(* process.kill of the timer's thread. *)
KillerFires ==
    /\ killer = "armed" /\ outcome = "none"
    /\ killer' = "fired"
    /\ client' = IF Alive THEN "exited" ELSE client
    /\ UNCHANGED << main, top, requests, briefed, escaped, outcome, signals >>

-----------------------------------------------------------------------------
(* The main thread. *)

(* Popen, which may fail: OSError goes to the except clause of watch(). *)
Spawn ==
    /\ main = "spawning"
    /\ \/ main' = "spawned" /\ client' = "running" /\ UNCHANGED escaped
       \/ main' = "stop" /\ escaped' = "spawn" /\ UNCHANGED client
    /\ UNCHANGED << top, requests, killer, briefed, outcome, signals >>

(* signal.signal for both, and into the loop. *)
Install ==
    /\ main = "spawned" /\ top = "none"
    /\ main' = "wait"
    /\ UNCHANGED << top, requests, killer, briefed, client, escaped, outcome, signals >>

(* process.wait returns the code. *)
Reap ==
    /\ main = "wait" /\ top = "none" /\ client # "running"
    /\ main' = "restore"
    /\ client' = "reaped"
    /\ UNCHANGED << top, requests, killer, briefed, escaped, outcome, signals >>

(* Popen.wait after the first KeyboardInterrupt: a quarter of a second in   *)
(* which a client that ends is waited for, and then the exception goes on. *)
Brief ==
    /\ main = "brief" /\ top = "none"
    /\ main' = "count"
    /\ client' = IF client = "exited" THEN "reaped" ELSE client
    /\ UNCHANGED << top, requests, killer, briefed, escaped, outcome, signals >>

(* An exception out of the loop: `finally` runs all the same. *)
Escape(where) ==
    /\ main' = "restore" /\ top' = "none"
    /\ escaped' = where

CountRequest == requests' = requests + 1

(* Mutant: the first request only asks, and no timer kills. *)
MutantNextStep == [act |-> "wait", arm |-> "wait"]

(* Mutant: the loop is left after the first request. *)
MutantLoop == [act |-> "arm", arm |-> "restore"]

(* What follows each step of the first request in the except clause. *)
NextStep == [act |-> "arm", arm |-> "wait"]

(* escalate(SIGINT), in the except clause. *)
CountInterrupt ==
    /\ main = "count" /\ top = "none"
    /\ CountRequest
    /\ main' = "act"
    /\ UNCHANGED << top, killer, briefed, client, escaped, outcome, signals >>

(* At a terminal the client of the same group had its Ctrl-C, and only the *)
(* process group is looked up: getpgid of a client that Popen has waited   *)
(* for raises ProcessLookupError.                                          *)
FirstInterrupt ==
    /\ main = "act" /\ top = "none" /\ requests = 1
    /\ IF client = "reaped"
       THEN Escape("lookup") /\ UNCHANGED client
       ELSE /\ main' = NextStep["act"]
            /\ IF SameGroup THEN UNCHANGED client
               ELSE client' \in {client, IF Alive THEN "exited" ELSE client}
            /\ UNCHANGED << top, escaped >>
    /\ UNCHANGED << requests, killer, briefed, outcome, signals >>

(* terminate() for the second request, which the client may ignore, kill() *)
(* for the others.                                                         *)
Forced(request) ==
    IF request = 2 THEN {client, IF Alive THEN "exited" ELSE client}
    ELSE {IF Alive THEN "exited" ELSE client}

FurtherInterrupt ==
    /\ main = "act" /\ top = "none" /\ requests > 1
    /\ client' \in Forced(requests)
    /\ main' = "wait"
    /\ UNCHANGED << top, requests, killer, briefed, escaped, outcome, signals >>

ArmInterrupt ==
    /\ main = "arm" /\ top = "none"
    /\ killer' = "armed"
    /\ main' = NextStep["arm"]
    /\ UNCHANGED << top, requests, briefed, client, escaped, outcome, signals >>

(* The `finally` of _supervise: the timer is cancelled and the handlers go. *)
Restore ==
    /\ main = "restore" /\ top = "none"
    /\ killer' = IF killer = "armed" THEN "cancelled" ELSE killer
    /\ main' = "stop"
    /\ UNCHANGED << top, requests, briefed, client, escaped, outcome, signals >>

(* running.stop() in the `finally` of watch(), and what is left to do: the *)
(* report, the exception, or the error that the client could not start.    *)
Stopped ==
    /\ main = "stop"
    /\ main' = IF escaped = "none" THEN "report" ELSE "ended"
    /\ outcome' = CASE escaped = "none" -> "none"
                    [] escaped \in {"early", "nested", "late"} -> "interrupted"
                    [] escaped \in {"spawn", "lookup"} -> "notStarted"
    /\ UNCHANGED << top, requests, killer, briefed, client, escaped, signals >>

Report ==
    /\ main = "report"
    /\ main' = "ended" /\ outcome' = "report"
    /\ UNCHANGED << top, requests, killer, briefed, client, escaped, signals >>

-----------------------------------------------------------------------------
(* escalate() in the handler of SIGTERM and SIGHUP. *)

CountTerm ==
    /\ top = "count"
    /\ CountRequest
    /\ top' = "act"
    /\ UNCHANGED << main, killer, briefed, client, escaped, outcome, signals >>

(* send_signal and the first timer, or what a further request does. *)
ActTerm ==
    /\ top = "act"
    /\ IF requests = 1
       THEN client' \in {client, IF Alive THEN "exited" ELSE client} /\ top' = "arm"
       ELSE client' \in Forced(requests) /\ top' = "none"
    /\ UNCHANGED << main, requests, killer, briefed, escaped, outcome, signals >>

ArmTerm ==
    /\ top = "arm"
    /\ killer' = "armed" /\ top' = "none"
    /\ UNCHANGED << main, requests, briefed, client, escaped, outcome, signals >>

-----------------------------------------------------------------------------
(* The signals. *)

Deliver ==
    /\ outcome = "none" /\ signals < MaxSignals
    /\ signals' = signals + 1

(* At a terminal the client of the group gets it too, and may end. *)
Ctrl(exits) == client' = IF exits /\ SameGroup /\ Alive THEN "exited" ELSE client

(* KeyboardInterrupt inside the wait, or inside a handler that interrupted *)
(* the wait, is the except clause's; the first one is given its moment.    *)
CaughtInterrupt(exits) ==
    /\ Deliver /\ Ctrl(exits)
    /\ main \in Waiting
    /\ main' = IF main = "wait" /\ ~briefed THEN "brief" ELSE "count"
    /\ briefed' = TRUE
    /\ top' = "none"
    /\ UNCHANGED << requests, killer, escaped, outcome >>

(* Before the `try` and in the except clause nothing catches it. *)
LostInterrupt(exits) ==
    /\ Deliver /\ Ctrl(exits)
    /\ \/ main \in {"spawning", "spawned"} /\ main' = "stop"
          /\ escaped' = "early" /\ UNCHANGED top
       \/ main \in Escalating /\ Escape("nested")
    /\ UNCHANGED << requests, killer, briefed, outcome >>

(* In `finally` it skips the rest of it, and ends what watch() was doing. *)
LateInterrupt(exits) ==
    /\ Deliver /\ Ctrl(exits)
    /\ main \in {"restore", "stop", "report"}
    /\ top' = "none"
    /\ escaped' = IF escaped = "none" THEN "late" ELSE escaped
    /\ main' = IF main = "report" THEN "ended" ELSE "stop"
    /\ outcome' = IF main = "report" THEN "interrupted" ELSE outcome
    /\ UNCHANGED << requests, killer, briefed >>

(* A handler runs between two steps of main. *)
Term ==
    /\ Deliver
    /\ main \in Handled /\ top = "none"
    /\ top' = "count"
    /\ UNCHANGED << main, requests, killer, briefed, client, escaped, outcome >>

(* One that interrupts another handler, which has counted its own request  *)
(* and finds this one counted too, makes its own in one step.              *)
TermOnTop ==
    /\ Deliver
    /\ main \in Handled /\ top \in {"act", "arm"}
    /\ CountRequest
    /\ client' \in Forced(requests + 1)
    /\ UNCHANGED << main, top, killer, briefed, escaped, outcome >>

(* The default action. *)
TermEnds ==
    /\ Deliver
    /\ main \in {"spawning", "spawned", "stop", "report"}
    /\ outcome' = "killed"
    /\ main' = "ended"
    /\ UNCHANGED << top, requests, killer, briefed, client, escaped >>

MainStep ==
    Spawn \/ Install \/ Reap \/ Brief \/ CountInterrupt \/ FirstInterrupt
    \/ FurtherInterrupt \/ ArmInterrupt \/ Restore
HandlerStep == CountTerm \/ ActTerm \/ ArmTerm
Interrupt == \E exits \in BOOLEAN :
    CaughtInterrupt(exits) \/ LostInterrupt(exits) \/ LateInterrupt(exits)
Signal == Interrupt \/ Term \/ TermOnTop \/ TermEnds
=============================================================================
