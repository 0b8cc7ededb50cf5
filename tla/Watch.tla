------------------------------- MODULE Watch --------------------------------
(***************************************************************************)
(* `shim watch`: the supervision of the client composed with the proxy it  *)
(* talks to.  The client sends requests while it runs; stop() of the proxy *)
(* is part of main's way out, and the process ends with main.              *)
(***************************************************************************)
EXTENDS WatchProxy, Supervise

CONSTANT MaxLoad    \* a bound: the signals and twice the requests of a run

ASSUME LoadAssumption == MaxLoad \in Nat

vars == << pvars, svars >>

TypeOK == PTypeOK /\ STypeOK

Init == PInit /\ SInit

Running == outcome = "none"

Load == signals + 2 * Cardinality({r \in Requests : at[r] # "unsent"})

(* The client connects. *)
Send(r) ==
    /\ Running /\ Alive /\ Load + 2 <= MaxLoad
    /\ Accept(r)
    /\ UNCHANGED svars

(* A thread of the proxy, until the process ends. *)
Thread(r) == Running /\ RequestStep(r) /\ UNCHANGED svars

Supervision == (ClientExits \/ KillerFires \/ MainStep \/ HandlerStep) /\ UNCHANGED pvars
Signals == Load < MaxLoad /\ Signal /\ UNCHANGED pvars

(* running.stop() *)
Stopping ==
    /\ main = "stop" /\ top = "none"
    /\ BeginStop \/ Drain \/ DrainTimesOut \/ CloseServer
    /\ UNCHANGED svars

(* It is over, or was cut short by a late KeyboardInterrupt. *)
LeaveStop ==
    /\ stop \notin {"no", "drain", "close"} \/ escaped = "late"
    /\ Stopped
    /\ UNCHANGED pvars

Reporting == main = "report" /\ ReportStep /\ UNCHANGED svars

Reported == stop = "written" /\ Report /\ UNCHANGED pvars

(* An exception of the report ends the command. *)
ReportRaises ==
    /\ main = "report" /\ stop = "raised"
    /\ main' = "ended" /\ outcome' = "raised"
    /\ UNCHANGED << top, requests, killer, briefed, client, escaped, signals, pvars >>

Over == ~Running /\ UNCHANGED vars

Next ==
    \/ \E r \in Requests : Send(r) \/ Thread(r)
    \/ Supervision \/ Signals \/ Stopping \/ LeaveStop \/ Reporting \/ Reported
    \/ ReportRaises \/ Over

Spec == Init /\ [][Next]_vars

MainThread ==
    \/ (MainStep \/ HandlerStep) /\ UNCHANGED pvars
    \/ Stopping \/ LeaveStop \/ Reporting \/ Reported \/ ReportRaises

(* The main thread runs, in its handlers too: none of its steps but the    *)
(* wait for the client waits for another process, and a drain times out.   *)
(* The timer fires.  The client and the requests may hang.                 *)
FairSpec ==
    Spec /\ WF_vars(MainThread) /\ WF_vars(KillerFires /\ UNCHANGED pvars)

-----------------------------------------------------------------------------
(* Properties. *)

(* The proxy holds its port while the client runs (cli/watch.py:37), for   *)
(* any signals that come while it is waited for; but for an exception or   *)
(* a default action before the loop, and for a Ctrl-C inside escalate().   *)
OutlivesClient ==
    Alive /\ (server = "closed" \/ ~Running)
    => \/ escaped = "early"
       \/ escaped = "nested" /\ signals >= 2
       \/ outcome = "killed"

(* One request ends the command: the client ends by it, or is killed after *)
(* the grace, whatever requests of the client hang in the proxy.  Three do *)
(* too.  With two, the second may have come before the first armed the     *)
(* timer.                                                                  *)
EndsOnRequest ==
    /\ (requests = 1) ~> (~Running \/ requests = 2)
    /\ (requests = 3) ~> ~Running

(* The inductive invariant behind OutlivesClient: each request counted was *)
(* a signal, a handler of main runs after one, and main comes to its way   *)
(* out with the client running only by an exception nothing catches.       *)

WayOut == {"restore", "stop", "report", "ended"}
SupervisionInv ==
    /\ requests + (IF main \in {"brief", "count"} THEN 1 ELSE 0)
           + (IF top = "count" THEN 1 ELSE 0) <= signals
    /\ main \in {"brief"} \cup Escalating => signals >= 1
    /\ top # "none" => main \in Handled
    /\ main = "spawning" => client = "none"
    /\ main \in {"spawning", "spawned"} \cup Waiting \cup Escalating => escaped = "none"
    /\ Alive /\ main \in WayOut =>
          escaped = "early" \/ (escaped = "nested" /\ signals >= 2) \/ outcome = "killed"
    /\ stop # "no" => main \in {"stop", "report", "ended"}
    /\ ~Running => main = "ended"

WatchInv == PInv /\ STypeOK /\ SupervisionInv

(* cli/watch.py:165 says of the client that it "could not be started": only *)
(* of a client that did not start.  Violated: Ctrl-C at a terminal ends a  *)
(* client that Popen waits for within its moment, and getpgid raises.      *)
NotStartedIsTrue == outcome = "notStarted" => client = "none"
=============================================================================
