---------------------------- MODULE Tracerouter -----------------------------
(***************************************************************************)
(* The thread that finds the routes to a client's peers, one after the     *)
(* other, and the callers of route_to.  The condition q_work has a lock,   *)
(* which its owner may take again; wait gives it back however often it was *)
(* taken.  The thread does not give it back when wait has returned, and so *)
(* traces with the lock held, until it next finds the queue empty.         *)
(***************************************************************************)
EXTENDS Naturals, Sequences

CONSTANTS
    Callers,        \* threads that ask for routes
    Targets,        \* peers
    MaxAsked        \* BOUND: requests for a route

VARIABLES
    tools,          \* which programs work on this machine, once they are tried
    tr_cmd,         \* what to trace with: "calculating", "none", or a program
    tracer,         \* what the thread does: [at, target]
    q_lock,         \* who holds q_work
    queue,
    routes,         \* target -> "unknown", "waiting" or "found"
    caller,         \* caller -> the target that it is about to enqueue
    asked           \* how many routes have been asked for

traceVars == <<tools, tr_cmd, tracer, q_lock, queue, routes, caller, asked>>

Nothing == "nothing"

TraceInit ==
    /\ tools = [mtr |-> "absent", traceroute |-> FALSE]
    /\ tr_cmd = "calculating"
    /\ tracer = [at |-> "setup", target |-> Nothing]
    /\ q_lock = "nobody" /\ queue = << >>
    /\ routes = [t \in Targets |-> "unknown"]
    /\ caller = [c \in Callers |-> Nothing] /\ asked = 0

\* mtr is tried; traceroute is tried only if mtr cannot be started.
Setup ==
    /\ tracer.at = "setup"
    /\ tools' \in [mtr : {"works", "says nothing", "absent"}, traceroute : BOOLEAN]
    /\ tr_cmd' = CASE tools'.mtr = "works"                        -> "mtr"
                   [] tools'.mtr = "absent" /\ ~tools'.traceroute -> "none"
                   [] OTHER                                       -> "traceroute"
    /\ tracer' = [tracer EXCEPT !.at = "idle"]
    /\ UNCHANGED <<q_lock, queue, routes, caller, asked>>

TakeFirst ==
    /\ tracer' = [at |-> "tracing", target |-> Head(queue)]
    /\ queue' = Tail(queue)

\* With nothing in the queue the thread waits, and everybody may have the lock.
GetFromQueue ==
    /\ tracer.at = "idle" /\ q_lock \in {"nobody", "tracer"}
    /\ IF queue = << >>
       THEN /\ tracer' = [tracer EXCEPT !.at = "waiting"] /\ q_lock' = "nobody"
            /\ UNCHANGED queue
       ELSE TakeFirst /\ UNCHANGED q_lock
    /\ UNCHANGED <<tools, tr_cmd, routes, caller, asked>>

WakeUp ==
    /\ tracer.at = "notified" /\ q_lock = "nobody"
    /\ q_lock' = "tracer"
    /\ TakeFirst
    /\ UNCHANGED <<tools, tr_cmd, routes, caller, asked>>

Works(cmd) == cmd = "mtr" \/ (cmd = "traceroute" /\ tools.traceroute)

\* do_traceroutes: without a program that works there is an exception, and the
\* target is not tried again.
Trace ==
    /\ tracer.at = "tracing"
    /\ routes' = [routes EXCEPT ![tracer.target] = IF Works(tr_cmd) THEN "found" ELSE @]
    /\ tracer' = [at |-> "idle", target |-> Nothing]
    /\ UNCHANGED <<tools, tr_cmd, q_lock, queue, caller, asked>>

Tracing == Setup \/ GetFromQueue \/ WakeUp \/ Trace

\* route_to answers at once if there is no program, or the route is known or
\* asked for; but while the thread looks for a program it always enqueues.
RouteTo(c, t) ==
    /\ caller[c] = Nothing /\ asked < MaxAsked
    /\ asked' = asked + 1
    /\ caller' = [caller EXCEPT ![c] =
                    IF \/ tr_cmd = "calculating"
                       \/ (tr_cmd # "none" /\ routes[t] = "unknown")
                    THEN t ELSE @]
    /\ UNCHANGED <<tools, tr_cmd, tracer, q_lock, queue, routes>>

\* Bug: nobody is notified.
EnqueueQuietly(c) ==
    /\ caller[c] # Nothing /\ q_lock = "nobody"
    /\ queue' = Append(queue, caller[c])
    /\ routes' = [routes EXCEPT ![caller[c]] = "waiting"]
    /\ caller' = [caller EXCEPT ![c] = Nothing]
    /\ UNCHANGED <<tools, tr_cmd, tracer, q_lock, asked>>

Enqueue(c) ==
    /\ caller[c] # Nothing /\ q_lock = "nobody"
    /\ queue' = Append(queue, caller[c])
    /\ routes' = [routes EXCEPT ![caller[c]] = "waiting"]
    /\ tracer' = [tracer EXCEPT !.at = IF @ = "waiting" THEN "notified" ELSE @]
    /\ caller' = [caller EXCEPT ![c] = Nothing]
    /\ UNCHANGED <<tools, tr_cmd, q_lock, asked>>

TraceNext == Tracing \/ \E c \in Callers : Enqueue(c) \/ \E t \in Targets : RouteTo(c, t)

-----------------------------------------------------------------------------
(* Properties *)

\* A route that is asked for is found, although callers wait for a lock that the
\* thread keeps while it traces, if the program it has settled on works.
TargetsAreTraced ==
    \A c \in Callers, t \in Targets :
        (caller[c] = t) ~> (routes[t] = "found" \/ (tr_cmd # "calculating" /\ ~Works(tr_cmd)))
=============================================================================
