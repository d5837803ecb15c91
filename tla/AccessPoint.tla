---------------------------- MODULE AccessPoint ----------------------------
(***************************************************************************)
(* What the binding promises to a client that operates the access point     *)
(* alone: a state, a service of two daemons, and one request at a time.     *)
(* The process may die and be started again, and the daemons do not notice. *)
(* WifiAp implements it (WifiApPromise, PromiseKept).                       *)
(***************************************************************************)
VARIABLES
  state,      \* what the binding believes: "off", "on" or "failed"
  service,    \* the daemons: "down", "half" (one of them runs) or "up"
  request,    \* the request being served, or "none"; "init" is the first start,
              \* which the process makes of itself
  alive       \* the process runs

promiseVars == <<state, service, request, alive>>

\* A start of an access point that is on has nothing to do.
NothingToDo == request = "start" /\ state = "on"

Busy == request # "none" /\ ~NothingToDo

\* A stop launches nothing.
Lower == [down |-> {"down"}, half |-> {"down", "half"}, up |-> {"down", "half", "up"}]

Init ==
  /\ state = "off" /\ service = "down" /\ alive = TRUE
  /\ request \in {"none", "init"}

Ask ==
  /\ alive /\ request = "none"
  /\ request' \in {"start", "stop", "restart"}
  /\ UNCHANGED <<state, service, alive>>

\* Daemons are launched and killed, or something is found to fail.
Work ==
  /\ alive /\ Busy
  /\ service' \in (IF request = "stop" THEN Lower[service] ELSE {"down", "half", "up"})
  /\ state' \in {state, "failed"}
  /\ UNCHANGED <<request, alive>>

\* The request is over.  The client of a start or a stop is told so, that of a restart
\* learns it from a later request only.
EndWith(result) ==
  /\ alive
  /\ request' = "none"
  /\ state' = result
  /\ UNCHANGED service

Started == Busy /\ request # "stop" /\ service = "up" /\ EndWith("on") /\ UNCHANGED alive

Stopped == request = "stop" /\ service = "down" /\ EndWith("off") /\ UNCHANGED alive

\* The process gives up when its first start fails.
Failed == Busy /\ EndWith("failed") /\ alive' = (request # "init")

\* A restart of what was never started, or failed to, may do nothing.
Ignored ==
  /\ NothingToDo \/ (request = "restart" /\ state # "on")
  /\ EndWith(state) /\ UNCHANGED alive

Death == alive /\ alive' = FALSE /\ UNCHANGED <<state, service, request>>

\* A new process knows nothing of the daemons it finds, and leaves them alone until it
\* has something to do.
Birth ==
  /\ ~alive /\ alive' = TRUE
  /\ state' = "off"
  /\ request' \in {"none", "init"}
  /\ UNCHANGED service

Next == Ask \/ Work \/ Started \/ Stopped \/ Failed \/ Ignored \/ Death \/ Birth

Spec == Init /\ [][Next]_promiseVars
=============================================================================
