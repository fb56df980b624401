------------------------------- MODULE Server -------------------------------
(***************************************************************************)
(* The life of the agent's process: main() (server/src/main.cpp), the      *)
(* start and the stop of Server (server/src/lib/server.cpp), the signals   *)
(* of Daemon (server/src/lib/daemon.cpp), and systemd, which starts it     *)
(* again whenever it ends.                                                 *)
(***************************************************************************)
EXTENDS Naturals

CONSTANT MaxTroubles   \* bound: signals, failures and crashes in all

ASSUME TroublesAssumption == MaxTroubles \in Nat

VARIABLES
    phase,        \* how far main() is
    onInterrupt,  \* what SIGINT does: "default" ends the process
    stopFired,    \* Server::stop was fired before main() waits for it
    troubles      \* how many of MaxTroubles there were

lifeVars == <<phase, onInterrupt, stopFired, troubles>>

(***************************************************************************)
(*   off         there is no process                                       *)
(*   starting    the configuration is loaded, signals have their defaults  *)
(*   connecting  Server::run: the handlers are installed and the slots     *)
(*               connected, the bus is not                                 *)
(*   serving     both queues are subscribed, main() is not yet in wait()   *)
(*   waiting     main() is in Server::wait                                 *)
(*   stopping    main() is in Server::shutdown, the pool is being stopped  *)
(*   leaving     the pool is gone, the bus is still connected              *)
(***************************************************************************)
Phases == {"off", "starting", "connecting", "serving", "waiting", "stopping",
           "leaving"}

LifeInit ==
    /\ phase = "off"
    /\ onInterrupt = "default"
    /\ stopFired = FALSE
    /\ troubles = 0

-----------------------------------------------------------------------------
(* main() *)

Goto(p) ==
    /\ phase' = p
    /\ UNCHANGED <<onInterrupt, stopFired>>

\* Restart=always: whatever ended the process, it is started again.
Start ==
    /\ phase = "off"
    /\ phase' = "starting"
    /\ onInterrupt' = "default"
    /\ stopFired' = FALSE
    /\ UNCHANGED troubles

\* Daemon::instance() is made by the first line of Server::run.
InstallHandlers ==
    /\ phase = "starting"
    /\ phase' = "connecting"
    /\ onInterrupt' = "handled"
    /\ UNCHANGED <<stopFired, troubles>>

Subscribe ==
    /\ phase = "connecting"
    /\ Goto("serving")
    /\ UNCHANGED troubles

Wait ==
    /\ phase = "serving"
    /\ Goto(IF stopFired THEN "stopping" ELSE "waiting")
    /\ UNCHANGED troubles

StopPool ==
    /\ phase = "stopping"
    /\ Goto("leaving")
    /\ UNCHANGED troubles

\* MUTANT: the service is started again on failure only.
ExitForGood ==
    /\ phase = "leaving"
    /\ Goto("ended")
    /\ UNCHANGED troubles

Exit ==
    /\ phase = "leaving"
    /\ Goto("off")
    /\ UNCHANGED troubles

-----------------------------------------------------------------------------
(* Troubles *)

Trouble ==
    /\ phase # "off"
    /\ troubles < MaxTroubles
    /\ troubles' = troubles + 1

\* The configuration cannot be read, the bus not be connected or subscribed;
\* SIGTERM, which has no handler; SIGHUP before its handler is installed; a
\* crash.
Die ==
    /\ Trouble
    /\ Goto("off")

\* SIGINT.  The handler fires stopEvent and with it Server::stop, and gives
\* SIGINT its default back.  A stop that nobody waits for yet may be lost.
Interrupt ==
    /\ Trouble
    /\ \/ onInterrupt = "default" /\ Goto("off")
       \/ /\ onInterrupt = "handled"
          /\ onInterrupt' = "default"
          /\ \/ phase = "waiting" /\ phase' = "stopping" /\ UNCHANGED stopFired
             \/ /\ phase # "waiting" /\ UNCHANGED phase
                /\ stopFired' \in {stopFired, TRUE}

\* SIGHUP: the configuration is read again, and what becomes of that is not
\* looked at.
Reload ==
    /\ Trouble
    /\ phase # "starting"
    /\ UNCHANGED <<phase, onInterrupt, stopFired>>

-----------------------------------------------------------------------------
\* Messages reach Server::process.
Subscribed == phase \in {"serving", "waiting", "stopping", "leaving"}

LifeTypeOK ==
    /\ phase \in Phases
    /\ onInterrupt \in {"default", "handled"}
    /\ stopFired \in BOOLEAN
    /\ troubles \in 0 .. MaxTroubles

=============================================================================
