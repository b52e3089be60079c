------------------------------- MODULE Service ------------------------------
(* One process of a service from its start to its end, and its entry in       *)
(* consul (order_srv/main.go and utils/register/consul; the other services do *)
(* the same).  Every process registers under an id of its own, for the port   *)
(* it listens on; consul checks the port, whoever answers there.              *)
EXTENDS Naturals

CONSTANTS
    Processes,      \* processes that are started, each once
    Ports

ASSUME ServiceAssumption == Ports \subseteq Nat \ {0}

VARIABLES
    main,           \* where main is
    serving,        \* processes whose goroutine is in Serve
    port,           \* the port a process listened on, and its entry names
    entry,          \* the entry of a process in consul
    flapped         \* processes that failed a check while they lived

serviceVars == <<main, serving, port, entry, flapped>>

NoPort == 0

ServiceInit ==
    /\ main = [p \in Processes |-> "start"]
    /\ serving = {}
    /\ port = [p \in Processes |-> NoPort]
    /\ entry = [p \in Processes |-> "none"]
    /\ flapped = {}

Over(p) == main[p] \in {"exited", "dead"}

(* Process p holds its port until it is over.                                 *)
Held(n) == \E p \in Processes : port[p] = n /\ ~Over(p)

(* Somebody answers the check of p's entry.                                   *)
Answered(p) == \E q \in serving : port[q] = port[p]

(* Process p is over: its goroutines and its port go with it.                 *)
End(p, how) ==
    /\ main' = [main EXCEPT ![p] = how]
    /\ serving' = serving \ {p}

-----------------------------------------------------------------------------
Listen(p, n) ==
    /\ main[p] = "start"
    /\ ~Held(n)
    /\ main' = [main EXCEPT ![p] = "listening"]
    /\ port' = [port EXCEPT ![p] = n]
    /\ UNCHANGED <<serving, entry, flapped>>

(* The port is taken: log.Fatalln, before anything is registered.             *)
ListenFails(p, n) ==
    /\ main[p] = "start"
    /\ Held(n)
    /\ End(p, "exited")
    /\ UNCHANGED <<port, entry, flapped>>

(* Mutant: the id is the name of the service, the same for every process.     *)
RegisterByName(p) ==
    /\ main[p] = "listening"
    /\ main' = [main EXCEPT ![p] = "registered"]
    /\ entry' = [q \in Processes |-> IF q = p THEN "unchecked" ELSE "none"]
    /\ UNCHANGED <<serving, port, flapped>>

(* Register: consul takes the entry as critical until its first check.        *)
Register(p) ==
    /\ main[p] = "listening"
    /\ main' = [main EXCEPT ![p] = "registered"]
    /\ entry' = [entry EXCEPT ![p] = "unchecked"]
    /\ UNCHANGED <<serving, port, flapped>>

(* Register panics, consul having taken the entry or not.                     *)
RegisterFails(p) ==
    /\ main[p] = "listening"
    /\ entry' \in {entry, [entry EXCEPT ![p] = "unchecked"]}
    /\ End(p, "dead")
    /\ UNCHANGED <<port, flapped>>

(* The goroutine that main starts gets to Serve.                              *)
Serve(p) ==
    /\ main[p] \in {"registered", "notified", "waiting", "stopping"}
    /\ p \notin serving
    /\ serving' = serving \cup {p}
    /\ UNCHANGED <<main, port, entry, flapped>>

(* signal.Notify takes the signals over from the runtime, which would kill.   *)
Notify(p) ==
    /\ main[p] = "registered"
    /\ main' = [main EXCEPT ![p] = "notified"]
    /\ UNCHANGED <<serving, port, entry, flapped>>

(* main waits on the channel.  It has no buffer: a signal that comes between  *)
(* Notify and this point is dropped.                                          *)
Wait(p) ==
    /\ main[p] = "notified"
    /\ main' = [main EXCEPT ![p] = "waiting"]
    /\ UNCHANGED <<serving, port, entry, flapped>>

Signal(p) ==
    /\ main[p] = "waiting"
    /\ main' = [main EXCEPT ![p] = "stopping"]
    /\ UNCHANGED <<serving, port, entry, flapped>>

(* Mutant: main returns without DeRegister.                                   *)
ReturnRegistered(p) ==
    /\ main[p] = "stopping"
    /\ End(p, "exited")
    /\ UNCHANGED <<port, entry, flapped>>

(* The consumer and the tracer are shut down, DeRegister removes the entry    *)
(* and main returns, with whatever calls the server is in.                    *)
DeRegister(p) ==
    /\ main[p] = "stopping"
    /\ entry' = [entry EXCEPT ![p] = "none"]
    /\ End(p, "exited")
    /\ UNCHANGED <<port, flapped>>

(* consul does not take the entry away.  inventory_srv, order_srv and         *)
(* userop_srv panic; goods_srv and user_srv log it and main returns.  Either  *)
(* way the process is gone and its entry is not, which is what "dead" means.  *)
DeRegisterFails(p) ==
    /\ main[p] = "stopping"
    /\ End(p, "dead")
    /\ UNCHANGED <<port, entry, flapped>>

(* A signal before Notify, a panic, log.Fatalln of Serve, a kill.             *)
Die(p) ==
    /\ ~Over(p)
    /\ End(p, "dead")
    /\ UNCHANGED <<port, entry, flapped>>

-----------------------------------------------------------------------------
(* consul                                                                     *)

CheckPasses(p) ==
    /\ entry[p] \in {"unchecked", "critical"}
    /\ Answered(p)
    /\ entry' = [entry EXCEPT ![p] = "passing"]
    /\ UNCHANGED <<main, serving, port, flapped>>

CheckFails(p) ==
    /\ entry[p] \in {"unchecked", "passing"}
    /\ ~Answered(p)
    /\ entry' = [entry EXCEPT ![p] = "critical"]
    /\ flapped' = IF Over(p) THEN flapped ELSE flapped \cup {p}
    /\ UNCHANGED <<main, serving, port>>

(* The server is there and does not answer within 5 seconds.                  *)
CheckTimesOut(p) ==
    /\ entry[p] \in {"unchecked", "passing"}
    /\ Answered(p)
    /\ entry' = [entry EXCEPT ![p] = "critical"]
    /\ flapped' = IF Over(p) THEN flapped ELSE flapped \cup {p}
    /\ UNCHANGED <<main, serving, port>>

(* Mutant: the check names no DeregisterCriticalServiceAfter.                 *)
ReapNever(p) == FALSE /\ UNCHANGED serviceVars

(* DeregisterCriticalServiceAfter: an entry that stays critical is removed.   *)
(* The process does not register again.                                       *)
Reap(p) ==
    /\ entry[p] = "critical"
    /\ entry' = [entry EXCEPT ![p] = "none"]
    /\ UNCHANGED <<main, serving, port, flapped>>

ServiceNext ==
    \E p \in Processes :
        \/ \E n \in Ports : Listen(p, n)
        \/ \E n \in Ports : ListenFails(p, n)
        \/ Register(p)
        \/ RegisterFails(p)
        \/ Serve(p)
        \/ Notify(p)
        \/ Wait(p)
        \/ Signal(p)
        \/ DeRegister(p)
        \/ DeRegisterFails(p)
        \/ Die(p)
        \/ CheckPasses(p)
        \/ CheckFails(p)
        \/ CheckTimesOut(p)
        \/ Reap(p)

(* consul checks every entry again and again, and removes those that stay     *)
(* critical.                                                                  *)
ServiceFairness ==
    \A p \in Processes : WF_serviceVars(CheckPasses(p) \/ CheckFails(p)) /\ WF_serviceVars(Reap(p))

ServiceSpec == ServiceInit /\ [][ServiceNext]_serviceVars /\ ServiceFairness

-----------------------------------------------------------------------------
(* Properties.                                                                *)

(* Two entries of consul name the same port only if the process of one of     *)
(* them died without taking its entry away: a process registers after it has  *)
(* the port, and gives its entry up before the port.                          *)
OneEntryPerPort ==
    \A p, q \in Processes :
        /\ p # q
        /\ entry[p] # "none"
        /\ entry[q] # "none"
        /\ port[p] = port[q]
        => main[p] = "dead" \/ main[q] = "dead"

(* A process that runs is in consul, unless it failed a check: consul drops   *)
(* it for good then, though it lives.  No process takes the entry of another, *)
(* as the comment in goods_srv/main.go says of processes with one id.         *)
RunningIsListed ==
    \A p \in Processes \ flapped :
        main[p] \in {"registered", "notified", "waiting", "stopping"} => entry[p] # "none"

(* The entry of a process that died leaves consul, unless another process     *)
(* listens on its port: its answers keep the dead one's entry alive.          *)
EntriesLeave ==
    \A p \in Processes : main[p] = "dead" ~> (entry[p] = "none" \/ Answered(p))
=============================================================================
