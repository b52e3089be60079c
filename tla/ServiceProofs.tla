---------------------------- MODULE ServiceProofs ---------------------------
(* Proofs about the entries of processes in consul, for every number of       *)
(* processes and ports.                                                       *)
(*                                                                            *)
(* The inductive invariant ties an entry to the point its process is at: only *)
(* a process that holds a port has one, two that hold the same port are the   *)
(* same, and the entry of a process that runs is critical only after it has   *)
(* failed a check.                                                            *)
EXTENDS Service, TLAPS

Running == {"registered", "notified", "waiting", "stopping"}
Places == {"start", "listening", "exited", "dead"} \cup Running
Entries == {"none", "unchecked", "passing", "critical"}

ServiceTypeOK ==
    /\ main \in [Processes -> Places]
    /\ serving \subseteq Processes
    /\ port \in [Processes -> Ports \cup {NoPort}]
    /\ entry \in [Processes -> Entries]
    /\ flapped \subseteq Processes

HoldsPort == \A p \in Processes : main[p] \in {"listening"} \cup Running => port[p] \in Ports

NoEntryYet ==
    \A p \in Processes : main[p] \in {"start", "listening", "exited"} => entry[p] = "none"

OneHolder ==
    \A p, q \in Processes :
        ~Over(p) /\ ~Over(q) /\ port[p] \in Ports /\ port[p] = port[q] => p = q

Listed ==
    \A p \in Processes \ flapped :
        main[p] \in Running => entry[p] \in {"unchecked", "passing"}

ServiceInv == ServiceTypeOK /\ HoldsPort /\ NoEntryYet /\ OneHolder /\ Listed

LEMMA ServiceInvInit == ServiceInit => ServiceInv
BY ServiceAssumption DEF ServiceInit, ServiceInv, ServiceTypeOK, Running, Places, Entries, HoldsPort,
   NoEntryYet, OneHolder, Listed, NoPort

(* A step that changes where process p is and what its entry says, and        *)
(* neither listens nor passes a check.                                        *)
LEMMA MovingOn ==
    ASSUME ServiceInv, NEW p \in Processes, NEW place \in Places \ {"start"}, NEW e \in Entries,
           ~Over(p),
           main' = [main EXCEPT ![p] = place],
           entry' = [entry EXCEPT ![p] = e],
           UNCHANGED <<port, flapped>>,
           serving' \subseteq Processes,
           place \in {"listening"} \cup Running => port[p] \in Ports,
           place \in {"listening", "exited"} => e = "none",
           place \in Running /\ p \notin flapped => e \in {"unchecked", "passing"}
    PROVE  ServiceInv'
<1>1. ServiceTypeOK'
  BY DEF ServiceInv, ServiceTypeOK
<1>2. HoldsPort'
  BY DEF ServiceInv, ServiceTypeOK, HoldsPort
<1>3. NoEntryYet'
  BY DEF ServiceInv, ServiceTypeOK, NoEntryYet
<1>4. OneHolder'
  BY DEF ServiceInv, ServiceTypeOK, OneHolder, Over
<1>5. Listed'
  BY DEF ServiceInv, ServiceTypeOK, Listed
<1> QED
  BY <1>1, <1>2, <1>3, <1>4, <1>5 DEF ServiceInv

LEMMA ListenKeepsServiceInv ==
    ASSUME ServiceInv, NEW p \in Processes, NEW n \in Ports, Listen(p, n) PROVE ServiceInv'
<1> USE DEF Listen, ServiceInv, ServiceTypeOK, Running, Places
<1>1. ServiceTypeOK'
  OBVIOUS
<1>2. HoldsPort'
  BY DEF HoldsPort
<1>3. NoEntryYet'
  BY DEF NoEntryYet
<1>4. OneHolder'
  BY DEF OneHolder, Over, Held
<1>5. Listed'
  BY DEF Listed
<1> QED
  BY <1>1, <1>2, <1>3, <1>4, <1>5

(* A step of consul on the entry of p.                                        *)
LEMMA ConsulKeepsServiceInv ==
    ASSUME ServiceInv, NEW p \in Processes,
           CheckPasses(p) \/ CheckFails(p) \/ CheckTimesOut(p) \/ Reap(p)
    PROVE  ServiceInv'
<1>1. PICK e \in Entries :
         /\ entry' = [entry EXCEPT ![p] = e]
         /\ UNCHANGED <<main, serving, port>>
         /\ entry[p] # "none"
         /\ flapped' \in {flapped, flapped \cup {p}}
         /\ p \notin flapped' => e = "passing" \/ Over(p) \/ entry[p] = "critical"
  BY DEF CheckPasses, CheckFails, CheckTimesOut, Reap, Entries
<1>2. ServiceTypeOK'
  BY <1>1 DEF ServiceInv, ServiceTypeOK
<1>3. HoldsPort' /\ OneHolder'
  BY <1>1 DEF ServiceInv, HoldsPort, OneHolder, Over
<1>4. NoEntryYet'
  BY <1>1 DEF ServiceInv, ServiceTypeOK, NoEntryYet
<1>5. Listed'
  BY <1>1 DEF ServiceInv, ServiceTypeOK, Listed, Running, Over
<1> QED
  BY <1>2, <1>3, <1>4, <1>5 DEF ServiceInv

LEMMA ServiceInvNext == ServiceInv /\ [ServiceNext]_serviceVars => ServiceInv'
<1> SUFFICES ASSUME ServiceInv, [ServiceNext]_serviceVars PROVE ServiceInv'
  OBVIOUS
<1>1. CASE UNCHANGED serviceVars
  BY <1>1 DEF serviceVars, ServiceInv, ServiceTypeOK, HoldsPort, NoEntryYet, OneHolder, Listed, Over
<1>2. ASSUME NEW p \in Processes, NEW n \in Ports, ListenFails(p, n) PROVE ServiceInv'
  <2>1. entry[p] = "none" /\ entry' = [entry EXCEPT ![p] = "none"]
    BY <1>2 DEF ListenFails, ServiceInv, ServiceTypeOK, NoEntryYet
  <2> QED
    BY <1>2, <2>1, MovingOn DEF ListenFails, End, Over, Places, Running, Entries, ServiceInv, ServiceTypeOK
<1>3. ASSUME NEW p \in Processes, Register(p) PROVE ServiceInv'
  BY <1>3, MovingOn
     DEF Register, Over, Places, Running, Entries, ServiceInv, ServiceTypeOK, HoldsPort
<1>4. ASSUME NEW p \in Processes, RegisterFails(p) \/ DeRegisterFails(p) \/ Die(p)
      PROVE  ServiceInv'
  <2>1. PICK e \in Entries : entry' = [entry EXCEPT ![p] = e]
    BY <1>4 DEF RegisterFails, DeRegisterFails, Die, Entries, ServiceInv, ServiceTypeOK
  <2> QED
    BY <1>4, <2>1, MovingOn
       DEF RegisterFails, DeRegisterFails, Die, End, Over, Places, Running, ServiceInv, ServiceTypeOK
<1>5. ASSUME NEW p \in Processes, Notify(p) \/ Wait(p) \/ Signal(p) PROVE ServiceInv'
  <2>1. PICK place \in Running :
           /\ main' = [main EXCEPT ![p] = place]
           /\ main[p] \in Running
           /\ UNCHANGED <<serving, port, entry, flapped>>
    BY <1>5 DEF Notify, Wait, Signal, Running
  <2>2. entry' = [entry EXCEPT ![p] = entry[p]] /\ entry[p] \in Entries
    BY <2>1 DEF ServiceInv, ServiceTypeOK
  <2>3. port[p] \in Ports /\ (p \notin flapped => entry[p] \in {"unchecked", "passing"})
    BY <2>1 DEF ServiceInv, HoldsPort, Listed
  <2>4. place \in Places \ {"start"} /\ place \notin {"listening", "exited"} /\ ~Over(p)
    BY <2>1 DEF Places, Running, Over
  <2> QED
    BY <2>1, <2>2, <2>3, <2>4, MovingOn DEF ServiceInv, ServiceTypeOK
<1>6. ASSUME NEW p \in Processes, DeRegister(p) PROVE ServiceInv'
  BY <1>6, MovingOn
     DEF DeRegister, End, Over, Places, Running, Entries, ServiceInv, ServiceTypeOK
<1>7. ASSUME NEW p \in Processes, Serve(p) PROVE ServiceInv'
  BY <1>7 DEF Serve, ServiceInv, ServiceTypeOK, HoldsPort, NoEntryYet, OneHolder, Listed, Over
<1> QED
  BY <1>1, <1>2, <1>3, <1>4, <1>5, <1>6, <1>7, ListenKeepsServiceInv, ConsulKeepsServiceInv
     DEF ServiceNext

LEMMA ServiceInvGivesOneEntry == ServiceInv => OneEntryPerPort
<1> SUFFICES ASSUME ServiceInv, NEW p \in Processes, NEW q \in Processes,
                    p # q, entry[p] # "none", entry[q] # "none", port[p] = port[q],
                    main[p] # "dead", main[q] # "dead"
             PROVE  FALSE
  BY DEF OneEntryPerPort
<1>1. main[p] \in Running /\ main[q] \in Running
  BY DEF ServiceInv, ServiceTypeOK, NoEntryYet, Places
<1> QED
  BY <1>1 DEF ServiceInv, HoldsPort, OneHolder, Over, Running

(* Two entries of consul for one port mean that the process of one died.      *)
(* main registers after net.Listen has given it the port, and deregisters     *)
(* before it returns and the port is free.                                    *)
THEOREM EntriesOfLivingProcesses == ServiceSpec => []OneEntryPerPort
<1>1. ServiceInit => ServiceInv
  BY ServiceInvInit
<1>2. ServiceInv /\ [ServiceNext]_serviceVars => ServiceInv'
  BY ServiceInvNext
<1>3. ServiceInv => OneEntryPerPort
  BY ServiceInvGivesOneEntry
<1> QED
  BY <1>1, <1>2, <1>3, PTL DEF ServiceSpec

(* A process between Register and DeRegister is in consul unless it failed a  *)
(* check: no step of another process, which has an id of its own, takes its   *)
(* entry away.                                                                *)
THEOREM LivingProcessesAreListed == ServiceSpec => []RunningIsListed
<1>1. ServiceInit => ServiceInv
  BY ServiceInvInit
<1>2. ServiceInv /\ [ServiceNext]_serviceVars => ServiceInv'
  BY ServiceInvNext
<1>3. ServiceInv => RunningIsListed
  BY DEF ServiceInv, Listed, Running, RunningIsListed
<1> QED
  BY <1>1, <1>2, <1>3, PTL DEF ServiceSpec
=============================================================================
