----------------------------- MODULE FleetProofs -----------------------------
(***************************************************************************)
(* What is proved of Fleet: for any number of invocations, caches and port *)
(* bases, and unless a theorem says otherwise for every fault.             *)
(***************************************************************************)
EXTENDS Fleet, TLAPS

\* A process is at a step of its own command.
PlaceAt(p) ==
    /\ pc[p] = "discover" => kind[p] \in {"up", "print"}
    /\ pc[p] = "volume" => kind[p] \in {"up", "import"}
    /\ pc[p] = "state" => kind[p] \in {"up", "down", "purge", "gc"}
    /\ pc[p] \in {"start", "run"} => kind[p] = "up"
    /\ pc[p] = "rm" => kind[p] \in {"down", "purge"}
    /\ pc[p] = "volrm" => kind[p] = "purge"
    /\ pc[p] \in {"stop", "sweep", "sweeping", "restart"} => kind[p] = "gc"
    /\ pc[p] = "exists" => kind[p] = "export"
    /\ pc[p] \in {"tar", "taring"} => kind[p] \in {"export", "import"}
    /\ kind[p] \in Runs[p] \cup {"none"}
PlaceInv == \A p \in Proc : PlaceAt(p)

\* One that has not begun has done nothing yet.
RestAt(p) ==
    pc[p] = "idle" => at[p] = 1 /\ found[p] = {} /\ helper[p] = {} /\ verdict[p] = "none" /\ kind[p] = "none"
RestInv == \A p \in Proc : RestAt(p)

\* Beside a command that is alone nothing else is active.
AloneInv == \A p, q \in Proc : alone[p] /\ Active(q) => q = p

\* A container has a port, and running ones have different ports.
PortsInv ==
    /\ \A c \in Cache : published[c] = NoPort <=> ctr[c] = "absent"
    /\ \A c, d \in Cache : c # d /\ ctr[c] = "running" /\ ctr[d] = "running" => published[c] # published[d]

\* No SIGINT, no cancelled context.
CalmInv == "interrupt" \notin Faults => \A p \in Proc : ~cancelled[p]

FleetInv == TypeOK /\ PlaceInv /\ RestInv /\ AloneInv /\ PortsInv /\ CalmInv

\* What a print-registries that is alone has asked for so far is what is there.
LookInv ==
    \A p \in Proc : alone[p] /\ kind[p] = "print" /\ ~cancelled[p] =>
        /\ pc[p] = "discover" => \A c \in Cache : c < at[p] => ports[p][c] = published[c]
        /\ pc[p] = "done" /\ verdict[p] # "killed" => \A c \in Cache : ports[p][c] = published[c]

\* What an up that is alone has passed is up.
UpAt(p) ==
    /\ pc[p] \in {"volume", "state", "start", "run"} => \A c \in Cache : c < at[p] => Brought(c)
    /\ pc[p] \in {"state", "start", "run"} => vol[at[p]]
    /\ pc[p] = "start" => ctr[at[p]] = "stopped"
    /\ pc[p] = "run" => ctr[at[p]] = "absent"
    /\ pc[p] = "done" /\ verdict[p] # "killed" => Conflict(p) \/ (verdict[p] = "ok" /\ \A c \in Cache : Brought(c))
UpInv == \A p \in Proc : alone[p] /\ kind[p] = "up" /\ ~cancelled[p] => UpAt(p)

\* What a gc that is alone has stopped runs, but for the cache it is at, whose
\* port nothing has taken: until it is started again, or for good when its stop
\* or its start was cut short.
LeftAt(p) == cancelled[p] /\ pc[p] = "done" /\ verdict[p] = "error"
GcAt(p) ==
    (pc[p] = "done" => verdict[p] # "killed") =>
       /\ \A c \in found[p] :
             ctr[c] = "running" \/ (c = at[p] /\ (pc[p] \in {"sweep", "sweeping", "restart"} \/ LeftAt(p)))
       /\ pc[p] \in {"sweep", "sweeping", "restart"} => ctr[at[p]] = "stopped" /\ PortFree(at[p], published[at[p]])
       /\ pc[p] = "stop" => ctr[at[p]] = "running"
GcInv == \A p \in Proc : alone[p] /\ kind[p] = "gc" => GcAt(p)

\* A helper outlives its process only when that was killed or interrupted.
HelperAt(p) ==
    /\ verdict[p] = "killed" => pc[p] = "done"
    /\ helper[p] # {} => pc[p] \in {"sweeping", "taring"} \/ LeavesHelper(p)
NoHelperLeft == \A p \in Proc : ~LeavesHelper(p)

\* What a down --purge that is alone has passed is gone, if no helper was left.
PurgeAt(p) ==
    /\ pc[p] \in {"state", "rm", "volrm"} => \A c \in Cache : c < at[p] => ctr[c] = "absent" /\ ~vol[c]
    /\ pc[p] = "volrm" => ctr[at[p]] = "absent"
    /\ pc[p] = "done" /\ verdict[p] = "ok" => \A c \in Cache : ~vol[c]
PurgeInv ==
    \A p \in Proc :
        /\ HelperAt(p)
        /\ NoHelperLeft /\ alone[p] /\ kind[p] = "purge" /\ ~cancelled[p] => PurgeAt(p)

\* With one gc, no up and no SIGINT nothing starts what gc sweeps.
SingleGc ==
    /\ "interrupt" \notin Faults
    /\ \A p \in Proc : "up" \notin Runs[p]
    /\ \A p, q \in Proc : "gc" \in Runs[p] /\ "gc" \in Runs[q] => p = q
SweepAt(p) ==
    /\ helper[p] \subseteq {at[p]}
    /\ helper[p] # {} => pc[p] \in {"sweeping", "done"}
    /\ pc[p] \in {"sweep", "sweeping"} \/ helper[p] # {} => ctr[at[p]] # "running"
\* Neither does anything start what a gc sweeps that is alone.
SweptInv == \A p \in Proc : alone[p] /\ kind[p] = "gc" /\ ~cancelled[p] => SweepAt(p)
SweepInv == SingleGc => \A p \in Proc : kind[p] = "gc" => SweepAt(p)

-----------------------------------------------------------------------------
(* Types *)

\* Positions in the loop, and ports.
LEMMA Numbers ==
    /\ 1 \in Cache /\ \A c \in Cache : c < NumCaches => c + 1 \in Cache
    /\ NoPort \in Ports /\ NoPort \notin Flags
    /\ \A b \in Flags \cup {DefaultBase}, c \in Cache : b + c - 1 \in Ports /\ b + c - 1 # NoPort
<1>1. 1 \in Cache /\ \A c \in Cache : c < NumCaches => c + 1 \in Cache
  BY FleetAssumption DEF Cache
<1>2. NoPort \in Ports /\ NoPort \notin Flags
  BY FleetAssumption DEF Ports, NoPort
<1>3. ASSUME NEW b \in Flags \cup {DefaultBase}, NEW c \in Cache PROVE b + c - 1 \in Ports /\ b + c - 1 # NoPort
  <2>1. b \in Nat \ {0} /\ c \in Nat \ {0}
    BY FleetAssumption DEF Cache
  <2>2. b + c - 1 \in Ports
    BY DEF Ports
  <2> QED  BY <2>1, <2>2 DEF NoPort
<1> QED  BY <1>1, <1>2, <1>3

\* Engine.Port is a port.
LEMMA PortOfIsPort ==
    ASSUME TypeOK, NEW p \in Proc, NEW c \in Cache
    PROVE  PortOf(p, c) \in Ports /\ PortOf(p, c) # NoPort
  BY Numbers DEF TypeOK, PortOf

\* The types in three parts: the runtime, where a process is, what it remembers.
RuntimeTypes ==
    /\ ctr \in [Cache -> {"absent", "stopped", "running"}]
    /\ published \in [Cache -> Ports]
    /\ vol \in [Cache -> BOOLEAN]
    /\ helper \in [Proc -> SUBSET Cache]
ControlTypes ==
    /\ pc \in [Proc -> PC]
    /\ at \in [Proc -> Cache]
    /\ verdict \in [Proc -> {"none", "ok", "error", "killed"}]
OwnTypes ==
    /\ kind \in [Proc -> Kinds \cup {"none"}]
    /\ flag \in [Proc -> Flags \cup {NoPort}]
    /\ ports \in [Proc -> [Cache -> Ports]]
    /\ found \in [Proc -> SUBSET Cache]
    /\ alone \in [Proc -> BOOLEAN]
CancelTypes == cancelled \in [Proc -> BOOLEAN]

\* The parts are all of it.
LEMMA Types == TypeOK <=> RuntimeTypes /\ ControlTypes /\ OwnTypes /\ CancelTypes
  BY DEF TypeOK, RuntimeTypes, ControlTypes, OwnTypes, CancelTypes

\* Ways to go on keep a process at a place.
LEMMA Moves ==
    ASSUME ControlTypes, NEW p \in Proc
    PROVE  /\ \A to \in PC : Goto(p, to) => ControlTypes'
           /\ \A how \in {"ok", "error", "killed"} : End(p, how) => ControlTypes'
           /\ \A first \in PC : Advance(p, first) => ControlTypes'
           /\ Fail(p) => ControlTypes'
<1>1. ASSUME NEW to \in PC, Goto(p, to) PROVE ControlTypes'
  BY <1>1 DEF Goto, ControlTypes
<1>2. ASSUME NEW how \in {"ok", "error", "killed"}, End(p, how) PROVE ControlTypes'
  BY <1>2 DEF End, ControlTypes, PC
<1>3. ASSUME NEW first \in PC, Advance(p, first) PROVE ControlTypes'
  <2>1. CASE at[p] < NumCaches
    <3>1. at[p] + 1 \in Cache
      BY <2>1, Numbers DEF ControlTypes
    <3> QED  BY <1>3, <2>1, <3>1 DEF Advance, ControlTypes
  <2>2. CASE ~(at[p] < NumCaches)
    BY <1>2, <1>3, <2>2 DEF Advance
  <2> QED  BY <2>1, <2>2
<1>4. ASSUME Fail(p) PROVE ControlTypes'
  BY <1>4 DEF Fail, ControlTypes, PC
<1> QED  BY <1>1, <1>2, <1>3, <1>4

\* What the runtime does keeps its types.
LEMMA Effects ==
    ASSUME RuntimeTypes
    PROVE  /\ UNCHANGED runtimeVars => RuntimeTypes'
           /\ \A c \in Cache : Starts(c) \/ Stops(c) \/ Removes(c) => RuntimeTypes'
           /\ \A c \in Cache, n \in Ports, state \in {"stopped", "running"} : Creates(c, n, state) => RuntimeTypes'
           /\ \A p \in Proc, caches \in SUBSET Cache : Mounts(p, caches) => RuntimeTypes'
           /\ \A c \in Cache, b \in BOOLEAN :
                 vol' = [vol EXCEPT ![c] = b] /\ UNCHANGED <<ctr, published, helper>> => RuntimeTypes'
           /\ \A p \in Proc : helper' \in {helper, [helper EXCEPT ![p] = {}]} /\ UNCHANGED <<ctr, published, vol>>
                 => RuntimeTypes'
<1> USE DEF RuntimeTypes
<1>1. UNCHANGED runtimeVars => RuntimeTypes'
  BY DEF runtimeVars
<1>2. ASSUME NEW c \in Cache, Starts(c) \/ Stops(c) \/ Removes(c) PROVE RuntimeTypes'
  BY <1>2, Numbers DEF Starts, Stops, Removes
<1>3. ASSUME NEW c \in Cache, NEW n \in Ports, NEW state \in {"stopped", "running"}, Creates(c, n, state)
      PROVE  RuntimeTypes'
  BY <1>3 DEF Creates
<1>4. ASSUME NEW p \in Proc, NEW caches \in SUBSET Cache, Mounts(p, caches) PROVE RuntimeTypes'
  BY <1>4 DEF Mounts
<1>5. ASSUME NEW c \in Cache, NEW b \in BOOLEAN, vol' = [vol EXCEPT ![c] = b], UNCHANGED <<ctr, published, helper>>
      PROVE  RuntimeTypes'
  BY <1>5
<1>6. ASSUME NEW p \in Proc, helper' \in {helper, [helper EXCEPT ![p] = {}]}, UNCHANGED <<ctr, published, vol>>
      PROVE  RuntimeTypes'
  BY <1>6
<1> QED  BY <1>1, <1>2, <1>3, <1>4, <1>5, <1>6

\* SIGINT and the calls under it.
LEMMA CancelKept == ASSUME CancelTypes, NEW p \in Proc PROVE Interrupt(p) \/ UNCHANGED cancelled => CancelTypes'
  BY DEF CancelTypes, Interrupt

\* What a process remembers.
LEMMA OwnKept == ASSUME OwnTypes, UNCHANGED ownVars PROVE OwnTypes'
  BY DEF OwnTypes, ownVars

\* Every step keeps the types.
LEMMA TypeNext == TypeOK /\ PlaceInv /\ [Next]_vars => TypeOK'
<1> SUFFICES ASSUME TypeOK, PlaceInv, [Next]_vars PROVE TypeOK'
    OBVIOUS
<1>t. RuntimeTypes /\ ControlTypes /\ OwnTypes /\ CancelTypes
  BY Types
<1>c. /\ PC = {"idle", "discover", "volume", "state", "start", "run", "rm", "volrm", "stop", "sweep",
             "sweeping", "restart", "exists", "tar", "taring", "done"}
      /\ \A p \in Proc : at[p] \in Cache /\ pc[p] \in PC /\ found[p] \subseteq Cache
  BY DEF TypeOK, PC
<1> SUFFICES RuntimeTypes' /\ ControlTypes' /\ OwnTypes' /\ CancelTypes'
    BY DEF TypeOK, RuntimeTypes, ControlTypes, OwnTypes, CancelTypes
<1>1. ASSUME NEW p \in Proc, Begin(p) PROVE RuntimeTypes' /\ ControlTypes' /\ OwnTypes' /\ CancelTypes'
  <2>1. PICK k \in Runs[p], f \in Flags \cup {NoPort} :
           /\ kind' = [kind EXCEPT ![p] = k]
           /\ flag' = [flag EXCEPT ![p] = IF k \in {"up", "print"} THEN f ELSE NoPort]
           /\ pc' = [pc EXCEPT ![p] = FirstStep(k)]
    BY <1>1 DEF Begin
  <2>2. k \in Kinds
    BY FleetAssumption
  <2>3. FirstStep(k) \in PC
    BY <2>2, <1>c DEF FirstStep, Kinds
  <2>4. ControlTypes'
    BY <1>1, <1>t, <2>1, <2>3 DEF Begin, ControlTypes
  <2>5. OwnTypes'
    BY <1>1, <1>t, <2>1, <2>2 DEF Begin, OwnTypes
  <2> QED  BY <1>1, <1>t, <2>4, <2>5, Effects, CancelKept DEF Begin
<1>2. ASSUME NEW p \in Proc, Discover(p) PROVE RuntimeTypes' /\ ControlTypes' /\ OwnTypes' /\ CancelTypes'
  <2>1. ControlTypes'
    <3>1. \/ Advance(p, "discover")
          \/ at' = [at EXCEPT ![p] = 1] /\ pc' = [pc EXCEPT ![p] = "volume"] /\ UNCHANGED verdict
      BY <1>2 DEF Discover
    <3>2. "discover" \in PC /\ "volume" \in PC
      BY <1>c
    <3> QED  BY <3>1, <3>2, <1>t, Moves, Numbers DEF ControlTypes
  <2>2. OwnTypes'
    <3>1. ports' = ports \/ ports' = [ports EXCEPT ![p] = [@ EXCEPT ![at[p]] = published[at[p]]]]
      BY <1>2 DEF Discover
    <3>2. published[at[p]] \in Ports
      BY <1>t, <1>c DEF RuntimeTypes
    <3>3. ports \in [Proc -> [Cache -> Ports]]
      BY <1>t DEF OwnTypes
    <3>4. ports' \in [Proc -> [Cache -> Ports]]
      BY <3>1, <3>2, <3>3, <1>c
    <3> QED  BY <1>2, <3>4, <1>t DEF Discover, OwnTypes
  <2>3. CancelTypes' /\ RuntimeTypes'
    BY <1>2, <1>t, CancelKept, Effects DEF Discover
  <2> QED  BY <2>1, <2>2, <2>3
<1>3. ASSUME NEW p \in Proc, EnsureVolume(p) PROVE RuntimeTypes' /\ ControlTypes' /\ OwnTypes' /\ CancelTypes'
  <2>1. ControlTypes'
    <3>1. Advance(p, "volume") \/ Goto(p, "state") \/ Goto(p, "tar") \/ End(p, "error")
      BY <1>3 DEF EnsureVolume, Query, Call
    <3> QED  BY <3>1, <1>t, <1>c, Moves
  <2>2. RuntimeTypes'
    <3>1. \/ UNCHANGED runtimeVars
          \/ vol' = [vol EXCEPT ![at[p]] = TRUE] /\ UNCHANGED <<ctr, published, helper>>
      BY <1>3 DEF EnsureVolume, Query, Call
    <3> QED  BY <3>1, <1>t, <1>c, Effects
  <2>3. OwnTypes' /\ CancelTypes'
    BY <1>3, <1>t, OwnKept, CancelKept DEF EnsureVolume, Query, Call
  <2> QED  BY <2>1, <2>2, <2>3
<1>4. ASSUME NEW p \in Proc, State(p) PROVE RuntimeTypes' /\ ControlTypes' /\ OwnTypes' /\ CancelTypes'
  <2>1. ControlTypes'
    <3>1. \/ \E to \in {"start", "run", "next", "rm", "volrm", "stop"} : to \in PC /\ Goto(p, to)
          \/ Advance(p, "volume") \/ Advance(p, "state") \/ End(p, "error")
      <4>1. UpSees(ctr[at[p]]) \in {"start", "run", "next"}
        BY <1>c, <1>t DEF UpSees, RuntimeTypes
      <4> QED  BY <1>4, <1>c, <4>1 DEF State, Query, Call
    <3> QED  BY <3>1, <1>t, <1>c, Moves
  <2>2. OwnTypes' /\ CancelTypes' /\ RuntimeTypes'
    BY <1>4, <1>t, OwnKept, CancelKept, Effects DEF State, Query, Call
  <2> QED  BY <2>1, <2>2
<1>5. ASSUME NEW p \in Proc, Start(p) PROVE RuntimeTypes' /\ ControlTypes' /\ OwnTypes' /\ CancelTypes'
  <2>1. Advance(p, "volume") \/ End(p, "error")
    BY <1>5 DEF Start, Call, Refused
  <2>2. UNCHANGED runtimeVars \/ Starts(at[p])
    BY <1>5 DEF Start, Call, Refused
  <2>3. UNCHANGED ownVars /\ (Interrupt(p) \/ UNCHANGED cancelled)
    BY <1>5 DEF Start, Call, Refused
  <2> QED  BY <2>1, <2>2, <2>3, <1>t, <1>c, Moves, Effects, OwnKept, CancelKept
<1>6. ASSUME NEW p \in Proc, Run(p) PROVE RuntimeTypes' /\ ControlTypes' /\ OwnTypes' /\ CancelTypes'
  <2>1. Advance(p, "volume") \/ End(p, "error")
    BY <1>6 DEF Run, Call, Refused
  <2>2. \/ UNCHANGED runtimeVars
        \/ \E state \in {"stopped", "running"} : Creates(at[p], PortOf(p, at[p]), state)
    BY <1>6 DEF Run, Call, Refused
  <2>3. UNCHANGED ownVars /\ (Interrupt(p) \/ UNCHANGED cancelled)
    BY <1>6 DEF Run, Call, Refused
  <2>4. PortOf(p, at[p]) \in Ports
    BY <1>c, PortOfIsPort
  <2> QED  BY <2>1, <2>2, <2>3, <2>4, <1>t, <1>c, Moves, Effects, OwnKept, CancelKept
<1>7. ASSUME NEW p \in Proc, Rm(p) PROVE RuntimeTypes' /\ ControlTypes' /\ OwnTypes' /\ CancelTypes'
  <2>1. Goto(p, "volrm") \/ Advance(p, "state") \/ End(p, "error")
    BY <1>7 DEF Rm, Call, AfterRm
  <2>2. UNCHANGED runtimeVars \/ Removes(at[p])
    BY <1>7 DEF Rm, Call
  <2>3. UNCHANGED ownVars /\ (Interrupt(p) \/ UNCHANGED cancelled)
    BY <1>7 DEF Rm, Call
  <2> QED  BY <2>1, <2>2, <2>3, <1>t, <1>c, Moves, Effects, OwnKept, CancelKept
<1>8. ASSUME NEW p \in Proc, VolumeRm(p) PROVE RuntimeTypes' /\ ControlTypes' /\ OwnTypes' /\ CancelTypes'
  <2>1. Advance(p, "state")
    BY <1>8 DEF VolumeRm, Call
  <2>2. \/ UNCHANGED runtimeVars
        \/ vol' = [vol EXCEPT ![at[p]] = FALSE] /\ UNCHANGED <<ctr, published, helper>>
    BY <1>8 DEF VolumeRm, Call
  <2>3. UNCHANGED ownVars /\ (Interrupt(p) \/ UNCHANGED cancelled)
    BY <1>8 DEF VolumeRm, Call
  <2> QED  BY <2>1, <2>2, <2>3, <1>t, <1>c, Moves, Effects, OwnKept, CancelKept
<1>9. ASSUME NEW p \in Proc, GcStop(p) PROVE RuntimeTypes' /\ ControlTypes' /\ OwnTypes' /\ CancelTypes'
  <2>1. Goto(p, "sweep") \/ End(p, "error")
    BY <1>9 DEF GcStop, Call, Refused
  <2>2. UNCHANGED runtimeVars \/ Stops(at[p])
    BY <1>9 DEF GcStop, StopFirst, Call, Refused
  <2>3. Interrupt(p) \/ UNCHANGED cancelled
    BY <1>9 DEF GcStop, Call, Refused
  <2>4. OwnTypes'
    BY <1>9, <1>t, <1>c DEF GcStop, OwnTypes
  <2> QED  BY <2>1, <2>2, <2>3, <2>4, <1>t, <1>c, Moves, Effects, CancelKept
<1>10. ASSUME NEW p \in Proc, GcSweep(p) PROVE RuntimeTypes' /\ ControlTypes' /\ OwnTypes' /\ CancelTypes'
  <2>1. Goto(p, "sweeping") \/ Fail(p)
    BY <1>10 DEF GcSweep, Call
  <2>2. UNCHANGED runtimeVars \/ Mounts(p, {at[p]})
    BY <1>10 DEF GcSweep, Call
  <2>3. UNCHANGED ownVars /\ (Interrupt(p) \/ UNCHANGED cancelled)
    BY <1>10 DEF GcSweep, Call
  <2> QED  BY <2>1, <2>2, <2>3, <1>t, <1>c, Moves, Effects, OwnKept, CancelKept
<1>11. ASSUME NEW p \in Proc, GcSwept(p) \/ Tarred(p)
       PROVE  RuntimeTypes' /\ ControlTypes' /\ OwnTypes' /\ CancelTypes'
  <2>1. Goto(p, "restart") \/ Fail(p) \/ End(p, "ok") \/ End(p, "error")
    BY <1>11 DEF GcSwept, Tarred, HelperEnds
  <2>2. helper' \in {helper, [helper EXCEPT ![p] = {}]} /\ UNCHANGED <<ctr, published, vol>>
    BY <1>11 DEF GcSwept, Tarred, HelperEnds
  <2>3. UNCHANGED ownVars /\ (Interrupt(p) \/ UNCHANGED cancelled)
    BY <1>11 DEF GcSwept, Tarred, HelperEnds, ownVars
  <2> QED  BY <2>1, <2>2, <2>3, <1>t, <1>c, Moves, Effects, OwnKept, CancelKept
<1>12. ASSUME NEW p \in Proc, GcRestart(p) PROVE RuntimeTypes' /\ ControlTypes' /\ OwnTypes' /\ CancelTypes'
  <2>1. Advance(p, "state") \/ End(p, "error")
    BY <1>12 DEF GcRestart
  <2>2. UNCHANGED runtimeVars \/ Starts(at[p])
    BY <1>12 DEF GcRestart
  <2>3. UNCHANGED ownVars /\ (Interrupt(p) \/ UNCHANGED cancelled)
    BY <1>12 DEF GcRestart, ownVars
  <2> QED  BY <2>1, <2>2, <2>3, <1>t, <1>c, Moves, Effects, OwnKept, CancelKept
<1>13. ASSUME NEW p \in Proc, ExportLooks(p) PROVE RuntimeTypes' /\ ControlTypes' /\ OwnTypes' /\ CancelTypes'
  <2>1. Advance(p, "exists") \/ End(p, "error") \/ Goto(p, "tar")
    BY <1>13 DEF ExportLooks
  <2>2. UNCHANGED runtimeVars /\ (Interrupt(p) \/ UNCHANGED cancelled)
    BY <1>13 DEF ExportLooks
  <2>3. OwnTypes'
    <3>1. \/ UNCHANGED found
          \/ found' = [found EXCEPT ![p] = found[p] \cup {c \in {at[p]} : vol[c]}]
      BY <1>13 DEF ExportLooks
    <3> QED  BY <1>13, <3>1, <1>t, <1>c DEF ExportLooks, OwnTypes
  <2> QED  BY <2>1, <2>2, <2>3, <1>t, <1>c, Moves, Effects, CancelKept
<1>14. ASSUME NEW p \in Proc, Tar(p) PROVE RuntimeTypes' /\ ControlTypes' /\ OwnTypes' /\ CancelTypes'
  <2>1. Goto(p, "taring") \/ End(p, "error")
    BY <1>14 DEF Tar, Call
  <2>2. UNCHANGED runtimeVars \/ \E caches \in SUBSET Cache : Mounts(p, caches)
    BY <1>14, <1>c DEF Tar, Call
  <2>3. UNCHANGED ownVars /\ (Interrupt(p) \/ UNCHANGED cancelled)
    BY <1>14 DEF Tar, Call
  <2> QED  BY <2>1, <2>2, <2>3, <1>t, <1>c, Moves, Effects, OwnKept, CancelKept
<1>15. ASSUME NEW p \in Proc, Kill(p) PROVE RuntimeTypes' /\ ControlTypes' /\ OwnTypes' /\ CancelTypes'
  BY <1>15, <1>t, Moves, Effects, OwnKept, CancelKept DEF Kill, ownVars
<1>16. ASSUME NEW p \in Proc, HelperExits(p) PROVE RuntimeTypes' /\ ControlTypes' /\ OwnTypes' /\ CancelTypes'
  <2>1. helper' \in {helper, [helper EXCEPT ![p] = {}]} /\ UNCHANGED <<ctr, published, vol>>
    BY <1>16 DEF HelperExits
  <2>2. ControlTypes' /\ OwnTypes' /\ CancelTypes'
    BY <1>16, <1>t DEF HelperExits, ControlTypes, OwnTypes, CancelTypes
  <2> QED  BY <2>1, <2>2, <1>t, Effects
<1>17. CASE UNCHANGED vars
  BY <1>17, <1>t DEF vars, runtimeVars, RuntimeTypes, ControlTypes, OwnTypes, CancelTypes
<1> QED
  BY <1>1, <1>2, <1>3, <1>4, <1>5, <1>6, <1>7, <1>8, <1>9, <1>10, <1>11, <1>12, <1>13, <1>14, <1>15, <1>16, <1>17
  DEF Next, Command

-----------------------------------------------------------------------------
(* Whose step it is *)

\* A step of a command that has begun.
Work(p) ==
    \/ Discover(p) \/ EnsureVolume(p) \/ State(p) \/ Start(p) \/ Run(p)
    \/ Rm(p) \/ VolumeRm(p) \/ GcStop(p) \/ GcSweep(p) \/ GcSwept(p) \/ GcRestart(p)
    \/ ExportLooks(p) \/ Tar(p) \/ Tarred(p)

\* What a process has of its own is as it was.
Still(q) ==
    /\ pc'[q] = pc[q] /\ at'[q] = at[q] /\ verdict'[q] = verdict[q]
    /\ kind'[q] = kind[q] /\ flag'[q] = flag[q] /\ ports'[q] = ports[q]
    /\ found'[q] = found[q] /\ cancelled'[q] = cancelled[q]

\* Only a command that runs does anything, and it stays the command it is.
LEMMA WorkIsActive ==
    ASSUME NEW p \in Proc, Work(p) \/ Kill(p)
    PROVE  Active(p) /\ kind' = kind /\ flag' = flag /\ alone' = alone
<1>1. ASSUME Discover(p) \/ EnsureVolume(p) \/ State(p) \/ Start(p) \/ Run(p) \/ Rm(p) \/ VolumeRm(p)
      PROVE  Active(p) /\ kind' = kind /\ flag' = flag /\ alone' = alone
  BY <1>1 DEF Discover, EnsureVolume, State, Start, Run, Rm, VolumeRm, ownVars, Active
<1>2. ASSUME GcStop(p) \/ GcSweep(p) \/ GcSwept(p) \/ GcRestart(p) \/ ExportLooks(p) \/ Tar(p) \/ Tarred(p) \/ Kill(p)
      PROVE  Active(p) /\ kind' = kind /\ flag' = flag /\ alone' = alone
  BY <1>2 DEF GcStop, GcSweep, GcSwept, GcRestart, ExportLooks, Tar, Tarred, Kill, HelperEnds, ownVars, Active
<1> QED  BY <1>1, <1>2 DEF Work

\* How a process may move on, and its context.
Moved(p) ==
    /\ \/ \E to \in PC : Goto(p, to)
       \/ \E how \in {"ok", "error", "killed"} : End(p, how)
       \/ \E first \in PC : Advance(p, first)
       \/ Fail(p)
       \/ at' = [at EXCEPT ![p] = 1] /\ pc' = [pc EXCEPT ![p] = "volume"] /\ UNCHANGED verdict
    /\ Interrupt(p) \/ UNCHANGED cancelled

\* Moving on is nobody else's affair.
LEMMA MovedAlone ==
    ASSUME TypeOK, NEW p \in Proc, Moved(p), NEW q \in Proc, q # p
    PROVE  pc'[q] = pc[q] /\ at'[q] = at[q] /\ verdict'[q] = verdict[q] /\ cancelled'[q] = cancelled[q]
<1>1. pc'[q] = pc[q] /\ at'[q] = at[q] /\ verdict'[q] = verdict[q]
  BY DEF TypeOK, Moved, Goto, End, Advance, Fail
<1>2. cancelled'[q] = cancelled[q]
  BY DEF TypeOK, Moved, Interrupt
<1> QED  BY <1>1, <1>2

\* Every step of a command does.
LEMMA WorkMoves ==
    ASSUME TypeOK, NEW p \in Proc, Work(p) \/ Kill(p)
    PROVE  Moved(p)
<1>c. /\ PC = {"idle", "discover", "volume", "state", "start", "run", "rm", "volrm", "stop", "sweep",
             "sweeping", "restart", "exists", "tar", "taring", "done"}
  BY DEF PC
<1>1. CASE Discover(p)
  BY <1>1, <1>c DEF Discover, Moved
<1>2. CASE EnsureVolume(p)
  BY <1>2, <1>c DEF EnsureVolume, Query, Call, Moved
<1>3. CASE State(p)
  <2>1. UpSees(ctr[at[p]]) \in {"start", "run", "next"}
    BY DEF UpSees, TypeOK
  <2> QED  BY <1>3, <1>c, <2>1 DEF State, Query, Call, Moved
<1>4. CASE Start(p) \/ Run(p)
  BY <1>4, <1>c DEF Start, Run, Call, Refused, Moved
<1>5. CASE Rm(p) \/ VolumeRm(p)
  BY <1>5, <1>c DEF Rm, AfterRm, VolumeRm, Call, Moved
<1>6. CASE GcStop(p)
  BY <1>6, <1>c DEF GcStop, Call, Refused, Moved
<1>7. CASE GcSweep(p) \/ GcRestart(p)
  BY <1>7, <1>c DEF GcSweep, GcRestart, Call, Moved
<1>8. CASE GcSwept(p) \/ Tarred(p)
  BY <1>8, <1>c DEF GcSwept, Tarred, HelperEnds, Moved
<1>9. CASE ExportLooks(p)
  BY <1>9, <1>c DEF ExportLooks, Moved
<1>10. CASE Tar(p)
  BY <1>10, <1>c DEF Tar, Call, Moved
<1>11. CASE Kill(p)
  BY <1>11, <1>c DEF Kill, Moved
<1> QED  BY <1>1, <1>2, <1>3, <1>4, <1>5, <1>6, <1>7, <1>8, <1>9, <1>10, <1>11 DEF Work

\* A context that is cancelled stays so.
LEMMA WorkCancels ==
    ASSUME TypeOK, NEW p \in Proc, Work(p) \/ Kill(p)
    PROVE  /\ cancelled[p] => cancelled'[p]
           /\ Interrupt(p) => cancelled'[p]
<1>1. Interrupt(p) \/ UNCHANGED cancelled
  BY WorkMoves DEF Moved
<1> QED  BY <1>1 DEF Interrupt, TypeOK

\* The steps of a process touch only what it has of its own.
LEMMA OthersStill ==
    ASSUME TypeOK, NEW p \in Proc, NEW q \in Proc, q # p, Begin(p) \/ Work(p) \/ Kill(p) \/ HelperExits(p)
    PROVE  Still(q)
<1>1. CASE Begin(p)
  BY <1>1 DEF Begin, Still, TypeOK
<1>2. CASE HelperExits(p)
  BY <1>2 DEF HelperExits, Still
<1>3. CASE Work(p) \/ Kill(p)
  <2>1. Moved(p) /\ kind' = kind /\ flag' = flag
    BY <1>3, WorkMoves, WorkIsActive
  <2>2. ports'[q] = ports[q] /\ found'[q] = found[q]
    <3>1. CASE Discover(p) \/ EnsureVolume(p) \/ State(p) \/ Start(p) \/ Run(p) \/ Rm(p) \/ VolumeRm(p)
      BY <3>1 DEF Discover, EnsureVolume, State, Start, Run, Rm, VolumeRm, ownVars, TypeOK
    <3>2. CASE GcStop(p) \/ GcSweep(p) \/ GcSwept(p) \/ GcRestart(p)
      BY <3>2 DEF GcStop, GcSweep, GcSwept, GcRestart, HelperEnds, ownVars, TypeOK
    <3>3. CASE ExportLooks(p) \/ Tar(p) \/ Tarred(p) \/ Kill(p)
      BY <3>3 DEF ExportLooks, Tar, Tarred, Kill, HelperEnds, ownVars, TypeOK
    <3> QED  BY <1>3, <3>1, <3>2, <3>3 DEF Work
  <2> QED  BY <2>1, <2>2, MovedAlone DEF Still
<1> QED  BY <1>1, <1>2, <1>3

\* Each step is somebody's, or none.
LEMMA WhoseStep ==
    ASSUME [Next]_vars
    PROVE  UNCHANGED vars \/ \E p \in Proc : Begin(p) \/ Work(p) \/ Kill(p) \/ HelperExits(p)
  BY DEF Next, Command, Work

-----------------------------------------------------------------------------
(* Places *)

\* Where the ways to go on lead.
LEMMA Leads ==
    ASSUME TypeOK, NEW p \in Proc
    PROVE  /\ \A to : Goto(p, to) => pc'[p] = to
           /\ \A how : End(p, how) => pc'[p] = "done"
           /\ \A first : Advance(p, first) => pc'[p] \in {first, "done"}
           /\ Fail(p) => pc'[p] = "restart"
  BY DEF TypeOK, Goto, End, Advance, Fail

\* A step leads a process to a place of its command.
LEMMA WorkLeads ==
    ASSUME TypeOK, NEW p \in Proc, PlaceAt(p), Work(p) \/ Kill(p)
    PROVE  PlaceAt(p)' /\ pc'[p] # "idle"
<1>0. kind' = kind
  BY WorkIsActive
<1> USE <1>0, Leads DEF PlaceAt
<1>1. CASE Discover(p)
  <2>1. pc'[p] \in {"discover", "done"} \/ (pc'[p] = "volume" /\ kind[p] # "print")
    BY <1>1 DEF Discover, TypeOK
  <2>2. pc[p] = "discover"
    BY <1>1 DEF Discover
  <2> QED  BY <2>1, <2>2
<1>2. CASE EnsureVolume(p)
  <2>1. /\ pc[p] = "volume"
        /\ \/ pc'[p] \in {"volume", "done"}
           \/ pc'[p] = "state" /\ kind[p] = "up"
           \/ pc'[p] = "tar" /\ kind[p] = "import"
    BY <1>2 DEF EnsureVolume, Query, Call
  <2> QED  BY <2>1
<1>3. CASE State(p)
  <2>1. UpSees(ctr[at[p]]) \in {"start", "run", "next"}
    BY DEF UpSees, TypeOK
  <2>2. pc[p] = "state"
    BY <1>3 DEF State
  <2>3. \/ pc'[p] = "done"
        \/ kind[p] = "up" /\ pc'[p] \in {"volume", "start", "run"}
        \/ kind[p] = "gc" /\ pc'[p] \in {"stop", "state"}
        \/ kind[p] \notin {"up", "gc"} /\ pc'[p] \in {"rm", "state"}
        \/ kind[p] = "purge" /\ pc'[p] = "volrm"
    BY <1>3, <2>1 DEF State, Query, Call
  <2> QED  BY <2>2, <2>3
<1>4. CASE Start(p) \/ Run(p)
  <2>1. pc[p] \in {"start", "run"} /\ pc'[p] \in {"volume", "done"}
    BY <1>4 DEF Start, Run, Call, Refused
  <2> QED  BY <2>1
<1>5. CASE Rm(p) \/ VolumeRm(p)
  <2>1. /\ pc[p] \in {"rm", "volrm"}
        /\ pc'[p] \in {"state", "done"} \/ (pc'[p] = "volrm" /\ kind[p] = "purge")
    BY <1>5 DEF Rm, AfterRm, VolumeRm, Call
  <2> QED  BY <2>1
<1>6. CASE GcStop(p) \/ GcSweep(p) \/ GcSwept(p)
  <2>1. pc[p] \in {"stop", "sweep", "sweeping"} /\ pc'[p] \in {"sweep", "sweeping", "restart", "done"}
    BY <1>6 DEF GcStop, GcSweep, GcSwept, HelperEnds, Call, Refused
  <2> QED  BY <2>1
<1>7. CASE GcRestart(p)
  <2>1. pc[p] = "restart" /\ pc'[p] \in {"state", "done"}
    BY <1>7 DEF GcRestart
  <2> QED  BY <2>1
<1>8. CASE ExportLooks(p)
  <2>1. pc[p] = "exists" /\ pc'[p] \in {"exists", "tar", "done"}
    BY <1>8 DEF ExportLooks
  <2> QED  BY <2>1
<1>9. CASE Tar(p) \/ Tarred(p)
  <2>1. pc[p] \in {"tar", "taring"} /\ pc'[p] \in {"taring", "done"}
    BY <1>9 DEF Tar, Tarred, HelperEnds, Call
  <2> QED  BY <2>1
<1>10. CASE Kill(p)
  <2>1. pc'[p] = "done"
    BY <1>10 DEF Kill
  <2> QED  BY <2>1
<1> QED  BY <1>1, <1>2, <1>3, <1>4, <1>5, <1>6, <1>7, <1>8, <1>9, <1>10 DEF Work

\* Where a command begins.
LEMMA BeginLeads ==
    ASSUME TypeOK, NEW p \in Proc, Begin(p)
    PROVE  PlaceAt(p)' /\ Active(p)' /\ kind'[p] # "none"
<1>1. PICK k \in Runs[p] : kind' = [kind EXCEPT ![p] = k] /\ pc' = [pc EXCEPT ![p] = FirstStep(k)]
  BY DEF Begin
<1>2. k \in Kinds
  BY FleetAssumption
<1>3. kind'[p] = k /\ pc'[p] = FirstStep(k)
  BY <1>1 DEF TypeOK
<1> QED  BY <1>2, <1>3 DEF PlaceAt, FirstStep, Kinds, Active

\* A helper container belongs to one process.
LEMMA HelperOf ==
    ASSUME TypeOK, NEW p \in Proc, NEW q \in Proc, q # p, Begin(p) \/ Work(p) \/ Kill(p) \/ HelperExits(p)
    PROVE  helper'[q] = helper[q]
<1> USE DEF runtimeVars
<1>1. CASE Begin(p) \/ HelperExits(p) \/ Kill(p)
  BY <1>1 DEF Begin, HelperExits, Kill, TypeOK
<1>2. CASE Discover(p) \/ EnsureVolume(p) \/ State(p) \/ Start(p) \/ Run(p) \/ Rm(p) \/ VolumeRm(p)
  BY <1>2 DEF Discover, EnsureVolume, State, Start, Run, Rm, VolumeRm, Call, Query, Refused, Starts, Creates, Removes
<1>3. CASE GcStop(p) \/ GcRestart(p) \/ ExportLooks(p)
  BY <1>3 DEF GcStop, StopFirst, GcRestart, ExportLooks, Call, Refused, Starts, Stops
<1>4. CASE GcSweep(p) \/ Tar(p)
  BY <1>4 DEF GcSweep, Tar, Call, Mounts, TypeOK
<1>5. CASE GcSwept(p) \/ Tarred(p)
  BY <1>5 DEF GcSwept, Tarred, HelperEnds, TypeOK
<1> QED  BY <1>1, <1>2, <1>3, <1>4, <1>5 DEF Work

\* Nobody leaves the path of its command.
LEMMA PlaceNext == TypeOK /\ PlaceInv /\ RestInv /\ [Next]_vars => PlaceInv' /\ RestInv'
<1> SUFFICES ASSUME TypeOK, PlaceInv, RestInv, [Next]_vars PROVE PlaceInv' /\ RestInv'
    OBVIOUS
<1> USE DEF PlaceInv, RestInv, RestAt
<1>1. ASSUME NEW p \in Proc, Begin(p) \/ Work(p) \/ Kill(p) \/ HelperExits(p) PROVE PlaceInv' /\ RestInv'
  <2>1. ASSUME NEW q \in Proc, Still(q), helper'[q] = helper[q] \/ helper'[q] = {}
        PROVE  PlaceAt(q)' /\ RestAt(q)'
    BY <2>1 DEF Still, PlaceAt
  <2>2. ASSUME NEW q \in Proc, q # p PROVE helper'[q] = helper[q]
    BY <1>1, <2>2, HelperOf
  <2>3. ASSUME NEW q \in Proc, q # p
        PROVE  PlaceAt(q)' /\ RestAt(q)'
    BY <1>1, <2>1, <2>2, <2>3, OthersStill
  <2>4. CASE HelperExits(p)
    <3>1. Still(p) /\ helper'[p] = {}
      BY <2>4 DEF HelperExits, Still, TypeOK
    <3> QED  BY <2>1, <2>3, <3>1
  <2>5. CASE Begin(p)
    <3>1. PlaceAt(p)' /\ pc'[p] # "idle"
      BY <2>5, BeginLeads DEF Active
    <3> QED  BY <2>3, <3>1
  <2>6. CASE Work(p) \/ Kill(p)
    <3>1. PlaceAt(p)' /\ pc'[p] # "idle"
      BY <2>6, WorkLeads
    <3> QED  BY <2>3, <3>1
  <2> QED  BY <1>1, <2>4, <2>5, <2>6
<1>2. CASE UNCHANGED vars
  BY <1>2 DEF vars, runtimeVars, PlaceAt
<1> QED  BY <1>1, <1>2, WhoseStep

\* Nothing is active beside a command that is alone.
LEMMA AloneNext == TypeOK /\ AloneInv /\ [Next]_vars => AloneInv'
<1> SUFFICES ASSUME TypeOK, AloneInv, [Next]_vars, NEW r \in Proc, NEW q \in Proc, alone'[r], Active(q)'
             PROVE  q = r
    BY DEF AloneInv
<1>1. ASSUME NEW p \in Proc, Begin(p) PROVE q = r
  <2>1. r = p /\ \A s \in Proc : ~Active(s)
    BY <1>1 DEF Begin
  <2>2. q # p => ~Active(q)'
    BY <1>1, <2>1, OthersStill DEF Still, Active
  <2> QED  BY <2>1, <2>2
<1>2. ASSUME NEW p \in Proc, Work(p) \/ Kill(p) PROVE q = r
  <2>1. alone[r] /\ Active(p)
    BY <1>2, WorkIsActive
  <2>2. Active(q)
    BY <1>2, <2>1, OthersStill DEF Still, Active
  <2> QED  BY <2>1, <2>2 DEF AloneInv
<1>3. ASSUME NEW p \in Proc, HelperExits(p) PROVE q = r
  BY <1>3 DEF HelperExits, AloneInv, Active
<1>4. CASE UNCHANGED vars
  BY <1>4 DEF vars, AloneInv, Active
<1> QED  BY <1>1, <1>2, <1>3, <1>4, WhoseStep

-----------------------------------------------------------------------------
(* Containers and ports *)

\* What a step may do to the containers: run starts one only on a free port.
LEMMA ContainerStep ==
    ASSUME TypeOK, [Next]_vars
    PROVE  \/ UNCHANGED <<ctr, published>>
           \/ \E c \in Cache : Starts(c) \/ Stops(c) \/ Removes(c)
           \/ \E c \in Cache, n \in Ports \ {NoPort} :
                 Creates(c, n, "stopped") \/ (PortFree(c, n) /\ Creates(c, n, "running"))
<1> USE DEF runtimeVars
<1>0. \A p \in Proc : at[p] \in Cache /\ PortOf(p, at[p]) \in Ports \ {NoPort}
  BY PortOfIsPort DEF TypeOK
<1>1. ASSUME NEW p \in Proc,
             Begin(p) \/ Discover(p) \/ EnsureVolume(p) \/ State(p) \/ VolumeRm(p) \/ Kill(p) \/ HelperExits(p)
      PROVE  UNCHANGED <<ctr, published>>
  BY <1>1 DEF Begin, Discover, EnsureVolume, State, VolumeRm, Kill, HelperExits, Query, Call
<1>2. ASSUME NEW p \in Proc, GcSweep(p) \/ GcSwept(p) \/ ExportLooks(p) \/ Tar(p) \/ Tarred(p)
      PROVE  UNCHANGED <<ctr, published>>
  BY <1>2 DEF GcSweep, GcSwept, ExportLooks, Tar, Tarred, HelperEnds, Mounts, Call
<1>3. ASSUME NEW p \in Proc, Start(p) \/ Rm(p) \/ GcStop(p) \/ GcRestart(p)
      PROVE  UNCHANGED <<ctr, published>> \/ Starts(at[p]) \/ Stops(at[p]) \/ Removes(at[p])
  BY <1>3 DEF Start, Rm, GcStop, StopFirst, GcRestart, Call, Refused
<1>4. ASSUME NEW p \in Proc, Run(p)
      PROVE  \/ UNCHANGED <<ctr, published>>
             \/ Creates(at[p], PortOf(p, at[p]), "stopped")
             \/ PortFree(at[p], PortOf(p, at[p])) /\ Creates(at[p], PortOf(p, at[p]), "running")
  BY <1>4 DEF Run, Call, Refused
<1>5. UNCHANGED vars => UNCHANGED <<ctr, published>>
  BY DEF vars
<1> QED  BY <1>0, <1>1, <1>2, <1>3, <1>4, <1>5, WhoseStep DEF Work

\* No two running containers ever have one port.
LEMMA PortsNext == TypeOK /\ PortsInv /\ [Next]_vars => PortsInv'
<1> SUFFICES ASSUME TypeOK, PortsInv, [Next]_vars PROVE PortsInv'
    OBVIOUS
<1> USE DEF PortsInv, TypeOK
<1>1. CASE UNCHANGED <<ctr, published>>
  BY <1>1
<1>2. ASSUME NEW c \in Cache, Starts(c) PROVE PortsInv'
  BY <1>2 DEF Starts, PortFree
<1>3. ASSUME NEW c \in Cache, Stops(c) PROVE PortsInv'
  BY <1>3 DEF Stops
<1>4. ASSUME NEW c \in Cache, Removes(c) PROVE PortsInv'
  BY <1>4 DEF Removes
<1>5. ASSUME NEW c \in Cache, NEW n \in Ports \ {NoPort}, Creates(c, n, "stopped") PROVE PortsInv'
  BY <1>5 DEF Creates
<1>6. ASSUME NEW c \in Cache, NEW n \in Ports \ {NoPort}, PortFree(c, n), Creates(c, n, "running") PROVE PortsInv'
  BY <1>6 DEF Creates, PortFree
<1> QED  BY <1>1, <1>2, <1>3, <1>4, <1>5, <1>6, ContainerStep

\* Without SIGINT no context is cancelled.
LEMMA CalmNext == CalmInv /\ [Next]_vars => CalmInv'
<1> SUFFICES ASSUME CalmInv, [Next]_vars, "interrupt" \notin Faults PROVE cancelled' = cancelled
    BY DEF CalmInv
<1>1. \A p \in Proc : ~Interrupt(p)
  BY DEF Interrupt
<1>2. ASSUME NEW p \in Proc,
             Begin(p) \/ Discover(p) \/ EnsureVolume(p) \/ State(p) \/ VolumeRm(p) \/ Kill(p) \/ HelperExits(p)
      PROVE  cancelled' = cancelled
  BY <1>1, <1>2 DEF Begin, Discover, EnsureVolume, State, VolumeRm, Kill, HelperExits, Query, Call
<1>3. ASSUME NEW p \in Proc, GcSweep(p) \/ GcSwept(p) \/ ExportLooks(p) \/ Tar(p) \/ Tarred(p)
      PROVE  cancelled' = cancelled
  BY <1>1, <1>3 DEF GcSweep, GcSwept, ExportLooks, Tar, Tarred, HelperEnds, Call
<1>4. ASSUME NEW p \in Proc, Start(p) \/ Run(p) \/ Rm(p) \/ GcStop(p) \/ GcRestart(p)
      PROVE  cancelled' = cancelled
  BY <1>1, <1>4 DEF Start, Run, Rm, GcStop, GcRestart, Call, Refused
<1>5. UNCHANGED vars => cancelled' = cancelled
  BY DEF vars
<1> QED  BY <1>2, <1>3, <1>4, <1>5, WhoseStep DEF Work

\* All of it holds between any two steps of any commands.
THEOREM FleetInvariant == Spec => []FleetInv
<1>1. Init => FleetInv
  <2> SUFFICES ASSUME Init PROVE FleetInv
      OBVIOUS
  <2>1. TypeOK
    BY Numbers, FleetAssumption DEF Init, TypeOK, PC
  <2>2. PortsInv
    <3>1. \A c \in Cache : DefaultBase + c - 1 # NoPort
      BY Numbers
    <3>2. \A c, d \in Cache : DefaultBase + c - 1 = DefaultBase + d - 1 => c = d
      BY FleetAssumption DEF Cache
    <3> QED  BY <3>1, <3>2 DEF Init, PortsInv
  <2>3. PlaceInv /\ RestInv /\ AloneInv /\ CalmInv
    BY DEF Init, PlaceInv, PlaceAt, RestInv, RestAt, AloneInv, Active, CalmInv
  <2> QED  BY <2>1, <2>2, <2>3 DEF FleetInv
<1>2. FleetInv /\ [Next]_vars => FleetInv'
  BY TypeNext, PlaceNext, AloneNext, PortsNext, CalmNext DEF FleetInv
<1> QED  BY <1>1, <1>2, PTL DEF Spec

\* Every variable keeps its type.
THEOREM FleetTypes == Spec => []TypeOK
<1>1. FleetInv => TypeOK
  BY DEF FleetInv
<1> QED  BY <1>1, FleetInvariant, PTL

-----------------------------------------------------------------------------
(* Commands that are alone *)

\* What becomes of a command that is alone is of its own doing.
LEMMA AloneStep ==
    ASSUME FleetInv, [Next]_vars, NEW p \in Proc, alone'[p]
    PROVE  \/ Begin(p)
           \/ alone[p] /\ (Work(p) \/ Kill(p))
           \/ alone[p] /\ Still(p) /\ UNCHANGED <<ctr, published, vol>>
<1>1. ASSUME NEW q \in Proc, Begin(q) PROVE q = p
  BY <1>1 DEF Begin
<1>2. ASSUME NEW q \in Proc, Work(q) \/ Kill(q) PROVE alone[p] /\ q = p
  BY <1>2, WorkIsActive DEF FleetInv, AloneInv
<1>3. ASSUME NEW q \in Proc, HelperExits(q) PROVE alone[p] /\ Still(p) /\ UNCHANGED <<ctr, published, vol>>
  BY <1>3 DEF HelperExits, Still
<1>4. UNCHANGED vars => alone[p] /\ Still(p) /\ UNCHANGED <<ctr, published, vol>>
  BY DEF vars, runtimeVars, Still
<1> QED  BY <1>1, <1>2, <1>3, <1>4, WhoseStep

\* Its first step, its last, and its way through the loop.
LEMMA Begun ==
    ASSUME FleetInv, NEW p \in Proc, Begin(p)
    PROVE  /\ kind'[p] \in Kinds /\ pc'[p] = FirstStep(kind'[p]) /\ at'[p] = 1
           /\ found'[p] = {} /\ verdict'[p] = "none" /\ UNCHANGED <<runtimeVars, cancelled>>
<1>1. PICK k \in Runs[p] : kind' = [kind EXCEPT ![p] = k] /\ pc' = [pc EXCEPT ![p] = FirstStep(k)]
  BY DEF Begin
<1>2. k \in Kinds
  BY FleetAssumption
<1> QED  BY <1>1, <1>2 DEF Begin, FleetInv, TypeOK, RestInv, RestAt

\* A killed command has ended.
LEMMA Killed ==
    ASSUME TypeOK, NEW p \in Proc, Kill(p)
    PROVE  "kill" \in Faults /\ pc'[p] = "done" /\ verdict'[p] = "killed"
  BY DEF TypeOK, Kill, End

\* The loop goes on, or has come to its end.
LEMMA Advances ==
    ASSUME TypeOK, NEW p \in Proc, NEW first, Advance(p, first)
    PROVE  \/ at[p] < NumCaches /\ at'[p] = at[p] + 1 /\ pc'[p] = first /\ verdict'[p] = verdict[p]
           \/ at[p] = NumCaches /\ at'[p] = at[p] /\ pc'[p] = "done" /\ verdict'[p] = "ok"
<1>1. at[p] \in 1 .. NumCaches /\ NumCaches \in Nat
  BY FleetAssumption DEF TypeOK, Cache
<1>2. CASE at[p] < NumCaches
  BY <1>2 DEF TypeOK, Advance
<1>3. CASE ~(at[p] < NumCaches)
  <2>1. at[p] = NumCaches
    BY <1>1, <1>3
  <2>2. End(p, "ok")
    BY <1>3 DEF Advance
  <2> QED  BY <2>1, <2>2 DEF TypeOK, End
<1> QED  BY <1>2, <1>3

\* Where the other ways to go on lead.
LEMMA Goes ==
    ASSUME TypeOK, NEW p \in Proc
    PROVE  /\ \A to : Goto(p, to) => pc'[p] = to /\ at'[p] = at[p] /\ verdict'[p] = verdict[p]
           /\ \A how : End(p, how) => pc'[p] = "done" /\ at'[p] = at[p] /\ verdict'[p] = how
           /\ Fail(p) => pc'[p] = "restart" /\ at'[p] = at[p] /\ verdict'[p] = "error"
           /\ Interrupt(p) => cancelled'[p] = TRUE
  BY DEF TypeOK, Goto, End, Fail, Interrupt

\* The caches passed, one step on and in the end.
LEMMA Passed ==
    /\ \A c \in Cache : ~(c < 1)
    /\ \A c, d \in Cache : c < d + 1 => c < d \/ c = d
    /\ \A c \in Cache : c < NumCaches \/ c = NumCaches
  BY FleetAssumption DEF Cache

-----------------------------------------------------------------------------
(* print-registries *)

\* It asks every cache, and nothing changes meanwhile.
LEMMA LookNext == FleetInv /\ LookInv /\ [Next]_vars => LookInv'
<1> SUFFICES ASSUME FleetInv, LookInv, [Next]_vars, NEW p \in Proc, alone'[p], kind'[p] = "print", ~cancelled'[p]
             PROVE  /\ pc'[p] = "discover" => \A c \in Cache : c < at'[p] => ports'[p][c] = published'[c]
                    /\ pc'[p] = "done" /\ verdict'[p] # "killed" => \A c \in Cache : ports'[p][c] = published'[c]
    BY DEF LookInv
<1>t. TypeOK /\ at[p] \in Cache
  BY DEF FleetInv, TypeOK
<1>1. CASE Begin(p)
  BY <1>1, Begun, Passed DEF FirstStep
<1>2. CASE Kill(p)
  BY <1>2, <1>t, Killed
<1>3. CASE alone[p] /\ Work(p)
  <2>1. kind[p] = "print" /\ Active(p)
    BY <1>3, WorkIsActive
  <2>2. pc[p] = "discover"
    BY <2>1, <1>t DEF FleetInv, PlaceInv, PlaceAt, Active, TypeOK, PC
  <2>3. Discover(p)
    BY <1>3, <2>2 DEF Work, EnsureVolume, State, Start, Run, Rm, VolumeRm, GcStop, GcSweep, GcSwept, GcRestart, ExportLooks,
         Tar, Tarred
  <2>4. ~cancelled[p] /\ ports' = [ports EXCEPT ![p] = [@ EXCEPT ![at[p]] = published[at[p]]]] /\ published' = published
    BY <2>3, <1>t, Goes DEF Discover, runtimeVars
  <2>5. Advance(p, "discover")
    BY <2>1, <2>3 DEF Discover
  <2>6. \A c \in Cache : c < at[p] \/ c = at[p] => ports'[p][c] = published'[c]
    <3>1. \A c \in Cache : c < at[p] => ports[p][c] = published[c]
      BY <1>3, <2>1, <2>2, <2>4 DEF LookInv
    <3>2. ports \in [Proc -> [Cache -> Ports]]
      BY <1>t DEF TypeOK
    <3>3. ports'[p] = [ports[p] EXCEPT ![at[p]] = published[at[p]]]
      BY <2>4, <3>2
    <3>4. ports[p] \in [Cache -> Ports]
      BY <3>2
    <3>5. \A c \in Cache : ports'[p][c] = IF c = at[p] THEN published[c] ELSE ports[p][c]
      BY <3>3, <3>4
    <3> QED  BY <2>4, <3>1, <3>5
  <2> QED  BY <1>t, <2>5, <2>6, Advances, Passed
<1>4. CASE alone[p] /\ Still(p) /\ UNCHANGED <<ctr, published, vol>>
  BY <1>4 DEF Still, LookInv
<1> QED  BY <1>1, <1>2, <1>3, <1>4, AloneStep

\* A print-registries that runs by itself has each running cache at the port
\* it listens on.
THEOREM EndpointsAreTrue == Spec => []EndpointsTrue
<1>1. Init => LookInv
  BY DEF Init, LookInv
<1>2. FleetInv /\ LookInv => EndpointsTrue
  <2> SUFFICES ASSUME FleetInv, LookInv, NEW p \in Proc, Ended(p, "print"), flag[p] = NoPort, ~cancelled[p],
                      verdict[p] # "killed", NEW c \in Cache, ctr[c] = "running"
               PROVE  PortOf(p, c) = published[c]
      BY DEF EndpointsTrue
  <2>1. ports[p][c] = published[c]
    BY DEF Ended, LookInv
  <2>2. published[c] # NoPort
    BY DEF FleetInv, PortsInv
  <2> QED  BY <2>1, <2>2 DEF PortOf
<1> QED  BY <1>1, <1>2, LookNext, FleetInvariant, PTL DEF Spec

\* What of EndpointsDistinct holds: a print-registries that runs by itself gives
\* different endpoints to any two caches that run, and to any two at all when
\* its base is on the command line; a cache that does not run is what can get
\* another's.
THEOREM EndpointsOfRunningDiffer ==
    Spec => [](\A p \in Proc : Ended(p, "print") /\ ~cancelled[p] /\ verdict[p] # "killed" =>
                  \A c, d \in Cache :
                     c # d /\ (flag[p] # NoPort \/ (ctr[c] = "running" /\ ctr[d] = "running"))
                        => PortOf(p, c) # PortOf(p, d))
<1> DEFINE Differ == \A p \in Proc : Ended(p, "print") /\ ~cancelled[p] /\ verdict[p] # "killed" =>
                        \A c, d \in Cache :
                           c # d /\ (flag[p] # NoPort \/ (ctr[c] = "running" /\ ctr[d] = "running"))
                              => PortOf(p, c) # PortOf(p, d)
<1>1. FleetInv /\ EndpointsTrue => Differ
  <2> SUFFICES ASSUME FleetInv, EndpointsTrue, NEW p \in Proc, Ended(p, "print"), ~cancelled[p], verdict[p] # "killed",
                      NEW c \in Cache, NEW d \in Cache, c # d,
                      flag[p] # NoPort \/ (ctr[c] = "running" /\ ctr[d] = "running")
               PROVE  PortOf(p, c) # PortOf(p, d)
      OBVIOUS
  <2>1. CASE flag[p] # NoPort
    <3>1. flag[p] \in Flags
      BY <2>1 DEF FleetInv, TypeOK
    <3>2. \A b \in Flags : b \in Nat
      BY FleetAssumption
    <3>3. c \in Nat /\ d \in Nat
      BY DEF Cache
    <3>4. flag[p] + c - 1 # flag[p] + d - 1
      BY <3>1, <3>2, <3>3
    <3> QED  BY <2>1, <3>4 DEF PortOf
  <2>2. CASE flag[p] = NoPort
    <3>1. PortOf(p, c) = published[c] /\ PortOf(p, d) = published[d]
      BY <2>2 DEF EndpointsTrue
    <3> QED  BY <2>2, <3>1 DEF FleetInv, PortsInv
  <2> QED  BY <2>1, <2>2
<1> QED  BY <1>1, EndpointsAreTrue, FleetInvariant, PTL

-----------------------------------------------------------------------------
(* up *)

\* The steps of an up.
LEMMA UpSteps ==
    ASSUME FleetInv, NEW p \in Proc, kind[p] = "up", Work(p)
    PROVE  Discover(p) \/ EnsureVolume(p) \/ State(p) \/ Start(p) \/ Run(p)
<1>1. PlaceAt(p)
  BY DEF FleetInv, PlaceInv
<1> QED  BY <1>1 DEF PlaceAt, Work, Rm, VolumeRm, GcStop, GcSweep, GcSwept, GcRestart, ExportLooks, Tar, Tarred

\* It goes on when the cache it is at is up.
LEMMA UpGoesOn ==
    ASSUME TypeOK, NEW p \in Proc, Advance(p, "volume"),
           \A c \in Cache : c < at[p] \/ c = at[p] => Brought(c)'
    PROVE  UpAt(p)'
<1>1. at[p] \in Cache
  BY DEF TypeOK
<1>2. CASE at[p] < NumCaches /\ at'[p] = at[p] + 1 /\ pc'[p] = "volume" /\ verdict'[p] = verdict[p]
  <2>1. \A c \in Cache : c < at'[p] => Brought(c)'
    BY <1>1, <1>2, Passed
  <2> QED  BY <1>2, <2>1 DEF UpAt
<1>3. CASE at[p] = NumCaches /\ at'[p] = at[p] /\ pc'[p] = "done" /\ verdict'[p] = "ok"
  <2>1. \A c \in Cache : Brought(c)'
    BY <1>3, Passed
  <2> QED  BY <1>3, <2>1 DEF UpAt
<1> QED  BY <1>2, <1>3, Advances

\* It fails of itself only when a port is taken.
LEMMA UpFails ==
    ASSUME TypeOK, NEW p \in Proc, End(p, "error"), Conflict(p)'
    PROVE  UpAt(p)'
  BY Goes DEF UpAt

\* Starting the cache it is at.
LEMMA UpStarts ==
    ASSUME FleetInv, NEW p \in Proc, UpAt(p), Start(p), ~cancelled'[p]
    PROVE  UpAt(p)'
<1>t. TypeOK /\ at[p] \in Cache /\ ctr[at[p]] = "stopped" /\ vol[at[p]] /\ \A c \in Cache : c < at[p] => Brought(c)
  BY DEF FleetInv, TypeOK, Start, UpAt
<1>1. CASE Starts(at[p]) /\ Advance(p, "volume")
  <2>1. \A c \in Cache : c < at[p] \/ c = at[p] => Brought(c)'
    BY <1>1, <1>t DEF Starts, TypeOK, Brought
  <2> QED  BY <1>1, <1>t, <2>1, UpGoesOn
<1>2. CASE StartFails(at[p]) /\ End(p, "error") /\ UNCHANGED runtimeVars
  <2>1. PICK d \in Cache \ {at[p]} : ctr[d] = "running" /\ published[d] = published[at[p]]
    BY <1>2, <1>t DEF StartFails, PortFree
  <2>2. published[d] # NoPort
    BY <2>1 DEF FleetInv, PortsInv
  <2>3. Conflict(p)'
    BY <1>2, <1>t, <2>1, <2>2 DEF Conflict, runtimeVars
  <2> QED  BY <1>2, <1>t, <2>3, UpFails
<1>3. (Starts(at[p]) /\ Advance(p, "volume")) \/ (StartFails(at[p]) /\ End(p, "error") /\ UNCHANGED runtimeVars)
  BY <1>t, Goes DEF Start, Call, Refused
<1> QED  BY <1>1, <1>2, <1>3

\* Creating it.
LEMMA UpRuns ==
    ASSUME FleetInv, NEW p \in Proc, UpAt(p), Run(p), ~cancelled'[p]
    PROVE  UpAt(p)'
<1> DEFINE c == at[p]
           n == PortOf(p, c)
<1>t. TypeOK /\ c \in Cache /\ ctr[c] = "absent" /\ vol[c] /\ \A d \in Cache : d < c => Brought(d)
  BY DEF FleetInv, TypeOK, Run, UpAt
<1>o. UNCHANGED ownVars
  BY DEF Run
<1>1. CASE Creates(c, n, "running") /\ Advance(p, "volume")
  <2>1. \A d \in Cache : d < c \/ d = c => Brought(d)'
    BY <1>1, <1>t DEF Creates, TypeOK, Brought
  <2> QED  BY <1>1, <1>t, <2>1, UpGoesOn
<1>2. CASE ~PortFree(c, n) /\ Creates(c, n, "stopped") /\ End(p, "error")
  <2>1. PICK d \in Cache \ {c} : ctr[d] = "running" /\ published[d] = n
    BY <1>2 DEF PortFree
  <2>2. published'[d] = n
    BY <1>2, <1>t, <2>1 DEF Creates, TypeOK
  <2>3. \A e \in Cache : PortOf(p, e)' = PortOf(p, e)
    BY <1>o DEF ownVars, PortOf
  <2>4. \E e \in Cache : e # d /\ published'[d] = PortOf(p, e)'
    BY <1>t, <2>1, <2>2, <2>3
  <2>5. Conflict(p)'
    BY <2>4 DEF Conflict
  <2> QED  BY <1>2, <1>t, <2>5, UpFails
<1>3. \/ Creates(c, n, "running") /\ Advance(p, "volume")
      \/ ~PortFree(c, n) /\ Creates(c, n, "stopped") /\ End(p, "error")
  BY <1>t, Goes DEF Run, Call, Refused
<1> QED  BY <1>1, <1>2, <1>3

\* Its volume, and whether it is there and runs.
LEMMA UpLooks ==
    ASSUME FleetInv, NEW p \in Proc, kind[p] = "up", UpAt(p), EnsureVolume(p) \/ State(p), ~cancelled'[p]
    PROVE  UpAt(p)'
<1>t. TypeOK /\ at[p] \in Cache /\ \A c \in Cache : c < at[p] => Brought(c)
  BY DEF FleetInv, TypeOK, EnsureVolume, State, UpAt
<1>1. CASE EnsureVolume(p)
  <2>1. \/ at[p] \in Blobcache /\ ~HasImage /\ UNCHANGED runtimeVars /\ Advance(p, "volume")
        \/ vol' = [vol EXCEPT ![at[p]] = TRUE] /\ UNCHANGED <<ctr, published, helper>> /\ Goto(p, "state")
    BY <1>1, <1>t, Goes DEF EnsureVolume, Query, Call
  <2>2. CASE at[p] \in Blobcache /\ ~HasImage /\ UNCHANGED runtimeVars /\ Advance(p, "volume")
    <3>1. \A c \in Cache : c < at[p] \/ c = at[p] => Brought(c)'
      BY <1>t, <2>2 DEF Brought, runtimeVars
    <3> QED  BY <1>t, <2>2, <3>1, UpGoesOn
  <2>3. CASE vol' = [vol EXCEPT ![at[p]] = TRUE] /\ UNCHANGED <<ctr, published, helper>> /\ Goto(p, "state")
    <3>1. pc'[p] = "state" /\ at'[p] = at[p] /\ vol'[at[p]]
      BY <1>t, <2>3, Goes DEF TypeOK
    <3>2. \A c \in Cache : c < at[p] => Brought(c)'
      BY <1>t, <2>3 DEF TypeOK, Brought
    <3> QED  BY <3>1, <3>2 DEF UpAt
  <2> QED  BY <2>1, <2>2, <2>3
<1>2. CASE State(p)
  <2>1. UNCHANGED runtimeVars /\ pc[p] = "state" /\ vol[at[p]]
    BY <1>2 DEF State, Query, Call, UpAt
  <2>2. \/ ctr[at[p]] = "running" /\ Advance(p, "volume")
        \/ ctr[at[p]] = "stopped" /\ Goto(p, "start")
        \/ ctr[at[p]] = "absent" /\ Goto(p, "run")
    <3>1. ctr[at[p]] \in {"absent", "stopped", "running"}
      BY <1>t DEF TypeOK
    <3> QED  BY <1>2, <1>t, <3>1, Goes DEF State, Query, Call, UpSees
  <2>3. \A c \in Cache : Brought(c)' = Brought(c)
    BY <2>1 DEF runtimeVars, Brought
  <2>4. CASE ctr[at[p]] = "running" /\ Advance(p, "volume")
    <3>1. Brought(at[p])
      BY <2>1, <2>4 DEF Brought
    <3> QED  BY <1>t, <2>3, <2>4, <3>1, UpGoesOn
  <2>5. CASE ctr[at[p]] = "stopped" /\ Goto(p, "start")
    <3>1. pc'[p] = "start" /\ at'[p] = at[p] /\ ctr' = ctr /\ vol' = vol
      BY <1>t, <2>1, <2>5, Goes DEF runtimeVars
    <3>2. \A c \in Cache : c < at'[p] => Brought(c)'
      BY <1>t, <2>3, <3>1
    <3> QED  BY <2>1, <2>5, <3>1, <3>2 DEF UpAt
  <2>6. CASE ctr[at[p]] = "absent" /\ Goto(p, "run")
    <3>1. pc'[p] = "run" /\ at'[p] = at[p] /\ ctr' = ctr /\ vol' = vol
      BY <1>t, <2>1, <2>6, Goes DEF runtimeVars
    <3>2. \A c \in Cache : c < at'[p] => Brought(c)'
      BY <1>t, <2>3, <3>1
    <3> QED  BY <2>1, <2>6, <3>1, <3>2 DEF UpAt
  <2> QED  BY <2>2, <2>4, <2>5, <2>6
<1> QED  BY <1>1, <1>2

\* Each of its steps brings one cache further.
LEMMA UpNext == FleetInv /\ UpInv /\ [Next]_vars => UpInv'
<1> SUFFICES ASSUME FleetInv, UpInv, [Next]_vars, NEW p \in Proc, alone'[p], kind'[p] = "up", ~cancelled'[p]
             PROVE  UpAt(p)'
    BY DEF UpInv
<1>t. TypeOK
  BY DEF FleetInv
<1>1. CASE Begin(p)
  BY <1>1, Begun DEF FirstStep, UpAt
<1>2. CASE Kill(p)
  BY <1>2, <1>t, Killed DEF UpAt
<1>3. CASE alone[p] /\ Work(p)
  <2>1. kind[p] = "up"
    BY <1>3, WorkIsActive
  <2>2. CASE Discover(p)
    <3>1. \/ Advance(p, "discover") /\ at[p] < NumCaches
          \/ at' = [at EXCEPT ![p] = 1] /\ pc' = [pc EXCEPT ![p] = "volume"]
      BY <2>1, <2>2 DEF Discover
    <3>2. CASE Advance(p, "discover") /\ at[p] < NumCaches
      BY <3>2, <1>t DEF Advance, UpAt, TypeOK
    <3>3. CASE at' = [at EXCEPT ![p] = 1] /\ pc' = [pc EXCEPT ![p] = "volume"]
      BY <3>3, <1>t, Passed DEF UpAt, TypeOK
    <3> QED  BY <3>1, <3>2, <3>3
  <2>3. CASE ~Discover(p)
    <3>1. EnsureVolume(p) \/ State(p) \/ Start(p) \/ Run(p)
      BY <1>3, <2>1, <2>3, UpSteps
    <3>2. ~cancelled[p]
      BY <3>1, <1>t, Goes DEF EnsureVolume, State, Start, Run, Query, Call, Refused
    <3>3. UpAt(p)
      BY <1>3, <2>1, <3>2 DEF UpInv
    <3> QED  BY <2>1, <3>1, <3>3, UpStarts, UpRuns, UpLooks
  <2> QED  BY <2>2, <2>3
<1>4. CASE alone[p] /\ Still(p) /\ UNCHANGED <<ctr, published, vol>>
  <2>1. UpAt(p)
    BY <1>4 DEF Still, UpInv
  <2>2. \A d \in Cache : PortOf(p, d)' = PortOf(p, d)
    BY <1>4 DEF Still, PortOf
  <2> QED  BY <1>4, <2>1, <2>2 DEF Still, UpAt, Conflict, Brought
<1> QED  BY <1>1, <1>2, <1>3, <1>4, AloneStep

\* Whatever any commands have left behind, an up that runs by itself to its
\* end brings up every cache, unless two are left with one port.
THEOREM UpRepairsFleet == Spec => []UpRepairs
<1>1. Init => UpInv
  BY DEF Init, UpInv
<1>2. UpInv => UpRepairs
  BY DEF UpInv, UpAt, UpRepairs, Ended
<1> QED  BY <1>1, <1>2, UpNext, FleetInvariant, PTL DEF Spec

-----------------------------------------------------------------------------
(* gc that is alone *)

\* The steps of a gc.
LEMMA GcSteps ==
    ASSUME FleetInv, NEW p \in Proc, kind[p] = "gc", Work(p)
    PROVE  State(p) \/ GcStop(p) \/ GcSweep(p) \/ GcSwept(p) \/ GcRestart(p)
<1>1. PlaceAt(p)
  BY DEF FleetInv, PlaceInv
<1> QED  BY <1>1 DEF PlaceAt, Work, Discover, EnsureVolume, Start, Run, Rm, VolumeRm, ExportLooks, Tar, Tarred

\* The cache it has stopped gets its port back.
LEMMA GcNext == FleetInv /\ FleetInv' /\ GcInv /\ [Next]_vars => GcInv'
<1> SUFFICES ASSUME FleetInv, FleetInv', GcInv, [Next]_vars, NEW p \in Proc, alone'[p], kind'[p] = "gc"
             PROVE  GcAt(p)'
    BY DEF GcInv
<1>t. /\ TypeOK /\ at[p] \in Cache /\ ctr \in [Cache -> {"absent", "stopped", "running"}]
      /\ found \in [Proc -> SUBSET Cache]
  BY DEF FleetInv, TypeOK
<1>1. CASE Begin(p)
  BY <1>1, Begun DEF FirstStep, GcAt
<1>2. CASE Kill(p)
  BY <1>2, <1>t, Killed DEF GcAt
<1>3. CASE alone[p] /\ Work(p)
  <2>1. kind[p] = "gc" /\ Active(p)
    BY <1>3, WorkIsActive
  <2>2. /\ \A c \in found[p] : ctr[c] = "running" \/ (c = at[p] /\ pc[p] \in {"sweep", "sweeping", "restart"})
        /\ pc[p] \in {"sweep", "sweeping", "restart"} => ctr[at[p]] = "stopped" /\ PortFree(at[p], published[at[p]])
        /\ pc[p] = "stop" => ctr[at[p]] = "running"
    BY <1>3, <2>1 DEF GcInv, GcAt, Active, LeftAt
  <2>3. CASE State(p)
    <3>1. UNCHANGED <<ctr, published, found>> /\ pc[p] = "state"
      BY <2>3 DEF State, Query, Call, runtimeVars, ownVars
    <3>2. Advance(p, "state") \/ (ctr[at[p]] = "running" /\ Goto(p, "stop")) \/ End(p, "error")
      BY <2>1, <2>3, <1>t DEF State, Query, Call, GcWants
    <3>3. pc'[p] \in {"state", "done"} \/ (ctr[at[p]] = "running" /\ pc'[p] = "stop" /\ at'[p] = at[p])
      BY <3>2, <1>t, Goes, Advances
    <3> QED  BY <2>2, <3>1, <3>3 DEF GcAt
  <2>4. CASE GcStop(p)
    <3>1. pc[p] = "stop" /\ ctr[at[p]] = "running" /\ found[p] \subseteq Cache
      BY <2>2, <2>4, <1>t DEF GcStop
    <3>2. /\ found' = [found EXCEPT ![p] = @ \cup {at[p]}]
          /\ \/ Stops(at[p]) /\ Goto(p, "sweep")
             \/ (cancelled[p] \/ Interrupt(p)) /\ End(p, "error") /\ (Stops(at[p]) \/ UNCHANGED runtimeVars)
                  /\ (cancelled[p] => cancelled' = cancelled)
      BY <2>4, <3>1, <1>t DEF GcStop, StopFirst, Call, Refused, Interrupt
    <3>3. ctr' = [ctr EXCEPT ![at[p]] = "stopped"] \/ ctr' = ctr
      BY <3>2 DEF Stops, runtimeVars
    <3>4. \A c \in found'[p] : ctr'[c] = "running" \/ c = at[p]
      <4>1. found'[p] = found[p] \cup {at[p]}
        BY <3>2, <1>t
      <4>2. \A c \in found[p] : ctr[c] = "running"
        BY <2>2, <3>1
      <4> QED  BY <4>1, <4>2, <3>1, <3>3, <1>t
    <3>5. CASE Stops(at[p]) /\ Goto(p, "sweep")
      <4>1. pc'[p] = "sweep" /\ at'[p] = at[p] /\ ctr' = [ctr EXCEPT ![at[p]] = "stopped"] /\ published' = published
        BY <3>5, <1>t, Goes DEF Stops
      <4>2. \A d \in Cache \ {at[p]} : ctr'[d] = "running" => published'[d] # published'[at[p]]
        BY <3>1, <4>1, <1>t DEF FleetInv, PortsInv
      <4>3. PortFree(at[p], published[at[p]])'
        BY <4>1, <4>2 DEF PortFree
      <4> QED  BY <3>4, <4>1, <4>3, <1>t DEF GcAt
    <3>6. CASE (cancelled[p] \/ Interrupt(p)) /\ End(p, "error") /\ (cancelled[p] => cancelled' = cancelled)
      <4>1. pc'[p] = "done" /\ at'[p] = at[p] /\ verdict'[p] = "error" /\ cancelled'[p]
        BY <3>6, <1>t, Goes
      <4> QED  BY <3>4, <4>1 DEF GcAt, LeftAt
    <3> QED  BY <3>2, <3>5, <3>6
  <2>5. CASE GcSweep(p) \/ GcSwept(p)
    <3>1. UNCHANGED <<ctr, published, found>> /\ pc[p] \in {"sweep", "sweeping"}
      BY <2>5 DEF GcSweep, GcSwept, Call, HelperEnds, Mounts, runtimeVars, ownVars
    <3>2. pc'[p] \in {"sweeping", "restart"} /\ at'[p] = at[p]
      BY <2>5, <1>t, Goes DEF GcSweep, GcSwept, Call, HelperEnds
    <3>3. PortFree(at[p], published[at[p]])'
      BY <2>2, <3>1, <3>2 DEF PortFree
    <3> QED  BY <2>2, <3>1, <3>2, <3>3 DEF GcAt
  <2>6. CASE GcRestart(p)
    <3>1. pc[p] = "restart" /\ found' = found
      BY <2>6 DEF GcRestart, ownVars
    <3>2. \/ Starts(at[p]) /\ (Advance(p, "state") \/ End(p, "error"))
          \/ (cancelled[p] \/ Interrupt(p)) /\ End(p, "error") /\ (Starts(at[p]) \/ UNCHANGED runtimeVars)
               /\ (cancelled[p] => cancelled' = cancelled)
      BY <2>2, <2>6, <3>1 DEF GcRestart, StartFails, Interrupt
    <3>3. CASE Starts(at[p]) /\ (Advance(p, "state") \/ End(p, "error"))
      <4>1. pc'[p] \in {"state", "done"}
        BY <3>3, <1>t, Goes, Advances
      <4>2. \A c \in found[p] : ctr'[c] = "running"
        BY <2>2, <3>1, <3>3, <1>t DEF Starts
      <4> QED  BY <3>1, <4>1, <4>2 DEF GcAt
    <3>4. CASE /\ cancelled[p] \/ Interrupt(p)
               /\ End(p, "error") /\ (Starts(at[p]) \/ UNCHANGED runtimeVars)
               /\ (cancelled[p] => cancelled' = cancelled)
      <4>1. pc'[p] = "done" /\ at'[p] = at[p] /\ verdict'[p] = "error" /\ cancelled'[p]
        BY <3>4, <1>t, Goes
      <4>2. \A c \in found[p] : ctr'[c] = "running" \/ c = at[p]
        BY <2>2, <3>1, <3>4, <1>t DEF Starts, runtimeVars
      <4> QED  BY <3>1, <4>1, <4>2 DEF GcAt, LeftAt
    <3> QED  BY <3>2, <3>3, <3>4
  <2> QED  BY <1>3, <2>1, <2>3, <2>4, <2>5, <2>6, GcSteps
<1>4. CASE alone[p] /\ Still(p) /\ UNCHANGED <<ctr, published, vol>>
  <2>1. GcAt(p)
    BY <1>4 DEF Still, GcInv
  <2> QED  BY <1>4, <2>1 DEF Still, GcAt, LeftAt, PortFree
<1> QED  BY <1>1, <1>2, <1>3, <1>4, AloneStep

\* The invariant of a gc that is alone holds between any two steps.
LEMMA GcAlways == Spec => []GcInv
<1>1. Init => GcInv
  BY DEF Init, GcInv
<1> QED  BY <1>1, GcNext, FleetInvariant, PTL DEF Spec

\* A gc that runs by itself costs at most the one cache whose stop a SIGINT cut
\* short; all the others that it stopped run again.
THEOREM GcLosesOneOnly == Spec => []GcLosesAtMostOne
<1>1. GcInv => GcLosesAtMostOne
  BY DEF GcInv, GcAt, LeftAt, GcLosesAtMostOne, Ended
<1> QED  BY <1>1, GcAlways, PTL

\* A gc that runs by itself, and is not interrupted, leaves every cache that it
\* has stopped running, whether its sweeps succeed or fail.
THEOREM GcStartsAgain == Spec => []("interrupt" \notin Faults => GcRestarts)
<1>1. FleetInv /\ GcInv => ("interrupt" \notin Faults => GcRestarts)
  BY DEF FleetInv, CalmInv, GcInv, GcAt, LeftAt, GcRestarts, Ended
<1> QED  BY <1>1, GcAlways, FleetInvariant, PTL

-----------------------------------------------------------------------------
(* What gc sweeps *)

\* With one gc and no up, only gc itself starts a container.
LEMMA OnlyGcStarts ==
    ASSUME FleetInv, SingleGc, NEW p \in Proc, kind[p] = "gc", NEW q \in Proc, q # p,
           Begin(q) \/ Work(q) \/ Kill(q) \/ HelperExits(q),
           NEW c \in Cache, ctr'[c] = "running"
    PROVE  ctr[c] = "running"
<1> USE DEF runtimeVars
<1>0. kind[p] \in Runs[p] /\ PlaceAt(q)
  BY DEF FleetInv, PlaceInv, PlaceAt
<1>1. ~Start(q) /\ ~Run(q) /\ ~GcRestart(q)
  BY <1>0 DEF PlaceAt, SingleGc, Start, Run, GcRestart
<1>2. CASE Begin(q) \/ Discover(q) \/ EnsureVolume(q) \/ State(q) \/ VolumeRm(q) \/ Kill(q) \/ HelperExits(q)
  BY <1>2 DEF Begin, Discover, EnsureVolume, State, VolumeRm, Kill, HelperExits, Query, Call
<1>3. CASE GcSweep(q) \/ GcSwept(q) \/ ExportLooks(q) \/ Tar(q) \/ Tarred(q)
  BY <1>3 DEF GcSweep, GcSwept, ExportLooks, Tar, Tarred, HelperEnds, Mounts, Call
<1>4. CASE Rm(q) \/ GcStop(q)
  <2>1. ctr' = ctr \/ ctr' = [ctr EXCEPT ![at[q]] = "absent"] \/ ctr' = [ctr EXCEPT ![at[q]] = "stopped"]
    BY <1>4 DEF Rm, GcStop, StopFirst, Call, Refused, Removes, Stops
  <2> QED  BY <2>1 DEF FleetInv, TypeOK
<1> QED  BY <1>1, <1>2, <1>3, <1>4 DEF Work

\* Its own steps, unless it is interrupted.
LEMMA SweepWork ==
    ASSUME FleetInv, NEW p \in Proc, kind[p] = "gc", SweepAt(p), Work(p) \/ Kill(p), ~cancelled'[p]
    PROVE  SweepAt(p)'
<1>t. TypeOK /\ at[p] \in Cache /\ ~cancelled[p] /\ ~Interrupt(p)
  BY WorkCancels DEF FleetInv, TypeOK
<1>1. CASE State(p) \/ GcRestart(p)
  <2>1. helper' = helper /\ helper[p] = {}
    BY <1>1 DEF State, GcRestart, Query, Call, Starts, runtimeVars, SweepAt
  <2>2. pc'[p] \in {"state", "stop", "done"}
    <3>1. Advance(p, "state") \/ Goto(p, "stop") \/ End(p, "error")
      BY <1>1, <1>t DEF State, GcRestart, Query, Call
    <3> QED  BY <3>1, <1>t, Goes, Advances
  <2> QED  BY <2>1, <2>2 DEF SweepAt
<1>2. CASE GcStop(p)
  <2>1. helper' = helper /\ helper[p] = {}
    BY <1>2 DEF GcStop, StopFirst, Stops, Call, Refused, runtimeVars, SweepAt
  <2>2. \/ pc'[p] = "sweep" /\ at'[p] = at[p] /\ ctr'[at[p]] = "stopped"
        \/ pc'[p] = "done"
    <3>1. \/ Goto(p, "sweep") /\ ctr' = [ctr EXCEPT ![at[p]] = "stopped"]
          \/ End(p, "error")
      BY <1>2, <1>t DEF GcStop, StopFirst, Stops, Call, Refused
    <3>2. ctr \in [Cache -> {"absent", "stopped", "running"}]
      BY <1>t DEF TypeOK
    <3>3. ctr' = [ctr EXCEPT ![at[p]] = "stopped"] => ctr'[at[p]] = "stopped"
      BY <1>t, <3>2
    <3>4. Goto(p, "sweep") => pc'[p] = "sweep" /\ at'[p] = at[p]
      BY <1>t, Goes
    <3>5. End(p, "error") => pc'[p] = "done"
      BY <1>t, Goes
    <3> QED  BY <3>1, <3>3, <3>4, <3>5
  <2> QED  BY <2>1, <2>2 DEF SweepAt
<1>3. CASE GcSweep(p)
  <2>1. pc'[p] = "sweeping" /\ at'[p] = at[p] /\ ctr' = ctr /\ helper' = [helper EXCEPT ![p] = {at[p]}]
    BY <1>3, <1>t, Goes DEF GcSweep, Call, Mounts
  <2>2. ctr[at[p]] # "running"
    BY <1>3 DEF GcSweep, SweepAt
  <2> QED  BY <2>1, <2>2 DEF SweepAt, FleetInv, TypeOK
<1>4. CASE GcSwept(p)
  <2>1. pc'[p] = "restart" /\ helper' = [helper EXCEPT ![p] = {}]
    BY <1>4, <1>t, Goes DEF GcSwept, HelperEnds
  <2> QED  BY <2>1 DEF SweepAt, FleetInv, TypeOK
<1>5. CASE Kill(p)
  <2>1. pc'[p] = "done" /\ at' = at /\ ctr' = ctr /\ helper' = helper
    BY <1>5, <1>t, Killed DEF Kill, End, runtimeVars
  <2> QED  BY <2>1 DEF SweepAt
<1> QED  BY <1>1, <1>2, <1>3, <1>4, <1>5, GcSteps

\* Its own steps keep it, and no step of another command starts its cache.
LEMMA SweepNext == FleetInv /\ SweepInv /\ [Next]_vars => SweepInv'
<1> SUFFICES ASSUME FleetInv, SweepInv, [Next]_vars, SingleGc, NEW p \in Proc, kind'[p] = "gc"
             PROVE  SweepAt(p)'
    BY DEF SweepInv
<1>t. TypeOK /\ at[p] \in Cache
  BY DEF FleetInv, TypeOK
<1>1. kind[p] = "gc" => SweepAt(p)
  BY DEF SweepInv
<1>2. CASE Begin(p)
  <2>1. helper'[p] = {} /\ pc'[p] = "state"
    BY <1>2, Begun DEF FirstStep, Begin, runtimeVars, FleetInv, RestInv, RestAt
  <2> QED  BY <2>1 DEF SweepAt
<1>3. CASE Work(p) \/ Kill(p)
  <2>1. ~cancelled'[p]
    BY CalmNext DEF FleetInv, SingleGc, CalmInv
  <2> QED  BY <1>1, <1>3, <2>1, WorkIsActive, SweepWork
<1>4. CASE HelperExits(p)
  BY <1>1, <1>4, <1>t DEF HelperExits, SweepAt, TypeOK
<1>5. ASSUME NEW q \in Proc, q # p, Begin(q) \/ Work(q) \/ Kill(q) \/ HelperExits(q) PROVE SweepAt(p)'
  <2>1. Still(p) /\ helper'[p] = helper[p]
    BY <1>5, <1>t, OthersStill, HelperOf
  <2>2. kind[p] = "gc"
    BY <2>1 DEF Still
  <2>3. ctr'[at[p]] = "running" => ctr[at[p]] = "running"
    BY <1>5, <1>t, <2>2, OnlyGcStarts
  <2> QED  BY <1>1, <2>1, <2>2, <2>3 DEF Still, SweepAt
<1>6. CASE UNCHANGED vars
  BY <1>1, <1>6 DEF vars, runtimeVars, SweepAt
<1> QED  BY <1>2, <1>3, <1>4, <1>5, <1>6, WhoseStep

\* One gc beside any other commands but up, also killed ones, sweeps stopped
\* caches only.
THEOREM GcSweepsAlone == Spec => [](SingleGc => GcAlone)
<1>1. Init => SweepInv
  BY DEF Init, SweepInv
<1>2. SweepInv => (SingleGc => GcAlone)
  BY DEF SweepInv, SweepAt, GcAlone
<1> QED  BY <1>1, <1>2, SweepNext, FleetInvariant, PTL DEF Spec

\* Nobody else does anything beside a gc that is alone but end its helper.
LEMMA SweptNext == FleetInv /\ SweptInv /\ [Next]_vars => SweptInv'
<1> SUFFICES ASSUME FleetInv, SweptInv, [Next]_vars, NEW p \in Proc, alone'[p], kind'[p] = "gc", ~cancelled'[p]
             PROVE  SweepAt(p)'
    BY DEF SweptInv
<1>t. TypeOK /\ at[p] \in Cache
  BY DEF FleetInv, TypeOK
<1>1. CASE Begin(p)
  <2>1. helper'[p] = {} /\ pc'[p] = "state"
    BY <1>1, Begun DEF FirstStep, Begin, runtimeVars, FleetInv, RestInv, RestAt
  <2> QED  BY <2>1 DEF SweepAt
<1>2. CASE Work(p) \/ Kill(p)
  <2>1. alone[p] /\ kind[p] = "gc" /\ ~cancelled[p]
    BY <1>2, <1>t, WorkIsActive, WorkCancels
  <2> QED  BY <1>2, <2>1, SweepWork DEF SweptInv
<1>3. CASE HelperExits(p)
  <2>1. SweepAt(p)
    BY <1>3 DEF HelperExits, SweptInv
  <2> QED  BY <1>3, <2>1, <1>t DEF HelperExits, SweepAt, TypeOK
<1>4. ASSUME NEW q \in Proc, q # p, Begin(q) \/ Work(q) \/ Kill(q) \/ HelperExits(q) PROVE SweepAt(p)'
  <2>1. ~Begin(q)
    BY <1>4 DEF Begin
  <2>2. ~Work(q) /\ ~Kill(q)
    BY <1>4, WorkIsActive DEF FleetInv, AloneInv
  <2>3. HelperExits(q) /\ helper'[p] = helper[p]
    BY <1>4, <1>t, <2>1, <2>2, HelperOf
  <2>4. SweepAt(p)
    BY <2>3 DEF HelperExits, SweptInv
  <2> QED  BY <2>3, <2>4 DEF HelperExits, SweepAt
<1>5. CASE UNCHANGED vars
  <2>1. SweepAt(p)
    BY <1>5 DEF vars, SweptInv
  <2> QED  BY <1>5, <2>1 DEF vars, runtimeVars, SweepAt
<1> QED  BY <1>1, <1>2, <1>3, <1>4, <1>5, WhoseStep

\* What a gc that is alone sweeps is stopped, also when it was killed; but an
\* interrupted one starts its cache again while its helper may go on.
THEOREM GcSweepsStoppedCaches == Spec => []GcSweepsStopped
<1>1. Init => SweptInv
  BY DEF Init, SweptInv
<1>2. SweptInv => GcSweepsStopped
  BY DEF SweptInv, SweepAt, GcSweepsStopped
<1> QED  BY <1>1, <1>2, SweptNext, FleetInvariant, PTL DEF Spec

-----------------------------------------------------------------------------
(* down --purge *)

\* The steps of a down --purge.
LEMMA PurgeSteps ==
    ASSUME FleetInv, NEW p \in Proc, kind[p] = "purge", Work(p)
    PROVE  State(p) \/ Rm(p) \/ VolumeRm(p)
<1>1. PlaceAt(p)
  BY DEF FleetInv, PlaceInv
<1> QED  BY <1>1 DEF PlaceAt, Work, Discover, EnsureVolume, Start, Run, GcStop, GcSweep, GcSwept, GcRestart, ExportLooks, Tar, Tarred

\* A helper that was left is not forgotten.
LEMMA LeftStays ==
    ASSUME FleetInv, PurgeInv, [Next]_vars, NEW p \in Proc, LeavesHelper(p)
    PROVE  LeavesHelper(p)'
<1>t. TypeOK
  BY DEF FleetInv
<1>1. ASSUME Still(p) PROVE LeavesHelper(p)'
  BY <1>1 DEF Still, LeavesHelper
<1>2. ~Begin(p)
  BY DEF Begin, FleetInv, RestInv, RestAt, LeavesHelper
<1>3. CASE Work(p) \/ Kill(p)
  <2>1. kind' = kind /\ cancelled[p]
    BY <1>3, WorkIsActive DEF PurgeInv, HelperAt, LeavesHelper, Active
  <2> QED  BY <1>3, <2>1, <1>t, WorkCancels DEF LeavesHelper
<1>4. CASE HelperExits(p) \/ UNCHANGED vars
  BY <1>1, <1>4 DEF HelperExits, vars, Still
<1>5. ASSUME NEW q \in Proc, q # p, Begin(q) \/ Work(q) \/ Kill(q) \/ HelperExits(q) PROVE LeavesHelper(p)'
  BY <1>1, <1>5, <1>t, OthersStill
<1> QED  BY <1>2, <1>3, <1>4, <1>5, WhoseStep

\* A killed process has ended.
LEMMA DeadNext ==
    ASSUME FleetInv, [Next]_vars, NEW p \in Proc, HelperAt(p), verdict'[p] = "killed"
    PROVE  pc'[p] = "done"
<1>t. TypeOK
  BY DEF FleetInv
<1>1. ASSUME Still(p) PROVE pc'[p] = "done"
  BY <1>1 DEF Still, HelperAt
<1>2. ~Begin(p)
  BY DEF Begin, FleetInv, RestInv, RestAt
<1>3. CASE Work(p) \/ Kill(p)
  <2>1. verdict[p] # "killed"
    BY <1>3, WorkIsActive DEF HelperAt, Active
  <2>2. Moved(p)
    BY <1>3, <1>t, WorkMoves
  <2>3. CASE \/ \E to \in PC : Goto(p, to)
             \/ Fail(p)
             \/ at' = [at EXCEPT ![p] = 1] /\ pc' = [pc EXCEPT ![p] = "volume"] /\ UNCHANGED verdict
    BY <2>1, <2>3, <1>t, Goes
  <2>4. CASE \E how \in {"ok", "error", "killed"} : End(p, how)
    BY <2>4, <1>t, Goes
  <2>5. CASE \E first \in PC : Advance(p, first)
    BY <2>1, <2>5, <1>t, Advances
  <2> QED  BY <2>2, <2>3, <2>4, <2>5 DEF Moved
<1>4. CASE HelperExits(p) \/ UNCHANGED vars
  BY <1>1, <1>4 DEF HelperExits, vars, Still
<1>5. ASSUME NEW q \in Proc, q # p, Begin(q) \/ Work(q) \/ Kill(q) \/ HelperExits(q) PROVE pc'[p] = "done"
  BY <1>1, <1>5, <1>t, OthersStill
<1> QED  BY <1>2, <1>3, <1>4, <1>5, WhoseStep

\* A process takes its helper down with it, unless it is killed or interrupted.
LEMMA HelperNext ==
    ASSUME FleetInv, PurgeInv, [Next]_vars, NEW p \in Proc, helper'[p] # {}
    PROVE  pc'[p] \in {"sweeping", "taring"} \/ LeavesHelper(p)'
<1>t. TypeOK /\ PlaceAt(p)
  BY DEF FleetInv, PlaceInv
<1>0. helper[p] # {} => pc[p] \in {"sweeping", "taring"} \/ LeavesHelper(p)'
  BY LeftStays DEF PurgeInv, HelperAt
<1>1. ASSUME NEW q \in Proc, q # p, Begin(q) \/ Work(q) \/ Kill(q) \/ HelperExits(q)
      PROVE  pc'[p] \in {"sweeping", "taring"} \/ LeavesHelper(p)'
  BY <1>0, <1>1, <1>t, OthersStill, HelperOf DEF Still
<1>2. CASE Begin(p)
  BY <1>2, Begun DEF runtimeVars, Begin, FleetInv, RestInv, RestAt
<1>3. CASE HelperExits(p)
  BY <1>3, <1>t DEF HelperExits, TypeOK
<1>4. CASE Kill(p)
  <2>1. helper[p] # {} /\ kind'[p] = kind[p] /\ verdict'[p] = "killed"
    BY <1>4, <1>t, Killed DEF Kill, runtimeVars
  <2> QED  BY <1>0, <1>t, <2>1 DEF PlaceAt, LeavesHelper
<1>5. CASE Discover(p) \/ EnsureVolume(p) \/ State(p) \/ Start(p) \/ Run(p) \/ Rm(p) \/ VolumeRm(p)
  <2>1. helper' = helper /\ pc[p] \notin {"sweeping", "taring"}
    BY <1>5 DEF Discover, EnsureVolume, State, Start, Run, Rm, VolumeRm, Call, Query, Refused, Starts, Creates, Removes, runtimeVars
  <2> QED  BY <1>0, <2>1
<1>6. CASE GcStop(p) \/ GcRestart(p) \/ ExportLooks(p)
  <2>1. helper' = helper /\ pc[p] \notin {"sweeping", "taring"}
    BY <1>6 DEF GcStop, StopFirst, GcRestart, ExportLooks, Call, Refused, Starts, Stops, runtimeVars
  <2> QED  BY <1>0, <2>1
<1>7. CASE GcSweep(p) \/ Tar(p)
  <2>1. pc[p] \in {"sweep", "tar"} /\ kind' = kind
    BY <1>7 DEF GcSweep, Tar, ownVars
  <2>2. pc'[p] \in {"sweeping", "taring"} \/ cancelled'[p]
    <3>1. Goto(p, "sweeping") \/ Goto(p, "taring") \/ cancelled[p] \/ Interrupt(p)
      BY <1>7 DEF GcSweep, Tar, Call
    <3> QED  BY <1>7, <1>t, <3>1, Goes, WorkCancels DEF Work
  <2> QED  BY <1>t, <2>1, <2>2 DEF PlaceAt, LeavesHelper
<1>8. CASE GcSwept(p) \/ Tarred(p)
  <2>1. pc[p] \in {"sweeping", "taring"} /\ kind' = kind /\ Interrupt(p)
    BY <1>8, <1>t DEF GcSwept, Tarred, HelperEnds, ownVars, TypeOK
  <2>2. cancelled'[p]
    BY <2>1, <1>t, Goes
  <2> QED  BY <1>t, <2>1, <2>2 DEF PlaceAt, LeavesHelper
<1>9. CASE UNCHANGED vars
  BY <1>0, <1>9 DEF vars, runtimeVars
<1> QED  BY <1>1, <1>2, <1>3, <1>4, <1>5, <1>6, <1>7, <1>8, <1>9, WhoseStep DEF Work

\* Each volume is removed once its container is, as nothing else has it.
LEMMA PurgeNext == FleetInv /\ PurgeInv /\ [Next]_vars => PurgeInv'
<1> SUFFICES ASSUME FleetInv, PurgeInv, [Next]_vars, NEW p \in Proc
             PROVE  /\ HelperAt(p)'
                    /\ NoHelperLeft' /\ alone'[p] /\ kind'[p] = "purge" /\ ~cancelled'[p] => PurgeAt(p)'
    BY DEF PurgeInv
<1>1. HelperAt(p)'
  BY HelperNext, DeadNext DEF PurgeInv, HelperAt
<1> SUFFICES ASSUME NoHelperLeft', alone'[p], kind'[p] = "purge", ~cancelled'[p] PROVE PurgeAt(p)'
    BY <1>1
<1>0. NoHelperLeft
  BY LeftStays DEF NoHelperLeft
<1>t. TypeOK /\ at[p] \in Cache
  BY DEF FleetInv, TypeOK
<1>2. CASE Begin(p)
  BY <1>2, Begun, Passed DEF FirstStep, PurgeAt
<1>3. CASE Kill(p)
  BY <1>3, <1>t, Killed DEF PurgeAt
<1>4. CASE alone[p] /\ Work(p)
  <2>0. ~cancelled[p] /\ ~Interrupt(p)
    BY <1>4, <1>t, WorkCancels
  <2>1. kind[p] = "purge" /\ Active(p) /\ PurgeAt(p)
    BY <1>0, <1>4, <2>0, WorkIsActive DEF PurgeInv
  <2>2. CASE State(p)
    <3>1. UNCHANGED <<ctr, vol>> /\ pc[p] = "state"
      BY <2>2 DEF State, Query, Call, runtimeVars
    <3>2. Goto(p, "rm") \/ (ctr[at[p]] = "absent" /\ Goto(p, "volrm"))
      BY <2>0, <2>1, <2>2, <1>t DEF State, Query, Call
    <3>3. at'[p] = at[p] /\ (pc'[p] = "rm" \/ (ctr[at[p]] = "absent" /\ pc'[p] = "volrm"))
      BY <3>2, <1>t, Goes
    <3> QED  BY <2>1, <3>1, <3>3 DEF PurgeAt
  <2>3. CASE Rm(p)
    <3>1. pc[p] = "rm" /\ Removes(at[p]) /\ pc'[p] = "volrm" /\ at'[p] = at[p]
      BY <2>0, <2>1, <2>3, <1>t, Goes DEF Rm, AfterRm, Call
    <3> QED  BY <2>1, <3>1, <1>t DEF Removes, PurgeAt, TypeOK
  <2>4. CASE VolumeRm(p)
    <3>1. pc[p] = "volrm" /\ ctr[at[p]] = "absent"
      BY <2>1, <2>4 DEF VolumeRm, PurgeAt
    <3>2. ASSUME NEW q \in Proc PROVE helper[q] = {}
      <4>1. Active(q) => q = p
        BY <1>4 DEF FleetInv, AloneInv
      <4>2. helper[q] # {} => pc[q] \in {"sweeping", "taring"}
        BY <1>0 DEF PurgeInv, HelperAt, NoHelperLeft
      <4> QED  BY <3>1, <4>1, <4>2 DEF Active
    <3>3. ~InUse(at[p])
      BY <3>1, <3>2 DEF InUse
    <3>4. vol' = [vol EXCEPT ![at[p]] = FALSE] /\ UNCHANGED ctr /\ Advance(p, "state")
      BY <2>0, <2>4, <3>3, <1>t DEF VolumeRm, Call
    <3>5. \A c \in Cache : c < at[p] \/ c = at[p] => ctr'[c] = "absent" /\ ~vol'[c]
      BY <2>1, <3>1, <3>4, <1>t DEF PurgeAt, TypeOK
    <3>6. CASE at'[p] = at[p] + 1 /\ pc'[p] = "state"
      <4>1. \A c \in Cache : c < at'[p] => ctr'[c] = "absent" /\ ~vol'[c]
        BY <1>t, <3>5, <3>6, Passed
      <4> QED  BY <3>6, <4>1 DEF PurgeAt
    <3>7. CASE at[p] = NumCaches /\ pc'[p] = "done"
      BY <3>5, <3>7, Passed DEF PurgeAt
    <3> QED  BY <1>t, <3>4, <3>6, <3>7, Advances
  <2> QED  BY <1>4, <2>1, <2>2, <2>3, <2>4, PurgeSteps
<1>5. CASE alone[p] /\ Still(p) /\ UNCHANGED <<ctr, published, vol>>
  <2>1. PurgeAt(p)
    BY <1>0, <1>5 DEF Still, PurgeInv
  <2> QED  BY <1>5, <2>1 DEF Still, PurgeAt
<1> QED  BY <1>2, <1>3, <1>4, <1>5, AloneStep

\* A down --purge that runs by itself and is not interrupted deletes every volume,
\* unless a command before it was killed or interrupted that had a helper.
THEOREM PurgeDeletes == Spec => []PurgedIsGone
<1>1. Init => PurgeInv
  BY DEF Init, PurgeInv, HelperAt
<1>2. PurgeInv => PurgedIsGone
  BY DEF PurgeInv, PurgeAt, NoHelperLeft, PurgedIsGone, Ended
<1> QED  BY <1>1, <1>2, PurgeNext, FleetInvariant, PTL DEF Spec
=============================================================================
