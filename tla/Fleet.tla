-------------------------------- MODULE Fleet --------------------------------
(***************************************************************************)
(* The fleet of cache containers and the commands that act on it           *)
(* (internal/cache/cache.go, transfer.go, main.go): up, down, gc, export,  *)
(* import, print-registries.                                               *)
(*                                                                         *)
(* Each invocation of regcachectl is a process of its own; they share the  *)
(* container runtime, which is external, and have no lock on it.  A step   *)
(* is one call of the runtime's command line: an atomic effect on the      *)
(* containers and volumes, and an answer the command acts on later.        *)
(* Queries whose answer no later step uses are left out.                   *)
(***************************************************************************)
EXTENDS Naturals, FiniteSets

CONSTANTS
    Proc,         \* invocations; each is one command
    Runs,         \* process -> the commands it may be
    NumCaches,    \* how many upstreams the fleet has
    Blobcache,    \* the caches that are the blob cache: up needs its own image
    HasImage,     \* that image has been built
    DefaultBase,  \* DefaultPortBase
    IsUp,         \* whether an earlier up has brought the fleet up
    Flags,        \* values of --port-base that are typed; it may be absent too
    Faults        \* "interrupt": SIGINT; "kill": the process dies; "helper":
                  \* a helper container fails

Cache == 1 .. NumCaches
Kinds == {"up", "down", "purge", "gc", "export", "import", "print"}
NoPort == 0
Ports == {NoPort} \cup {b + c - 1 : b \in Flags \cup {DefaultBase}, c \in Cache}

ASSUME FleetAssumption ==
    /\ NumCaches \in Nat \ {0}
    /\ DefaultBase \in Nat \ {0}
    /\ Flags \subseteq Nat \ {0}
    /\ Runs \in [Proc -> SUBSET Kinds]
    /\ Blobcache \subseteq Cache
    /\ HasImage \in BOOLEAN /\ IsUp \in BOOLEAN

VARIABLES
    ctr,        \* each cache's container: "absent", "stopped", "running"
    published,  \* the port its container was created with
    vol,        \* whether its volume exists
    helper,     \* volumes that a process's helper container has mounted
    pc,         \* where each process is
    kind,       \* its command
    flag,       \* its --port-base, or NoPort when absent
    at,         \* the cache its loop has come to
    ports,      \* what DiscoverPorts found
    found,      \* caches that gc has found running, volumes export will mount
    cancelled,  \* its context
    verdict,    \* how it ended
    alone       \* no other command has run beside it or since

runtimeVars == <<ctr, published, vol, helper>>
vars == <<runtimeVars, pc, kind, flag, at, ports, found, cancelled, verdict, alone>>

PC == {"idle", "discover", "volume", "state", "start", "run", "rm", "volrm", "stop", "sweep",
       "sweeping", "restart", "exists", "tar", "taring", "done"}

\* Every variable has its type.
TypeOK ==
    /\ ctr \in [Cache -> {"absent", "stopped", "running"}]
    /\ published \in [Cache -> Ports]
    /\ vol \in [Cache -> BOOLEAN]
    /\ helper \in [Proc -> SUBSET Cache]
    /\ pc \in [Proc -> PC]
    /\ kind \in [Proc -> Kinds \cup {"none"}]
    /\ flag \in [Proc -> Flags \cup {NoPort}]
    /\ at \in [Proc -> Cache]
    /\ ports \in [Proc -> [Cache -> Ports]]
    /\ found \in [Proc -> SUBSET Cache]
    /\ cancelled \in [Proc -> BOOLEAN]
    /\ verdict \in [Proc -> {"none", "ok", "error", "killed"}]
    /\ alone \in [Proc -> BOOLEAN]

Init ==
    /\ ctr = [c \in Cache |-> IF IsUp THEN "running" ELSE "absent"]
    /\ published = [c \in Cache |-> IF IsUp THEN DefaultBase + c - 1 ELSE NoPort]
    /\ vol = [c \in Cache |-> IsUp]
    /\ helper = [p \in Proc |-> {}]
    /\ pc = [p \in Proc |-> "idle"]
    /\ kind = [p \in Proc |-> "none"]
    /\ flag = [p \in Proc |-> NoPort]
    /\ at = [p \in Proc |-> 1]
    /\ ports = [p \in Proc |-> [c \in Cache |-> NoPort]]
    /\ found = [p \in Proc |-> {}]
    /\ cancelled = [p \in Proc |-> FALSE]
    /\ verdict = [p \in Proc |-> "none"]
    /\ alone = [p \in Proc |-> FALSE]

-----------------------------------------------------------------------------
(* The container runtime, external: what one call does to cache c.         *)

PortFree(c, n) == \A d \in Cache \ {c} : ctr[d] = "running" => published[d] # n

\* start: a no-op on a running container
Starts(c) ==
    /\ ctr[c] # "absent"
    /\ ctr[c] = "running" \/ PortFree(c, published[c])
    /\ ctr' = [ctr EXCEPT ![c] = "running"]
    /\ UNCHANGED <<published, vol, helper>>

StartFails(c) == ctr[c] = "absent" \/ (ctr[c] = "stopped" /\ ~PortFree(c, published[c]))

\* run -d: creates the volume too when it is not there
Creates(c, n, state) ==
    /\ ctr[c] = "absent"
    /\ ctr' = [ctr EXCEPT ![c] = state]
    /\ published' = [published EXCEPT ![c] = n]
    /\ vol' = [vol EXCEPT ![c] = TRUE]
    /\ UNCHANGED helper

Stops(c) ==
    /\ ctr[c] # "absent"
    /\ ctr' = [ctr EXCEPT ![c] = "stopped"]
    /\ UNCHANGED <<published, vol, helper>>

Removes(c) ==
    /\ ctr' = [ctr EXCEPT ![c] = "absent"]
    /\ published' = [published EXCEPT ![c] = NoPort]
    /\ UNCHANGED <<vol, helper>>

InUse(c) == ctr[c] # "absent" \/ \E p \in Proc : c \in helper[p]

Mounts(p, caches) ==
    /\ helper' = [helper EXCEPT ![p] = caches]
    /\ vol' = [c \in Cache |-> vol[c] \/ c \in caches]
    /\ UNCHANGED <<ctr, published>>

\* A helper container whose process is gone ends some time.
HelperExits(p) ==
    /\ helper[p] # {}
    /\ pc[p] \notin {"sweeping", "taring"}
    /\ helper' = [helper EXCEPT ![p] = {}]
    /\ UNCHANGED <<ctr, published, vol, pc, kind, flag, at, ports, found, cancelled, verdict, alone>>

-----------------------------------------------------------------------------
(* What every command is made of                                           *)

Goto(p, to) == pc' = [pc EXCEPT ![p] = to] /\ UNCHANGED <<at, verdict>>

End(p, how) ==
    /\ pc' = [pc EXCEPT ![p] = "done"]
    /\ verdict' = [verdict EXCEPT ![p] = how]
    /\ UNCHANGED at

\* The loop over Upstreams goes on with the step first, or the command ends.
Advance(p, first) ==
    IF at[p] < NumCaches
    THEN /\ at' = [at EXCEPT ![p] = @ + 1]
         /\ pc' = [pc EXCEPT ![p] = first]
         /\ UNCHANGED verdict
    ELSE End(p, "ok")

\* SIGINT cancels the context, which kills the runtime's command line: the
\* runtime itself may have done what it was asked, or not.  A call under a
\* cancelled context does nothing.
Interrupt(p) ==
    /\ "interrupt" \in Faults
    /\ ~cancelled[p]
    /\ cancelled' = [cancelled EXCEPT ![p] = TRUE]

Call(p, Effect, Then, Else) ==
    \/ ~cancelled[p] /\ Effect /\ Then /\ UNCHANGED cancelled
    \/ cancelled[p] /\ UNCHANGED <<runtimeVars, cancelled>> /\ Else
    \/ Interrupt(p) /\ (Effect \/ UNCHANGED runtimeVars) /\ Else

\* A call that only asks.
Query(p, Then, Else) == Call(p, UNCHANGED runtimeVars, Then, Else)

\* A call that fails by itself.
Refused(p, why, Effect) == ~cancelled[p] /\ why /\ Effect /\ End(p, "error") /\ UNCHANGED cancelled

FirstStep(k) ==
    CASE k \in {"up", "print"} -> "discover"
      [] k \in {"down", "purge", "gc"} -> "state"
      [] k = "export" -> "exists"
      [] k = "import" -> "volume"

Active(p) == pc[p] \notin {"idle", "done"}

Begin(p) ==
    /\ pc[p] = "idle"
    /\ \E k \in Runs[p], f \in Flags \cup {NoPort} :
        /\ kind' = [kind EXCEPT ![p] = k]
        /\ flag' = [flag EXCEPT ![p] = IF k \in {"up", "print"} THEN f ELSE NoPort]
        /\ pc' = [pc EXCEPT ![p] = FirstStep(k)]
    /\ alone' = [q \in Proc |-> q = p /\ \A r \in Proc : ~Active(r)]
    /\ UNCHANGED <<runtimeVars, at, ports, found, cancelled, verdict>>

\* The process dies where it is.
Kill(p) ==
    /\ "kill" \in Faults
    /\ Active(p)
    /\ End(p, "killed")
    /\ UNCHANGED <<runtimeVars, kind, flag, ports, found, cancelled, alone>>
-----------------------------------------------------------------------------
(* buildEngine: DiscoverPorts asks each container in turn for its port.    *)
(* One that is absent, or cannot be asked, is left out.                    *)

\* (Variants: what was discovered is not used; the index is one-based.)
PortOfDefault(p, c) == (IF flag[p] = NoPort THEN DefaultBase ELSE flag[p]) + c - 1
PortOfNext(p, c) == (IF flag[p] = NoPort THEN DefaultBase ELSE flag[p]) + c

\* Engine.Port
PortOf(p, c) ==
    IF flag[p] = NoPort /\ ports[p][c] # NoPort THEN ports[p][c]
    ELSE (IF flag[p] = NoPort THEN DefaultBase ELSE flag[p]) + c - 1

Discover(p) ==
    /\ pc[p] = "discover"
    /\ \/ ~cancelled[p] /\ ports' = [ports EXCEPT ![p][at[p]] = published[at[p]]] /\ UNCHANGED cancelled
       \/ cancelled[p] /\ UNCHANGED <<ports, cancelled>>
       \/ Interrupt(p) /\ UNCHANGED ports
    /\ IF at[p] < NumCaches \/ kind[p] = "print" THEN Advance(p, "discover")
       ELSE at' = [at EXCEPT ![p] = 1] /\ pc' = [pc EXCEPT ![p] = "volume"] /\ UNCHANGED verdict
    /\ UNCHANGED <<runtimeVars, kind, flag, found, alone>>

-----------------------------------------------------------------------------
(* The steps of the commands                                               *)

ownVars == <<kind, flag, ports, found, alone>>

\* up and import: ensureVolume.  up skips a blob cache that has no image.
EnsureVolume(p) ==
    LET c == at[p]
        Create == /\ vol' = [vol EXCEPT ![c] = TRUE]
                  /\ UNCHANGED <<ctr, published, helper>>
        skip == kind[p] = "up" /\ c \in Blobcache /\ ~HasImage
    IN /\ pc[p] = "volume"
       /\ \/ skip /\ Query(p, Advance(p, "volume"), End(p, "error"))
          \/ ~skip /\ kind[p] = "up" /\ Call(p, Create, Goto(p, "state"), End(p, "error"))
          \/ /\ kind[p] = "import"
             /\ Call(p, Create, IF c < NumCaches THEN Advance(p, "volume") ELSE Goto(p, "tar"), End(p, "error"))
       /\ UNCHANGED ownVars

\* (Variant: a container that exists is taken to be running.)
UpSeesExists(state) == IF state = "absent" THEN "run" ELSE "next"
UpSees(state) == CASE state = "absent" -> "run" [] state = "stopped" -> "start" [] state = "running" -> "next"

GcWants(c) == ctr[c] = "running" /\ c \notin Blobcache

\* containerState, and what each command makes of the answer
State(p) ==
    LET c == at[p]
        OnUp == IF UpSees(ctr[c]) = "next" THEN Advance(p, "volume") ELSE Goto(p, UpSees(ctr[c]))
        OnDown == IF ctr[c] # "absent" THEN Goto(p, "rm")
                  ELSE IF kind[p] = "purge" THEN Goto(p, "volrm") ELSE Advance(p, "state")
        OnGc == IF GcWants(c) THEN Goto(p, "stop") ELSE Advance(p, "state")
    IN /\ pc[p] = "state"
       /\ Query(p, CASE kind[p] = "up" -> OnUp [] kind[p] = "gc" -> OnGc [] OTHER -> OnDown, End(p, "error"))
       /\ UNCHANGED ownVars

\* up: start a stopped container
Start(p) ==
    /\ pc[p] = "start"
    /\ \/ Call(p, Starts(at[p]), Advance(p, "volume"), End(p, "error"))
       \/ Refused(p, StartFails(at[p]), UNCHANGED runtimeVars)
    /\ UNCHANGED ownVars

\* up: run a new one.  When its port is taken, or the command line is killed
\* between its two requests, the container is there but not started.
Run(p) ==
    LET c == at[p]
        n == PortOf(p, c)
    IN /\ pc[p] = "run"
       /\ \/ Call(p, PortFree(c, n) /\ Creates(c, n, "running"), Advance(p, "volume"), End(p, "error"))
          \/ Interrupt(p) /\ Creates(c, n, "stopped") /\ End(p, "error")
          \/ Refused(p, ~PortFree(c, n), Creates(c, n, "stopped"))
          \/ Refused(p, ctr[c] # "absent", UNCHANGED runtimeVars)
       /\ UNCHANGED ownVars

\* (Variant: the volume of a container that was there is forgotten.)
ForgetVolume(p) == Advance(p, "state")
AfterRm(p) == IF kind[p] = "purge" THEN Goto(p, "volrm") ELSE Advance(p, "state")

\* down: rm -f
Rm(p) ==
    /\ pc[p] = "rm"
    /\ Call(p, Removes(at[p]), AfterRm(p), End(p, "error"))
    /\ UNCHANGED ownVars

\* down --purge: volume rm, whose failure is ignored
VolumeRm(p) ==
    LET c == at[p]
        Remove == IF InUse(c) THEN UNCHANGED runtimeVars
                  ELSE vol' = [vol EXCEPT ![c] = FALSE] /\ UNCHANGED <<ctr, published, helper>>
    IN /\ pc[p] = "volrm"
       /\ Call(p, Remove, Advance(p, "state"), Advance(p, "state"))
       /\ UNCHANGED ownVars

-----------------------------------------------------------------------------
(* gcOne                                                                   *)

\* (Variant: the sweep runs beside the serving cache.)
KeepServing(c) == UNCHANGED runtimeVars
StopFirst(c) == Stops(c)

GcStop(p) ==
    /\ pc[p] = "stop"
    /\ \/ /\ Call(p, StopFirst(at[p]), Goto(p, "sweep"), End(p, "error"))
          /\ found' = [found EXCEPT ![p] = @ \cup {at[p]}]
       \/ /\ Refused(p, ctr[at[p]] = "absent", UNCHANGED runtimeVars)
          /\ UNCHANGED found
    /\ UNCHANGED <<kind, flag, ports, alone>>

\* (Variant: a failed run returns before the deferred start.)
LeaveStopped(p) == End(p, "error")
Fail(p) ==
    /\ pc' = [pc EXCEPT ![p] = "restart"]
    /\ verdict' = [verdict EXCEPT ![p] = "error"]
    /\ UNCHANGED at

\* The helper container that runs garbage-collect on the volume.
GcSweep(p) ==
    /\ pc[p] = "sweep"
    /\ Call(p, Mounts(p, {at[p]}), Goto(p, "sweeping"), Fail(p))
    /\ UNCHANGED ownVars

\* It ends, or the command line that waits for it is killed: the helper dies
\* with it or stays.
HelperEnds(p, Then, Else) ==
    /\ \/ helper' = [helper EXCEPT ![p] = {}] /\ UNCHANGED cancelled /\ Then
       \/ "helper" \in Faults /\ helper' = [helper EXCEPT ![p] = {}] /\ UNCHANGED cancelled /\ Else
       \/ Interrupt(p) /\ helper' \in {helper, [helper EXCEPT ![p] = {}]} /\ Else
    /\ UNCHANGED <<ctr, published, vol, ownVars>>

GcSwept(p) == pc[p] = "sweeping" /\ HelperEnds(p, Goto(p, "restart"), Fail(p))

\* The deferred start, under a context of its own: what was cancelled before does
\* not stop it, but a SIGINT from the terminal reaches its command line too, and
\* the command ends there.
GcRestart(p) ==
    /\ pc[p] = "restart"
    /\ \/ /\ Starts(at[p]) /\ UNCHANGED cancelled
          /\ IF verdict[p] = "error" THEN End(p, "error") ELSE Advance(p, "state")
       \/ StartFails(at[p]) /\ UNCHANGED <<runtimeVars, cancelled>> /\ End(p, "error")
       \/ /\ Interrupt(p) \/ (cancelled[p] /\ UNCHANGED cancelled)
          /\ (Starts(at[p]) \/ UNCHANGED runtimeVars) /\ End(p, "error")
    /\ UNCHANGED ownVars

-----------------------------------------------------------------------------
(* Export and Import: a helper container with the volumes mounted          *)

\* volumeExists: an answer that does not come counts as no.
ExportLooks(p) ==
    /\ pc[p] = "exists"
    /\ LET Onward(some) == IF at[p] < NumCaches THEN Advance(p, "exists")
                          ELSE IF some = {} THEN End(p, "error") ELSE Goto(p, "tar")
       IN \/ /\ ~cancelled[p] /\ UNCHANGED cancelled
             /\ LET some == found[p] \cup {c \in {at[p]} : vol[c]}
                IN found' = [found EXCEPT ![p] = some] /\ Onward(some)
          \/ /\ (cancelled[p] /\ UNCHANGED cancelled) \/ Interrupt(p)
             /\ UNCHANGED found /\ Onward(found[p])
    /\ UNCHANGED <<runtimeVars, kind, flag, ports, alone>>

Tar(p) ==
    /\ pc[p] = "tar"
    /\ Call(p, Mounts(p, IF kind[p] = "export" THEN found[p] ELSE Cache), Goto(p, "taring"), End(p, "error"))
    /\ UNCHANGED ownVars

Tarred(p) == pc[p] = "taring" /\ HelperEnds(p, End(p, "ok"), End(p, "error"))

-----------------------------------------------------------------------------
Command(p) ==
    \/ Begin(p) \/ Discover(p) \/ EnsureVolume(p) \/ State(p) \/ Start(p) \/ Run(p)
    \/ Rm(p) \/ VolumeRm(p) \/ GcStop(p) \/ GcSweep(p) \/ GcSwept(p) \/ GcRestart(p)
    \/ ExportLooks(p) \/ Tar(p) \/ Tarred(p)

Next == \E p \in Proc : Command(p) \/ Kill(p) \/ HelperExits(p)

Spec == Init /\ [][Next]_vars

-----------------------------------------------------------------------------
(* Properties *)

Ended(p, k) == pc[p] = "done" /\ kind[p] = k /\ alone[p]

\* Garbage-collect runs on a volume only while its cache does not serve: "each
\* cache is stopped for the run" (GC).
GcAlone == \A p \in Proc : kind[p] = "gc" => \A c \in helper[p] : ctr[c] # "running"

\* What gc sweeps while no other command has begun does not serve, also when the
\* gc was killed and its helper goes on.  (An interrupted gc starts the cache again,
\* and its helper may go on too.)
GcSweepsStopped ==
    \A p \in Proc : alone[p] /\ kind[p] = "gc" /\ ~cancelled[p] => \A c \in helper[p] : ctr[c] # "running"

\* A gc that nothing else runs beside leaves no cache stopped, whatever becomes
\* of its run: each is "started again afterwards, even when the run fails or is
\* interrupted" (GC).
GcRestarts ==
    \A p \in Proc : Ended(p, "gc") /\ verdict[p] # "killed" => \A c \in found[p] : ctr[c] = "running"

\* It costs one cache at most: the one whose stop or start a SIGINT cut short.  A gc that
\* nothing else runs beside has started every other that it stopped again.
GcLosesAtMostOne ==
    \A p \in Proc : Ended(p, "gc") /\ verdict[p] # "killed" =>
        \A c \in found[p] : ctr[c] = "running" \/ (c = at[p] /\ cancelled[p] /\ verdict[p] = "error")

\* What an up is to bring about; the blob cache without its image it skips.
Brought(c) == (c \in Blobcache => HasImage) => ctr[c] = "running" /\ vol[c]

\* Ups on different bases have left two caches with one port.
Conflict(p) ==
    \E c, d \in Cache :
        /\ c # d
        /\ published[c] = PortOf(p, d) \/ (published[c] = published[d] /\ published[c] # NoPort)

\* up repairs the fleet: whatever interrupted, killed and interleaved commands
\* have left behind, an up that runs by itself to its end brings every cache up,
\* unless two caches are left with one port.
UpRepairs ==
    \A p \in Proc : Ended(p, "up") /\ ~cancelled[p] /\ verdict[p] # "killed" /\ ~Conflict(p) =>
        verdict[p] = "ok" /\ \A c \in Cache : Brought(c)

\* A command that had a helper was cut short, which may have left the helper.
LeavesHelper(p) == kind[p] \in {"gc", "export", "import"} /\ (cancelled[p] \/ verdict[p] = "killed")

\* Down: "purge also deletes the cached blobs".  When it says that it has, they are
\* gone, whatever commands before it have failed or were cut short, but for those
\* that may have left a helper: it has volumes mounted, and their removal fails.
PurgedIsGone ==
    \A p \in Proc : Ended(p, "purge") /\ verdict[p] = "ok" /\ ~cancelled[p] =>
        (\E q \in Proc : LeavesHelper(q)) \/ \A c \in Cache : ~vol[c]

\* A command with no --port-base addresses each running cache at the port it
\* listens on, whatever base it and the others were brought up with.
EndpointsTrue ==
    \A p \in Proc : Ended(p, "print") /\ flag[p] = NoPort /\ ~cancelled[p] /\ verdict[p] # "killed" =>
        \A c \in Cache : ctr[c] = "running" => PortOf(p, c) = published[c]

\* print-registries gives each upstream an endpoint of its own: one that served
\* two would be ambiguous (README, "Why one container per upstream").
EndpointsDistinct ==
    \A p \in Proc : Ended(p, "print") => \A c, d \in Cache : PortOf(p, c) = PortOf(p, d) => c = d
=============================================================================
