--------------------------- MODULE TransferProofs ---------------------------
(***************************************************************************)
(* What export and import keep, for any caches, files and bounds.          *)
(***************************************************************************)
EXTENDS Transfer, FiniteSetTheorems, TLAPS

-----------------------------------------------------------------------------
(* What a step that leaves the variables of one part alone keeps of it      *)

LEMMA TarKept ==
    ASSUME TarInv, UNCHANGED <<vol, imports, tar, todo, cur>>
    PROVE  TarInv'
BY DEF TarInv

LEMMA ImportKept ==
    ASSUME ImportInv, UNCHANGED <<disk, importVars, tarVars>>
    PROVE  ImportInv'
<1>1. UNCHANGED <<disk, copy, ipc, isays, imports, had, orphans, tar, todo, cur, mine>>
    BY DEF importVars, tarVars
<1>2. UNCHANGED <<AtWork, Since, Passed>>
    BY <1>1 DEF AtWork, Since, Passed
<1>3. \A f \in File \cup had : Safe(f)' <=> Safe(f)
    BY <1>1, <1>2 DEF Safe, Holds
<1>4. had \cup Passed \subseteq had \cup File
    BY DEF Passed
<1> QED BY <1>1, <1>2, <1>3, <1>4 DEF ImportInv

LEMMA ExportKept ==
    ASSUME ExportInv, UNCHANGED exportVars
    PROVE  ExportInv'
BY DEF ExportInv, exportVars, NoPartialBundle

LEMMA FillKept ==
    ASSUME FillInv, UNCHANGED <<vol, filling>>
    PROVE  FillInv'
BY DEF FillInv

LEMMA HostFacts == "src" \in Host /\ "dst" \in Host
BY DEF Host

-----------------------------------------------------------------------------
(* The first state                                                         *)

LEMMA FirstInv == Init => TransferInv
<1> SUFFICES ASSUME Init PROVE TransferInv
    OBVIOUS
<1>1. TypeOK
    <2>1. /\ vol \in [Host -> SUBSET Cache]
          /\ disk \in [Host -> [File -> {"absent", "part", "whole"}]]
        BY TransferAssumption DEF Init
    <2>2. \A h \in Host, f \in File : disk[h][f] # "absent" => CacheOf[f] \in vol[h]
        BY TransferAssumption DEF Init
    <2>3. filling \in [Host -> SUBSET File] /\ fills \in 0 .. MaxFills /\ imports \in 0 .. MaxImports
        BY TransferAssumption DEF Init
    <2>4. bundle \in Bundle \cup {None} /\ copy \in Bundle \cup {None}
        <3>1. \A s \in OldBundles : [files |-> s, ended |-> TRUE] \in Bundle
            BY TransferAssumption DEF Bundle
        <3> QED BY <3>1 DEF Init
    <2> QED BY <2>1, <2>2, <2>3, <2>4 DEF Init, TypeOK, Verdict
<1>2. ExportInv
    BY DEF Init, ExportInv, NoPartialBundle
<1>3. TarInv
    BY DEF Init, TarInv
<1>4. ImportInv
    <2>1. AtWork = {}
        BY DEF Init, AtWork
    <2> QED BY <2>1 DEF Init, ImportInv
<1>5. FillInv
    BY DEF Init, FillInv
<1> QED BY <1>1, <1>2, <1>3, <1>4, <1>5 DEF TransferInv

-----------------------------------------------------------------------------
(* What the import relies on                                               *)

LEMMA TarsAtWork ==
    ASSUME TypeOK, TarInv, ImportInv
    PROVE  /\ AtWork \subseteq Tar /\ orphans \subseteq Tar /\ Since \subseteq Tar
           /\ ipc # "idle" => imports \in Tar
           /\ \A k \in AtWork : k \in Since /\ k <= imports /\ Cache \subseteq vol["dst"]
<1>1. AtWork \subseteq Tar /\ orphans \subseteq Tar /\ Since \subseteq Tar
    BY DEF AtWork, Since, TypeOK
<1>2. ipc # "idle" => imports \in Tar
    BY TransferAssumption DEF Tar, TypeOK, ImportInv
<1>3. \A k \in AtWork : tar[k] # "none"
    BY DEF AtWork
<1>4. \A k \in AtWork : k \in Since
    BY DEF ImportInv
<1>5. \A k \in AtWork : k <= imports /\ Cache \subseteq vol["dst"]
    BY <1>1, <1>3 DEF TarInv
<1> QED BY <1>1, <1>2, <1>4, <1>5

\* An import keeps its promises when the step leaves the command alone, what was
\* safe stays safe, and its tar comes to nothing that is not.
LEMMA PromisesKept ==
    ASSUME TypeOK, TarInv, ImportInv,
           UNCHANGED importVars,
           \A k \in Tar : tar[k] = "none" <=> tar'[k] = "none",
           \A k \in Tar : tar[k] = "over" => tar'[k] = "over",
           AtWork' \subseteq AtWork,
           \A f \in File : Safe(f) => Safe(f)',
           \A f \in Passed' : f \in Passed \/ Safe(f)'
    PROVE  ImportInv'
<1>1. UNCHANGED <<copy, ipc, isays, imports, had, orphans, Since>>
    BY DEF importVars, Since
<1>2. ipc # "idle" => imports \in Tar
    BY TarsAtWork
<1>3. had \subseteq File /\ Passed \subseteq File
    BY DEF TypeOK, Passed
<1>4. ipc # "idle" => \A f \in had \cup Passed' : Safe(f)'
    BY <1>3 DEF ImportInv
<1>5. isays = "ok" => tar'[imports] = "over"
    BY <1>2 DEF ImportInv
<1>6. /\ ipc \in {"open", "helper", "volumes"} => tar'[imports] = "none"
      /\ ipc = "tar" => tar'[imports] # "none"
    BY <1>2 DEF ImportInv
<1>7. AtWork' \subseteq Since
    BY DEF ImportInv
<1> QED BY <1>1, <1>4, <1>5, <1>6, <1>7 DEF ImportInv

\* The same of a step of the command, which leaves the tars alone.
LEMMA TarsLeftAlone ==
    ASSUME ImportInv, UNCHANGED <<disk, copy, imports, had, orphans, tarVars>>
    PROVE  /\ UNCHANGED <<AtWork, Since, Passed, tar>>
           /\ ipc # "idle" => \A f \in had' \cup Passed' : Safe(f)'
<1>1. UNCHANGED <<disk, copy, imports, had, orphans, tar, todo, cur, mine>>
    BY DEF tarVars
<1>2. UNCHANGED <<AtWork, Since, Passed, tar>>
    BY <1>1 DEF AtWork, Since, Passed
<1>3. \A f \in had \cup Passed : Safe(f) => Safe(f)'
    BY <1>1, <1>2 DEF Safe, Holds
<1> QED BY <1>1, <1>2, <1>3 DEF ImportInv

-----------------------------------------------------------------------------
(* The caches                                                              *)

LEMMA CacheStep ==
    ASSUME TransferInv, NEW h \in Host, NEW f \in File,
           Misses(h, f) \/ Stores(h, f) \/ GivesUp(h, f)
    PROVE  TransferInv'
<1> USE DEF TransferInv
<1>1. CASE Misses(h, f)
    <2>1. TypeOK'
        BY <1>1, TransferAssumption DEF Misses, TypeOK, exportVars, importVars, tarVars
    <2>2. FillInv'
        BY <1>1 DEF Misses, FillInv, TypeOK
    <2>3. TarInv' /\ ImportInv' /\ ExportInv'
        BY <1>1, TarKept, ImportKept, ExportKept DEF Misses, importVars, tarVars
    <2> QED BY <2>1, <2>2, <2>3
<1>2. CASE Stores(h, f)
    <2>1. /\ disk' \in [Host -> [File -> {"absent", "part", "whole"}]]
          /\ \A g \in Host, e \in File : disk'[g][e] = IF g = h /\ e = f THEN "whole" ELSE disk[g][e]
        BY <1>2 DEF Stores, TypeOK
    <2>2. CacheOf[f] \in vol[h]
        BY <1>2 DEF Stores, FillInv
    <2>3. mine' \in [Tar -> BOOLEAN]
        BY <1>2 DEF Stores, NameTaken, TypeOK
    <2>4. TypeOK'
        BY <1>2, <2>1, <2>2, <2>3 DEF Stores, TypeOK, exportVars, importVars
    <2>5. FillInv'
        BY <1>2 DEF Stores, FillInv, TypeOK
    <2>6. TarInv'
        BY <1>2, TarKept DEF Stores, importVars
    <2>7. ImportInv'
        <3>1. UNCHANGED <<importVars, tar, todo, cur>>
            BY <1>2 DEF Stores
        <3>2. UNCHANGED <<AtWork, Since, Passed>>
            BY <3>1 DEF AtWork, Since, Passed, importVars
        <3>3. ASSUME NEW e \in File, Safe(e) PROVE Safe(e)'
            <4>1. CASE disk'["dst"][e] = "whole"
                BY <4>1 DEF Safe
            <4>2. CASE disk'["dst"][e] # "whole"
                <5>1. disk["dst"][e] # "whole" /\ (h = "dst" => e # f)
                    BY <2>1, <4>2, HostFacts
                <5>2. PICK k \in Since : Holds(k, e)
                    BY <3>3, <5>1 DEF Safe
                <5>3. mine'[k] = mine[k]
                    BY <1>2, <5>1, <5>2 DEF Stores, NameTaken, Holds, Since, TypeOK
                <5>4. Holds(k, e)'
                    BY <3>1, <5>2, <5>3 DEF Holds
                <5> QED BY <3>2, <5>2, <5>4 DEF Safe
            <4> QED BY <4>1, <4>2
        <3> QED BY <3>1, <3>2, <3>3, PromisesKept
    <2>8. ExportInv'
        BY <1>2, ExportKept DEF Stores
    <2> QED BY <2>4, <2>5, <2>6, <2>7, <2>8
<1>3. CASE GivesUp(h, f)
    <2>1. TypeOK'
        BY <1>3 DEF GivesUp, TypeOK, exportVars, importVars, tarVars
    <2>2. FillInv'
        BY <1>3 DEF GivesUp, FillInv, TypeOK
    <2>3. TarInv' /\ ImportInv' /\ ExportInv'
        BY <1>3, TarKept, ImportKept, ExportKept DEF GivesUp, importVars, tarVars
    <2> QED BY <2>1, <2>2, <2>3
<1> QED BY <1>1, <1>2, <1>3

-----------------------------------------------------------------------------
(* Export                                                                  *)

LEMMA ExportStep ==
    ASSUME TransferInv, Export
    PROVE  TransferInv'
<1> USE DEF TransferInv
<1>1. TarInv' /\ ImportInv' /\ FillInv'
    <2>1. UNCHANGED <<hostVars, importVars, tarVars>>
        BY DEF Export, BeginExport, LookForVolumes, ExportGetsHelper, CreateBundle, Packs,
               Packed, PackingFails, ExportKilled
    <2> QED BY <2>1, TarKept, ImportKept, FillKept DEF hostVars, importVars, tarVars
<1>2. TypeOK' /\ ExportInv'
    <2>1. CASE BeginExport
        BY <2>1, TransferAssumption DEF BeginExport, ExportGoesTo, TypeOK, hostVars, importVars, tarVars,
                                        ExportInv, NoPartialBundle
    <2>2. CASE LookForVolumes
        <3>1. unseen' \in SUBSET Cache
            BY <2>2, HostFacts DEF LookForVolumes, TypeOK
        <3>2. vol["src"] \in SUBSET Cache
            BY HostFacts DEF TypeOK
        <3>3. \/ ExportEnds("error")
              \/ ExportGoesTo("helper") /\ names' \in SUBSET Cache /\ UNCHANGED <<want, left>>
            BY <2>2, <3>2 DEF LookForVolumes
        <3>4. UNCHANGED <<hostVars, bundle, exported, importVars, tarVars>> /\ epc = "look"
            BY <2>2 DEF LookForVolumes
        <3> QED BY <3>1, <3>3, <3>4 DEF ExportEnds, ExportGoesTo, TypeOK, Verdict, hostVars, importVars,
                                        tarVars, ExportInv, NoPartialBundle
    <2>3. CASE ExportGetsHelper
        BY <2>3 DEF ExportGetsHelper, ExportEnds, ExportGoesTo, TypeOK, Verdict, hostVars, importVars, tarVars,
                    ExportInv, NoPartialBundle
    <2>4. CASE CreateBundle
        <3>1. EmptyFile \in Bundle
            BY DEF EmptyFile, Bundle
        <3>2. EmptyFile # None
            BY <3>1, TransferAssumption DEF Bundle
        <3>3. left' \in SUBSET File /\ exported' \in SUBSET File
            BY <2>4 DEF CreateBundle, ExportEnds, TypeOK, Whole
        <3> QED BY <2>4, <3>1, <3>2, <3>3 DEF CreateBundle, ExportEnds, ExportGoesTo, TypeOK, Verdict, hostVars,
                                              importVars, tarVars, ExportInv, NoPartialBundle
    <2>5. ASSUME NEW f \in File, Packs(f) PROVE TypeOK' /\ ExportInv'
        <3>1. bundle \in Bundle
            BY <2>5 DEF Packs, TypeOK, ExportInv
        <3>2. bundle' \in Bundle
            BY <2>5, <3>1 DEF Packs, Bundle
        <3>3. bundle' # None
            BY <3>2, TransferAssumption DEF Bundle
        <3> QED BY <2>5, <3>2, <3>3 DEF Packs, TypeOK, hostVars, importVars, tarVars, ExportInv, NoPartialBundle
    <2>6. CASE Packed
        <3>1. bundle \in Bundle
            BY <2>6 DEF Packed, TypeOK, ExportInv
        <3>2. bundle' \in Bundle /\ bundle'.ended
            BY <2>6, <3>1 DEF Packed, Bundle
        <3> QED BY <2>6, <3>2 DEF Packed, ExportEnds, TypeOK, Verdict, hostVars, importVars, tarVars,
                                  ExportInv, NoPartialBundle
    <2>7. CASE PackingFails
        BY <2>7 DEF PackingFails, Discarded, ExportEnds, TypeOK, Verdict, hostVars, importVars, tarVars,
                    ExportInv, NoPartialBundle
    <2>8. CASE ExportKilled
        BY <2>8 DEF ExportKilled, ExportEnds, TypeOK, Verdict, hostVars, importVars, tarVars,
                    ExportInv, NoPartialBundle
    <2> QED BY <2>1, <2>2, <2>3, <2>4, <2>5, <2>6, <2>7, <2>8 DEF Export
<1> QED BY <1>1, <1>2

-----------------------------------------------------------------------------
(* Import                                                                  *)

LEMMA ImportBegins ==
    ASSUME TransferInv, BeginImport
    PROVE  TypeOK' /\ TarInv' /\ ImportInv'
<1> USE DEF TransferInv
<1>1. imports' = imports + 1 /\ imports' \in Tar /\ imports \in Nat
    BY TransferAssumption DEF BeginImport, TypeOK, Tar
<1>2. AtWork \subseteq Tar /\ \A k \in AtWork : k <= imports
    BY TarsAtWork
<1>3. TypeOK'
    <2>1. had' \in SUBSET File /\ orphans' \in SUBSET Tar /\ imports' \in 0 .. MaxImports
        BY <1>1, <1>2, TransferAssumption DEF BeginImport, Whole, TypeOK
    <2> QED BY <2>1 DEF BeginImport, TypeOK, Verdict, hostVars, exportVars, tarVars
<1>4. UNCHANGED <<vol, disk, tar, todo, cur, mine, AtWork>>
    BY DEF BeginImport, hostVars, tarVars, AtWork
<1>5. TarInv'
    BY <1>1, <1>4 DEF TarInv, Tar
<1>6. imports' \notin AtWork /\ tar[imports'] = "none"
    <2>1. ~(imports' <= imports)
        BY <1>1
    <2>2. tar[imports'] = "none"
        BY <1>1, <2>1 DEF TarInv
    <2> QED BY <2>2 DEF AtWork
<1>7. \A f \in had' \cup Passed' : Safe(f)'
    <2>1. Passed' = {}
        BY <1>4, <1>6 DEF Passed
    <2>2. \A f \in had' : disk'["dst"][f] = "whole"
        BY <1>4 DEF BeginImport, Whole
    <2> QED BY <2>1, <2>2 DEF Safe
<1>8. AtWork' \subseteq Since'
    BY <1>2, <1>4 DEF Since, BeginImport
<1>9. imports' # 0 /\ ipc' = "open" /\ isays' = "none" /\ orphans' = AtWork
    BY <1>1 DEF BeginImport
<1> QED BY <1>3, <1>4, <1>5, <1>6, <1>7, <1>8, <1>9 DEF ImportInv

LEMMA ImportGoesOn ==
    ASSUME TransferInv,
           OpenBundle \/ ImportGetsHelper \/ ImportReturns \/ ImportInterrupted \/ ImportKilled
    PROVE  TypeOK' /\ TarInv' /\ ImportInv'
<1> USE DEF TransferInv
<1>1. UNCHANGED <<hostVars, exportVars, copy, imports, had, orphans, tarVars>>
    BY DEF OpenBundle, ImportGetsHelper, ImportReturns, ImportInterrupted, ImportKilled
<1>2. /\ UNCHANGED <<AtWork, Since, Passed, tar>>
      /\ ipc # "idle" => \A f \in had' \cup Passed' : Safe(f)'
    BY <1>1, TarsLeftAlone DEF hostVars
<1>3. TarInv'
    BY <1>1, TarKept DEF hostVars, tarVars
<1>4. /\ ipc # "idle" /\ ipc' # "idle"
      /\ \/ ipc' \in {"helper", "volumes"} /\ ipc \in {"open", "helper"} /\ isays' = isays /\ copy # None
         \/ ipc' = "done" /\ isays' \in {"error", "killed"}
         \/ ipc' = "done" /\ isays' = "ok" /\ ipc = "tar" /\ tar[imports] = "over"
    BY DEF OpenBundle, ImportGetsHelper, ImportReturns, ImportInterrupted, ImportKilled, ImportEnds, Noticed, ImportInv
<1>5. TypeOK'
    <2>1. ipc' \in {"helper", "volumes", "done"} /\ isays' \in Verdict
        BY <1>4 DEF Verdict, TypeOK
    <2> QED BY <1>1, <2>1 DEF TypeOK, hostVars, exportVars, tarVars
<1>6. ImportInv'
    BY <1>1, <1>2, <1>4 DEF ImportInv
<1> QED BY <1>3, <1>5, <1>6

LEMMA ImportGetsVolumes ==
    ASSUME TransferInv, NEW c \in Cache, EnsureVolume(c)
    PROVE  TypeOK' /\ TarInv' /\ ImportInv' /\ FillInv'
<1> USE DEF TransferInv
<1>1. vol' \in [Host -> SUBSET Cache] /\ \A h \in Host : vol[h] \subseteq vol'[h]
    <2>0. vol \in [Host -> SUBSET Cache]
        BY DEF TypeOK
    <2>1. CASE vol' = [vol EXCEPT !["dst"] = vol["dst"] \cup {c}]
        BY <2>0, <2>1, HostFacts
    <2>2. CASE UNCHANGED vol
        BY <2>0, <2>2
    <2> QED BY <2>1, <2>2 DEF EnsureVolume, Ensured
<1>2. UNCHANGED <<disk, copy, imports, had, orphans, tarVars>>
    BY DEF EnsureVolume
<1>3. /\ UNCHANGED <<AtWork, Since, Passed, tar>>
      /\ ipc # "idle" => \A f \in had' \cup Passed' : Safe(f)'
    BY <1>2, TarsLeftAlone
<1>4. /\ ipc = "volumes"
      /\ \/ ipc' = ipc /\ isays' = isays
         \/ ipc' = "done" /\ isays' = "error"
    BY DEF EnsureVolume, ImportEnds
<1>5. TypeOK'
    BY <1>1, <1>4 DEF EnsureVolume, TypeOK, Verdict, exportVars, tarVars
<1>6. FillInv'
    BY <1>1 DEF EnsureVolume, FillInv
<1>7. TarInv'
    BY <1>1, <1>2, HostFacts DEF TarInv, tarVars
<1>8. ImportInv'
    BY <1>2, <1>3, <1>4 DEF ImportInv
<1> QED BY <1>5, <1>6, <1>7, <1>8

LEMMA ImportStarts ==
    ASSUME TransferInv, StartUnpacking
    PROVE  TypeOK' /\ TarInv' /\ ImportInv' /\ FillInv'
<1> USE DEF TransferInv
<1>1. Cache \subseteq vol["dst"]
    <2>1. \A c \in Cache : c \in Ensured(c)
        BY DEF Ensured
    <2> QED BY <2>1 DEF StartUnpacking
<1>2. disk' = disk
    <2>1. disk = [disk EXCEPT !["dst"] = disk["dst"]]
        BY HostFacts DEF TypeOK
    <2> QED BY <2>1 DEF StartUnpacking, AsTheyAre
<1>3. copy \in Bundle /\ imports \in Tar /\ tar[imports] = "none" /\ cur[imports] = None
    <2>1. imports \in Tar
        BY TarsAtWork DEF StartUnpacking
    <2>2. tar[imports] = "none" /\ copy \in Bundle
        BY DEF StartUnpacking, ImportInv, TypeOK
    <2> QED BY <2>1, <2>2 DEF TarInv
<1>4. /\ tar' \in [Tar -> {"none", "next", "create", "write", "over", "broken"}]
      /\ todo' \in [Tar -> SUBSET File] /\ ends' \in [Tar -> BOOLEAN]
      /\ \A k \in Tar : tar'[k] = IF k = imports THEN "next" ELSE tar[k]
      /\ \A k \in Tar : todo'[k] = IF k = imports THEN copy.files ELSE todo[k]
    BY <1>3 DEF StartUnpacking, TypeOK, Bundle
<1>5. UNCHANGED <<vol, filling, fills, exportVars, copy, isays, imports, had, orphans, cur, mine>>
    BY DEF StartUnpacking
<1>6. TypeOK'
    BY <1>2, <1>4, <1>5 DEF StartUnpacking, TypeOK, exportVars
<1>7. FillInv'
    BY <1>5 DEF FillInv
<1>8. TarInv'
    <2> SUFFICES ASSUME NEW k \in Tar
                 PROVE  /\ tar'[k] \in {"none", "next", "over"} => cur[k] = None
                        /\ tar'[k] \in {"create", "write"} => cur[k] \in File
                        /\ tar'[k] = "over" => todo'[k] = {}
                        /\ tar'[k] # "none" => k <= imports /\ Cache \subseteq vol["dst"]
        BY <1>5 DEF TarInv
    <2>1. CASE k = imports
        BY <1>1, <1>3, <1>4, <2>1 DEF Tar
    <2>2. CASE k # imports
        BY <1>4, <2>2 DEF TarInv
    <2> QED BY <2>1, <2>2
<1>9. ImportInv'
    <2>1. AtWork' \subseteq AtWork \cup {imports} /\ Since' = Since /\ imports \in Since
        BY <1>3, <1>4, <1>5 DEF AtWork, Since
    <2>2. Passed' = {}
        BY <1>3, <1>4, <1>5, TransferAssumption DEF Passed
    <2>3. ASSUME NEW f \in had PROVE Safe(f)'
        <3>1. Safe(f) /\ f # None
            BY TransferAssumption DEF StartUnpacking, ImportInv, TypeOK
        <3>2. ASSUME NEW k \in Since, Holds(k, f) PROVE Holds(k, f)'
            <4>1. k # imports /\ k \in Tar
                BY <1>3, <3>1, <3>2 DEF Holds, Since
            <4> QED BY <1>4, <1>5, <3>2, <4>1 DEF Holds
        <3> QED BY <1>2, <2>1, <3>1, <3>2 DEF Safe
    <2>4. AtWork' \subseteq Since'
        BY <2>1 DEF ImportInv
    <2>5. ipc = "volumes" /\ ipc' = "tar" /\ tar'[imports] = "next" /\ copy # None
        BY <1>3, <1>4 DEF StartUnpacking, ImportInv
    <2> QED BY <1>5, <2>2, <2>3, <2>4, <2>5 DEF ImportInv
<1> QED BY <1>6, <1>7, <1>8, <1>9

LEMMA ImportStep ==
    ASSUME TransferInv, Import
    PROVE  TransferInv'
<1>1. ExportInv'
    <2>1. UNCHANGED exportVars
        BY DEF Import, BeginImport, OpenBundle, ImportGetsHelper, StartUnpacking, EnsureVolume,
               ImportReturns, ImportInterrupted, ImportKilled
    <2> QED BY <2>1, ExportKept DEF TransferInv
<1>2. CASE StartUnpacking \/ \E c \in Cache : EnsureVolume(c)
    BY <1>1, <1>2, ImportStarts, ImportGetsVolumes DEF TransferInv
<1>3. CASE ~(StartUnpacking \/ \E c \in Cache : EnsureVolume(c))
    <2>1. UNCHANGED <<vol, filling>>
        BY <1>3 DEF Import, BeginImport, OpenBundle, ImportGetsHelper, ImportReturns, ImportInterrupted,
                    ImportKilled, hostVars
    <2>2. FillInv'
        BY <2>1, FillKept DEF TransferInv
    <2>3. TypeOK' /\ TarInv' /\ ImportInv'
        BY <1>3, ImportBegins, ImportGoesOn DEF Import
    <2> QED BY <1>1, <2>2, <2>3 DEF TransferInv
<1> QED BY <1>2, <1>3

-----------------------------------------------------------------------------
(* The tars                                                                *)

LEMMA TarUnlinks ==
    ASSUME TransferInv, NEW k \in Tar, NEW f \in File, Unlinks(k, f)
    PROVE  TypeOK' /\ TarInv' /\ ImportInv'
<1> USE DEF TransferInv
<1>1. /\ disk' \in [Host -> [File -> {"absent", "part", "whole"}]]
      /\ \A h \in Host, g \in File : disk'[h][g] = IF h = "dst" /\ g = f THEN "absent" ELSE disk[h][g]
    BY HostFacts DEF Unlinks, TypeOK
<1>2. /\ tar' \in [Tar -> {"none", "next", "create", "write", "over", "broken"}]
      /\ cur' \in [Tar -> File \cup {None}] /\ mine' \in [Tar -> BOOLEAN]
      /\ \A j \in Tar : tar'[j] = IF j = k THEN "create" ELSE tar[j]
      /\ \A j \in Tar : cur'[j] = IF j = k THEN f ELSE cur[j]
      /\ \A j \in Tar : cur[j] # f => mine'[j] = mine[j]
    BY DEF Unlinks, NameTaken, TypeOK
<1>3. UNCHANGED <<vol, filling, fills, exportVars, importVars, todo, ends>> /\ tar[k] = "next"
    BY DEF Unlinks
<1>4. UNCHANGED <<copy, ipc, isays, imports, had, orphans, Since>>
    BY <1>3 DEF importVars, Since
<1>5. k \in AtWork /\ k \in Since /\ cur[k] = None /\ f # None
    BY <1>3, TarsAtWork, TransferAssumption DEF AtWork, TarInv
<1>6. TypeOK'
    BY <1>1, <1>2, <1>3 DEF TypeOK, exportVars, importVars
<1>7. TarInv'
    BY <1>2, <1>3, <1>4 DEF TarInv
<1>8. Safe(f)'
    BY <1>2, <1>4, <1>5 DEF Safe, Holds
<1>9. ASSUME NEW g \in File, g # f, Safe(g) PROVE Safe(g)'
    <2>1. ASSUME NEW j \in Since, Holds(j, g) PROVE Holds(j, g)'
        <3>1. j # k /\ j \in Tar /\ cur[j] # f
            BY <1>5, <1>9, <2>1, TransferAssumption DEF Holds, Since
        <3> QED BY <1>2, <2>1, <3>1 DEF Holds
    <2> QED BY <1>1, <1>4, <1>9, <2>1, HostFacts DEF Safe
<1>10. \A g \in Passed' : g \in Passed \/ Safe(g)'
    <2> SUFFICES ASSUME NEW g \in Passed', g # f PROVE g \in Passed
        BY <1>8
    <2>1. g \in File /\ imports \in Tar /\ tar'[imports] # "none"
          /\ (g \in copy.files \ todo[imports] \/ g = cur'[imports])
        BY <1>3, <1>4 DEF Passed
    <2>2. tar[imports] # "none" /\ (g = cur'[imports] => g = cur[imports])
        BY <1>2, <1>3, <2>1
    <2> QED BY <2>1, <2>2 DEF Passed
<1>11. AtWork' \subseteq AtWork
    BY <1>2, <1>5 DEF AtWork
<1>12. ImportInv'
    <2>1. \A j \in Tar : (tar[j] = "none" <=> tar'[j] = "none") /\ (tar[j] = "over" => tar'[j] = "over")
        BY <1>2, <1>3
    <2>2. \A g \in File : Safe(g) => Safe(g)'
        BY <1>8, <1>9
    <2> QED BY <1>3, <1>10, <1>11, <2>1, <2>2, PromisesKept
<1> QED BY <1>6, <1>7, <1>12

LEMMA TarCreates ==
    ASSUME TransferInv, NEW k \in Tar, Creates(k)
    PROVE  TypeOK' /\ TarInv' /\ ImportInv'
<1> USE DEF TransferInv
<1>0. /\ tar[k] = "create" /\ cur[k] \in File
      /\ UNCHANGED <<vol, filling, fills, exportVars, importVars, todo, ends, cur>>
    BY DEF Creates, TarInv
<1>1. UNCHANGED <<copy, ipc, isays, imports, had, orphans, Since>>
    BY <1>0 DEF importVars, Since
<1>2. k \in AtWork /\ k \in Since /\ CacheOf[cur[k]] \in vol["dst"]
    BY <1>0, TarsAtWork, TransferAssumption DEF AtWork
<1>3. /\ disk' \in [Host -> [File -> {"absent", "part", "whole"}]]
      /\ \A h \in Host, g \in File : disk'[h][g] = disk[h][g] \/ (h = "dst" /\ g = cur[k])
    <2>1. CASE disk' = [disk EXCEPT !["dst"][cur[k]] = "part"]
        <3>1. disk \in [Host -> [File -> {"absent", "part", "whole"}]]
            BY DEF TypeOK
        <3> QED BY ONLY <1>0, <2>1, <3>1, HostFacts
    <2>2. CASE UNCHANGED disk
        BY <2>2 DEF TypeOK
    <2> QED BY <2>1, <2>2 DEF Creates
<1>4. /\ tar' \in [Tar -> {"none", "next", "create", "write", "over", "broken"}]
      /\ mine' \in [Tar -> BOOLEAN]
      /\ \A j \in Tar : j # k => tar'[j] = tar[j] /\ mine'[j] = mine[j]
      /\ tar'[k] = "broken" \/ (tar'[k] = "write" /\ mine'[k])
    BY DEF Creates, TypeOK
<1>5. TypeOK'
    <2>1. \A h \in Host, g \in File : disk'[h][g] # "absent" => CacheOf[g] \in vol'[h]
        BY <1>0, <1>2, <1>3 DEF TypeOK
    <2> QED BY <1>0, <1>3, <1>4, <2>1 DEF TypeOK, exportVars, importVars
<1>6. TarInv'
    BY <1>0, <1>1, <1>4 DEF TarInv
<1>7. Holds(k, cur[k])'
    BY <1>4 DEF Holds
<1>8. ASSUME NEW g \in File, Safe(g) PROVE Safe(g)'
    <2>1. CASE g = cur[k]
        BY <1>0, <1>1, <1>2, <1>7, <2>1 DEF Safe, Holds
    <2>2. CASE g # cur[k]
        <3>1. ASSUME NEW j \in Since, Holds(j, g) PROVE Holds(j, g)'
            BY <1>0, <1>4, <2>2, <3>1 DEF Holds, Since
        <3> QED BY <1>1, <1>3, <1>8, <2>2, <3>1, HostFacts DEF Safe
    <2> QED BY <2>1, <2>2
<1>9. \A g \in Passed' : g \in Passed
    BY <1>0, <1>1, <1>4 DEF Passed
<1>10. AtWork' \subseteq AtWork
    BY <1>2, <1>4 DEF AtWork
<1>11. \A j \in Tar : (tar[j] = "none" <=> tar'[j] = "none") /\ (tar[j] = "over" => tar'[j] = "over")
    BY <1>0, <1>4
<1>12. ImportInv'
    BY <1>0, <1>8, <1>9, <1>10, <1>11, PromisesKept
<1> QED BY <1>5, <1>6, <1>12

LEMMA TarWrites ==
    ASSUME TransferInv, NEW k \in Tar, Writes(k)
    PROVE  TypeOK' /\ TarInv' /\ ImportInv'
<1> USE DEF TransferInv
<1>0. /\ tar[k] = "write" /\ cur[k] \in File
      /\ UNCHANGED <<vol, filling, fills, exportVars, importVars, ends>>
    BY DEF Writes, TarInv
<1>1. UNCHANGED <<copy, ipc, isays, imports, had, orphans, Since>>
    BY <1>0 DEF importVars, Since
<1>2. k \in AtWork /\ k \in Since /\ CacheOf[cur[k]] \in vol["dst"]
    BY <1>0, TarsAtWork, TransferAssumption DEF AtWork
<1>3. /\ disk' \in [Host -> [File -> {"absent", "part", "whole"}]]
      /\ \A h \in Host, g \in File :
             disk'[h][g] = IF mine[k] /\ h = "dst" /\ g = cur[k] THEN "whole" ELSE disk[h][g]
    <2>1. CASE mine[k]
        <3>1. disk \in [Host -> [File -> {"absent", "part", "whole"}]] /\ disk' = [disk EXCEPT !["dst"][cur[k]] = "whole"]
            BY <2>1 DEF TypeOK, Writes
        <3> QED BY ONLY <1>0, <2>1, <3>1, HostFacts
    <2>2. CASE ~mine[k]
        BY <2>2 DEF TypeOK, Writes
    <2> QED BY <2>1, <2>2
<1>4. /\ tar' \in [Tar -> {"none", "next", "create", "write", "over", "broken"}]
      /\ todo' \in [Tar -> SUBSET File]
      /\ cur' \in [Tar -> File \cup {None}] /\ mine' \in [Tar -> BOOLEAN]
      /\ \A j \in Tar : j # k => /\ tar'[j] = tar[j] /\ todo'[j] = todo[j]
                                 /\ cur'[j] = cur[j] /\ mine'[j] = mine[j]
      /\ tar'[k] = "next" /\ cur'[k] = None /\ todo'[k] = todo[k] \ {cur[k]}
    BY DEF Writes, TypeOK
<1>5. TypeOK'
    <2>1. \A h \in Host, g \in File : disk'[h][g] # "absent" => CacheOf[g] \in vol'[h]
        BY <1>0, <1>2, <1>3 DEF TypeOK
    <2> QED BY <1>0, <1>3, <1>4, <2>1 DEF TypeOK, exportVars, importVars
<1>6. TarInv'
    BY <1>0, <1>1, <1>4 DEF TarInv
<1>7. ASSUME NEW g \in File, Safe(g) PROVE Safe(g)'
    <2>1. CASE disk'["dst"][g] = "whole"
        BY <2>1 DEF Safe
    <2>2. CASE disk'["dst"][g] # "whole"
        <3>1. disk["dst"][g] # "whole" /\ ~(mine[k] /\ g = cur[k])
            BY <1>3, <2>2, HostFacts
        <3>2. PICK j \in Since : Holds(j, g)
            BY <1>7, <3>1 DEF Safe
        <3>3. j # k /\ j \in Tar
            BY <1>0, <3>1, <3>2 DEF Holds, Since
        <3>4. Holds(j, g)'
            BY <1>4, <3>2, <3>3 DEF Holds
        <3> QED BY <1>1, <3>2, <3>4 DEF Safe
    <2> QED BY <2>1, <2>2
<1>8. \A g \in Passed' : g \in Passed
    <2> SUFFICES ASSUME NEW g \in Passed' PROVE g \in Passed
        OBVIOUS
    <2>1. g \in File /\ imports \in Tar /\ tar'[imports] # "none"
          /\ (g \in copy.files \ todo'[imports] \/ g = cur'[imports])
        BY <1>1 DEF Passed
    <2>2. CASE imports = k
        BY <1>0, <1>4, <2>1, <2>2, TransferAssumption DEF Passed
    <2>3. CASE imports # k
        BY <1>4, <2>1, <2>3 DEF Passed
    <2> QED BY <2>2, <2>3
<1>9. AtWork' \subseteq AtWork
    BY <1>2, <1>4 DEF AtWork
<1>10. \A j \in Tar : (tar[j] = "none" <=> tar'[j] = "none") /\ (tar[j] = "over" => tar'[j] = "over")
    BY <1>0, <1>4
<1>11. ImportInv'
    BY <1>0, <1>7, <1>8, <1>9, <1>10, PromisesKept
<1> QED BY <1>5, <1>6, <1>11

LEMMA TarStops ==
    ASSUME TransferInv, NEW k \in Tar, Unpacked(k) \/ Breaks(k)
    PROVE  TypeOK' /\ TarInv' /\ ImportInv'
<1> USE DEF TransferInv
<1>0. /\ k \in AtWork /\ UNCHANGED <<hostVars, exportVars, importVars, todo, ends, cur, mine>>
      /\ \/ tar[k] = "next" /\ todo[k] = {} /\ tar' = [tar EXCEPT ![k] = "over"]
         \/ tar' = [tar EXCEPT ![k] = "broken"]
    BY DEF Unpacked, Breaks, AtWork
<1>1. UNCHANGED <<vol, disk, copy, ipc, isays, imports, had, orphans, Since>>
    BY <1>0 DEF hostVars, importVars, Since
<1>2. tar[k] \in {"next", "create", "write"}
    BY <1>0 DEF AtWork
<1>3. /\ tar' \in [Tar -> {"none", "next", "create", "write", "over", "broken"}]
      /\ \A j \in Tar : j # k => tar'[j] = tar[j]
      /\ tar'[k] = "broken" \/ (tar'[k] = "over" /\ todo[k] = {} /\ cur[k] = None)
    BY <1>0 DEF TypeOK, TarInv
<1>4. TypeOK'
    BY <1>0, <1>3 DEF TypeOK, hostVars, exportVars, importVars
<1>5. TarInv'
    BY <1>0, <1>1, <1>2, <1>3 DEF TarInv
<1>6. ASSUME NEW g \in File, Safe(g) PROVE Safe(g)'
    <2>1. ASSUME NEW j \in Since, Holds(j, g) PROVE Holds(j, g)'
        BY <1>0, <1>3, <1>6, <2>1, TransferAssumption DEF Holds, Since
    <2> QED BY <1>1, <1>6, <2>1 DEF Safe
<1>7. \A g \in Passed' : g \in Passed
    BY <1>0, <1>1, <1>2, <1>3 DEF Passed
<1>8. AtWork' \subseteq AtWork
    BY <1>3 DEF AtWork
<1>9. \A j \in Tar : (tar[j] = "none" <=> tar'[j] = "none") /\ (tar[j] = "over" => tar'[j] = "over")
    BY <1>2, <1>3
<1>10. ImportInv'
    BY <1>0, <1>6, <1>7, <1>8, <1>9, PromisesKept
<1> QED BY <1>4, <1>5, <1>10

LEMMA TarStep ==
    ASSUME TransferInv, Tars
    PROVE  TransferInv'
<1>1. PICK k \in Tar : \/ Creates(k) \/ Writes(k) \/ Unpacked(k) \/ Breaks(k)
                     \/ \E f \in File : Unlinks(k, f)
    BY DEF Tars
<1>2. TypeOK' /\ TarInv' /\ ImportInv'
    BY <1>1, TarUnlinks, TarCreates, TarWrites, TarStops
<1>3. UNCHANGED <<exportVars, vol, filling>>
    BY <1>1 DEF Creates, Writes, Unpacked, Breaks, Unlinks, hostVars
<1> QED BY <1>2, <1>3, ExportKept, FillKept DEF TransferInv

-----------------------------------------------------------------------------
(* The theorems                                                            *)

\* The inductive invariant of export and import holds, whatever fails, is
\* interrupted or killed, and whatever the caches of both hosts do beside them.
THEOREM TransferInvariant == Spec => []TransferInv
<1>1. TransferInv /\ [Next]_vars => TransferInv'
    <2> SUFFICES ASSUME TransferInv, [Next]_vars PROVE TransferInv'
        OBVIOUS
    <2>1. CASE Caches
        BY <2>1, CacheStep DEF Caches
    <2>2. CASE Export
        BY <2>2, ExportStep
    <2>3. CASE Import
        BY <2>3, ImportStep
    <2>4. CASE Tars
        BY <2>4, TarStep
    <2>5. CASE UNCHANGED vars
        <3>1. TypeOK'
            BY <2>5 DEF TransferInv, TypeOK, vars, hostVars, exportVars, importVars, tarVars
        <3>2. UNCHANGED <<vol, disk, filling, imports, tar, todo, cur, importVars, exportVars, tarVars>>
            BY <2>5 DEF vars, hostVars, importVars, tarVars
        <3> QED BY <3>1, <3>2, TarKept, ImportKept, ExportKept, FillKept DEF TransferInv
    <2> QED BY <2>1, <2>2, <2>3, <2>4, <2>5 DEF Next
<1> QED BY <1>1, FirstInv, PTL DEF Spec

\* Every variable keeps its type, and a file is in a volume that exists
\* (transfer.go:86-91 creates the volumes before tar writes into them).
THEOREM TransferTypes == Spec => []TypeOK
<1>1. TransferInv => TypeOK
    BY DEF TransferInv
<1> QED BY <1>1, TransferInvariant, PTL

\* A failed export leaves no part of a bundle (transfer.go:57-60).
THEOREM NoPartOfABundle == Spec => []NoPartialBundle
<1>1. TransferInv => NoPartialBundle
    BY DEF TransferInv, ExportInv
<1> QED BY <1>1, TransferInvariant, PTL

\* The files that an import has lost or not brought, when it says that it is done,
\* are where a tar is that an earlier one has left at work.
LEMMA MissingIsHeld ==
    ASSUME TransferInv, ipc # "idle", NEW f \in had \cup Passed, f \notin Whole("dst")
    PROVE  \E k \in Since : cur[k] = f
<1>1. f \in File /\ Safe(f)
    BY DEF TransferInv, TypeOK, ImportInv, Passed
<1> QED BY <1>1 DEF Safe, Whole, Holds

\* A finished import is a union of what was there and what was in the bundle
\* (transfer.go:67-70), beside serving caches, after imports that broke off, and
\* but for the file that a tar they have left at work is at.
THEOREM ImportsAreUnions == Spec => []ImportIsUnion
<1>1. TransferInv => ImportIsUnion
    <2> SUFFICES ASSUME TransferInv, isays = "ok", NEW f \in (had \cup copy.files) \ Whole("dst")
                 PROVE  OrphanAt(f)
        BY DEF ImportIsUnion
    <2>1. ipc = "done" /\ copy \in Bundle /\ tar[imports] = "over" /\ imports \in Tar
        <3>1. ipc = "done"
            BY DEF TransferInv, ImportInv
        <3> QED BY <3>1, TarsAtWork DEF TransferInv, ImportInv, TypeOK
    <2>2. cur[imports] = None /\ todo[imports] = {}
        BY <2>1 DEF TransferInv, TarInv
    <2>3. f \in File /\ f # None
        BY <2>1, TransferAssumption DEF TransferInv, TypeOK, Bundle
    <2>4. f \in had \cup Passed
        BY <2>1, <2>2, <2>3 DEF Passed
    <2>5. PICK k \in Since : cur[k] = f
        BY <2>1, <2>4, MissingIsHeld
    <2> QED BY <2>2, <2>3, <2>5 DEF OrphanAt, Since
<1> QED BY <1>1, TransferInvariant, PTL

\* An import that breaks off costs one file at most, and one for each tar that
\* earlier ones have left at work (transfer.go:95).
THEOREM AtMostOneIsLost == Spec => []LosesAtMostOne
<1>1. TransferInv => LosesAtMostOne
    <2> SUFFICES ASSUME TransferInv, ipc # "idle"
                 PROVE  Cardinality(had \ Whole("dst")) <= 1 + Cardinality(orphans)
        BY DEF LosesAtMostOne
    <2> DEFINE lost == had \ Whole("dst")
    <2> DEFINE at == {cur[k] : k \in Since}
    <2>1. lost \subseteq at
        <3> SUFFICES ASSUME NEW f \in had, f \notin Whole("dst") PROVE f \in at
            OBVIOUS
        <3> f \in had \cup Passed
            OBVIOUS
        <3>1. PICK k \in Since : cur[k] = f
            BY MissingIsHeld
        <3> QED BY <3>1
    <2>2. orphans \subseteq Tar /\ imports \in Tar /\ imports \notin orphans /\ Since = orphans \cup {imports}
        <3>1. orphans \subseteq Tar /\ imports \in Tar /\ imports \notin orphans
            BY TarsAtWork DEF TransferInv, ImportInv
        <3> QED BY <3>1 DEF Since
    <2>3. IsFiniteSet(orphans) /\ Cardinality(orphans) \in Nat
        <3>1. IsFiniteSet(Tar)
            BY FS_Interval, TransferAssumption DEF Tar
        <3> QED BY <2>2, <3>1, FS_Subset, FS_CardinalityType
    <2>4. IsFiniteSet(Since) /\ Cardinality(Since) = Cardinality(orphans) + 1
        BY <2>2, <2>3, FS_AddElement
    <2>5. IsFiniteSet(at) /\ Cardinality(at) <= Cardinality(Since) /\ Cardinality(at) \in Nat
        <3> DEFINE g == [k \in Since |-> cur[k]]
        <3>1. g \in Surjection(Since, at)
            BY DEF Surjection
        <3>2. IsFiniteSet(at) /\ Cardinality(at) <= Cardinality(Since)
            BY <2>4, <3>1, FS_Surjection
        <3> QED BY <3>2, FS_CardinalityType
    <2>6. Cardinality(lost) <= Cardinality(at) /\ Cardinality(lost) \in Nat
        BY <2>1, <2>5, FS_Subset, FS_CardinalityType
    <2> HIDE DEF lost, at
    <2>7. Cardinality(lost) <= 1 + Cardinality(orphans)
        BY <2>3, <2>4, <2>5, <2>6
    <2> QED BY <2>7 DEF lost
<1> QED BY <1>1, TransferInvariant, PTL

-----------------------------------------------------------------------------
(* What an export has packed                                               *)

Seen == {f \in exported : CacheOf[f] \notin unseen}

\* The files that the export is about are packed, or still to be packed, but for
\* the volumes that it could not ask for.
PackInv ==
    /\ epc \in {"helper", "create"} => \A c \in vol["src"] : Chosen(c) => c \in names \cup unseen
    /\ epc = "tar" => bundle \in Bundle /\ Seen \subseteq left \cup bundle.files
    /\ esays = "ok" => epc = "done" /\ bundle # None /\ Seen \subseteq bundle.files

\* Only the export itself touches what it has packed.
LEMMA PackStep ==
    ASSUME TypeOK, PackInv, [Next]_vars
    PROVE  PackInv'
<1>1. ASSUME UNCHANGED exportVars, vol'["src"] = vol["src"] PROVE PackInv'
    BY <1>1 DEF exportVars, PackInv, Seen, Chosen
<1>2. CASE Caches
    <2>1. PICK h \in Host, f \in File : Misses(h, f) \/ Stores(h, f) \/ GivesUp(h, f)
        BY <1>2 DEF Caches
    <2>2. UNCHANGED <<exportVars, vol>>
        BY <2>1 DEF Misses, Stores, GivesUp
    <2> QED BY <1>1, <2>2
<1>3. CASE Import
    <2>1. UNCHANGED exportVars
        BY <1>3 DEF Import, BeginImport, OpenBundle, ImportGetsHelper, StartUnpacking, EnsureVolume,
                    ImportReturns, ImportInterrupted, ImportKilled
    <2>2. vol'["src"] = vol["src"]
        <3>1. \/ UNCHANGED vol
              \/ \E c \in Cache : vol' = [vol EXCEPT !["dst"] = Ensured(c)]
            BY <1>3 DEF Import, BeginImport, OpenBundle, ImportGetsHelper, StartUnpacking, EnsureVolume,
                        ImportReturns, ImportInterrupted, ImportKilled, hostVars
        <3> QED BY <3>1, HostFacts DEF TypeOK
    <2> QED BY <1>1, <2>1, <2>2
<1>4. CASE Tars
    <2>1. UNCHANGED <<exportVars, vol>>
        BY <1>4 DEF Tars, Creates, Writes, Unpacked, Breaks, Unlinks, hostVars
    <2> QED BY <1>1, <2>1
<1>5. CASE Export
    <2>0. vol' = vol
        BY <1>5 DEF Export, BeginExport, LookForVolumes, ExportGetsHelper, CreateBundle, Packs,
                    Packed, PackingFails, ExportKilled, hostVars
    <2>1. CASE BeginExport
        BY <2>1 DEF BeginExport, ExportGoesTo, PackInv
    <2>2. CASE LookForVolumes
        <3>1. \/ ExportEnds("error")
              \/ /\ ExportGoesTo("helper") /\ UNCHANGED want
                 /\ names' = {c \in vol["src"] : Chosen(c)} \ unseen'
            BY <2>2 DEF LookForVolumes
        <3>2. epc = "look" /\ UNCHANGED <<bundle, exported>>
            BY <2>2 DEF LookForVolumes
        <3>3. esays' # "ok"
            BY <3>1, <3>2 DEF ExportEnds, ExportGoesTo, PackInv
        <3> QED BY <2>0, <3>1, <3>2, <3>3 DEF ExportEnds, ExportGoesTo, Chosen, PackInv
    <2>3. CASE ExportGetsHelper
        BY <2>0, <2>3 DEF ExportGetsHelper, ExportEnds, ExportGoesTo, PackInv, Chosen
    <2>4. CASE CreateBundle
        <3>1. CASE epc' = "tar" /\ bundle' = EmptyFile
            <4>1. /\ left' = {f \in File : CacheOf[f] \in names /\ disk["src"][f] # "absent"}
                  /\ exported' = {f \in Whole("src") : want = {} \/ CacheOf[f] \in want}
                  /\ UNCHANGED <<esays, names, unseen>> /\ epc = "create"
                BY <2>4, <3>1 DEF CreateBundle, ExportEnds, ExportGoesTo
            <4>2. Seen' \subseteq left'
                <5> SUFFICES ASSUME NEW f \in File, disk["src"][f] = "whole", CacheOf[f] \notin unseen,
                                    want = {} \/ CacheOf[f] \in want
                             PROVE  CacheOf[f] \in names
                    BY <4>1 DEF Seen, Whole
                <5>1. CacheOf[f] \in vol["src"]
                    BY HostFacts DEF TypeOK
                <5> QED BY <4>1, <5>1 DEF PackInv, Chosen
            <4>3. EmptyFile \in Bundle
                BY DEF EmptyFile, Bundle
            <4> QED BY <3>1, <4>1, <4>2, <4>3 DEF PackInv
        <3>2. CASE ExportEnds("error")
            BY <3>2 DEF ExportEnds, PackInv
        <3> QED BY <2>4, <3>1, <3>2 DEF CreateBundle, ExportGoesTo
    <2>5. ASSUME NEW f \in File, Packs(f) PROVE PackInv'
        <3>1. /\ epc = "tar" /\ bundle \in Bundle /\ UNCHANGED <<epc, names, esays, unseen, exported>>
              /\ bundle' = [bundle EXCEPT !.files = @ \cup {f}] /\ left' = left \ {f}
            BY <2>5 DEF Packs, PackInv
        <3>2. bundle' \in Bundle /\ bundle'.files = bundle.files \cup {f}
            BY <3>1 DEF Bundle
        <3>3. Seen' = Seen
            BY <3>1 DEF Seen
        <3> QED BY <3>1, <3>2, <3>3 DEF PackInv
    <2>6. CASE Packed
        <3>1. /\ epc = "tar" /\ left = {} /\ bundle \in Bundle /\ UNCHANGED <<unseen, exported>>
              /\ bundle' = [bundle EXCEPT !.ended = TRUE] /\ epc' = "done"
            BY <2>6 DEF Packed, ExportEnds, PackInv
        <3>2. bundle' \in Bundle /\ bundle'.files = bundle.files
            BY <3>1 DEF Bundle
        <3>3. bundle' # None /\ Seen' = Seen
            BY <3>1, <3>2, TransferAssumption DEF Bundle, Seen
        <3> QED BY <3>1, <3>2, <3>3 DEF PackInv
    <2>7. CASE PackingFails
        BY <2>7 DEF PackingFails, ExportEnds, PackInv
    <2>8. CASE ExportKilled
        BY <2>0, <2>8 DEF ExportKilled, ExportEnds, PackInv, Seen
    <2> QED BY <1>5, <2>1, <2>2, <2>3, <2>4, <2>5, <2>6, <2>7, <2>8 DEF Export
<1>6. CASE UNCHANGED vars
    BY <1>1, <1>6 DEF vars, hostVars
<1> QED BY <1>2, <1>3, <1>4, <1>5, <1>6 DEF Next

\* Every file that an export was about reaches the other host, when an import of
\* what it wrote says that it is done (transfer.go:57-64 and 95-99): but for the
\* volumes it could not ask for and the file that a tar left at work is at.
THEOREM BundlesArriveWhole == Spec => []RoundTrip
<1>1. Init => PackInv
    BY DEF Init, PackInv
<1>2. TypeOK /\ PackInv /\ [Next]_vars => PackInv'
    BY PackStep
<1>3. ImportIsUnion /\ PackInv => RoundTrip
    <2> SUFFICES ASSUME ImportIsUnion, PackInv, isays = "ok", esays = "ok", copy = bundle,
                        NEW f \in exported \ Whole("dst"), CacheOf[f] \notin unseen
                 PROVE  OrphanAt(f)
        BY DEF RoundTrip
    <2>1. f \in copy.files
        BY DEF PackInv, Seen
    <2> QED BY <2>1 DEF ImportIsUnion
<1> QED BY <1>1, <1>2, <1>3, ImportsAreUnions, TransferTypes, PTL DEF Spec
=============================================================================
