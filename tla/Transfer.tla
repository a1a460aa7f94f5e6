------------------------------ MODULE Transfer ------------------------------
(***************************************************************************)
(* export and import (internal/cache/transfer.go): the volumes of one      *)
(* host's caches go into a bundle, the bundle is copied to a second host   *)
(* and unpacked into its volumes, while the caches of both may be serving. *)
(*                                                                         *)
(* A File is a blob in the volume of one cache.  The caches are external   *)
(* here: they fetch what they do not have and put it in place by a rename, *)
(* so a file of theirs is whole (BlobStore says so of the blob cache), and *)
(* they fetch no file that is there.  tar is external too: it replaces a   *)
(* file by removing it, creating it anew and writing it.  It is a process  *)
(* of its own, which has inherited the bundle (runStream): when the        *)
(* command is killed or interrupted, tar may go on.                        *)
(***************************************************************************)
EXTENDS FiniteSets, Naturals

CONSTANTS
    File, Cache,
    CacheOf,     \* file -> its cache
    Asks,        \* what --cache may say: sets of caches, {} when it is not given
    Kept,        \* what each host has on disk when it starts
    OldBundles,  \* what may lie at outPath before: sets of files
    Faults,      \* "query", "helper", "interrupt", "kill"
    MaxFills,    \* bound on the fetches the caches start
    MaxImports,  \* bound on the imports
    None

Host == {"src", "dst"}
Tar == 1 .. MaxImports  \* one for each import

ASSUME TransferAssumption ==
    /\ CacheOf \in [File -> Cache]
    /\ Asks \subseteq SUBSET Cache
    /\ Kept \in [Host -> SUBSET File]
    /\ OldBundles \subseteq SUBSET File
    /\ MaxFills \in Nat /\ MaxImports \in Nat
    /\ None \notin File
    /\ None \notin [files : SUBSET File, ended : BOOLEAN]

VARIABLES
    vol,       \* host -> the volumes it has
    disk,      \* host -> file -> how much of it is there
    filling,   \* host -> the files its caches are fetching
    fills,     \* how many fetches there were
    bundle,    \* the file at outPath
    epc,       \* where Export is, or the tar that a killed one has left
    want,      \* the caches it was asked for
    names,     \* the volumes it mounts
    left,      \* the files tar has yet to read
    esays,     \* how it ended
    unseen,    \* the volumes that it could not ask for
    exported,  \* what those that it has to export held when tar began
    copy,      \* the bundle on the other host
    ipc,       \* where Import is
    isays,     \* how it ended
    imports,   \* how many there were
    had,       \* what dst had whole when the import began
    orphans,   \* the tars of earlier imports that were at work then
    tar,       \* import -> where the tar it started is
    todo,      \* ... the files this has yet to unpack
    ends,      \* ... its input has an end
    cur,       \* ... the file it is at, or broke off at
    mine       \* ... that file's name still leads to what it writes

hostVars   == <<vol, disk, filling, fills>>
exportVars == <<bundle, epc, want, names, left, esays, unseen, exported>>
importVars == <<copy, ipc, isays, imports, had, orphans>>
tarVars    == <<tar, todo, ends, cur, mine>>
vars == <<hostVars, exportVars, importVars, tarVars>>

Bundle == [files : SUBSET File, ended : BOOLEAN]
EmptyFile == [files |-> {}, ended |-> FALSE]
Verdict == {"none", "ok", "error", "killed"}
AtWork == {k \in Tar : tar[k] \in {"next", "create", "write"}}
Whole(h) == {f \in File : disk[h][f] = "whole"}

\* Every variable has its type, and a file is in a volume that exists.
TypeOK ==
    /\ vol \in [Host -> SUBSET Cache]
    /\ disk \in [Host -> [File -> {"absent", "part", "whole"}]]
    /\ \A h \in Host, f \in File : disk[h][f] # "absent" => CacheOf[f] \in vol[h]
    /\ filling \in [Host -> SUBSET File] /\ fills \in 0 .. MaxFills
    /\ bundle \in Bundle \cup {None} /\ copy \in Bundle \cup {None}
    /\ epc \in {"idle", "look", "helper", "create", "tar", "done"}
    /\ want \in SUBSET Cache /\ names \in SUBSET Cache /\ unseen \in SUBSET Cache
    /\ left \in SUBSET File /\ exported \in SUBSET File
    /\ esays \in Verdict
    /\ ipc \in {"idle", "open", "helper", "volumes", "tar", "done"}
    /\ isays \in Verdict /\ had \in SUBSET File
    /\ imports \in 0 .. MaxImports /\ orphans \in SUBSET Tar
    /\ tar \in [Tar -> {"none", "next", "create", "write", "over", "broken"}]
    /\ todo \in [Tar -> SUBSET File] /\ cur \in [Tar -> File \cup {None}]
    /\ ends \in [Tar -> BOOLEAN] /\ mine \in [Tar -> BOOLEAN]

Init ==
    /\ vol = [h \in Host |-> {CacheOf[f] : f \in Kept[h]}]
    /\ disk = [h \in Host |-> [f \in File |-> IF f \in Kept[h] THEN "whole" ELSE "absent"]]
    /\ filling = [h \in Host |-> {}] /\ fills = 0
    /\ bundle \in {None} \cup {[files |-> s, ended |-> TRUE] : s \in OldBundles}
    /\ epc = "idle" /\ want = {} /\ names = {} /\ left = {} /\ esays = "none"
    /\ unseen = {} /\ exported = {}
    /\ copy = None
    /\ ipc = "idle" /\ isays = "none" /\ imports = 0 /\ had = {} /\ orphans = {}
    /\ tar = [k \in Tar |-> "none"] /\ todo = [k \in Tar |-> {}]
    /\ ends = [k \in Tar |-> FALSE] /\ cur = [k \in Tar |-> None]
    /\ mine = [k \in Tar |-> FALSE]

-----------------------------------------------------------------------------
(* The caches of host h, external: a miss, and what becomes of it.         *)

Misses(h, f) ==
    /\ fills < MaxFills
    /\ CacheOf[f] \in vol[h]
    /\ disk[h][f] = "absent" /\ f \notin filling[h]
    /\ filling' = [filling EXCEPT ![h] = @ \cup {f}]
    /\ fills' = fills + 1
    /\ UNCHANGED <<vol, disk, exportVars, importVars, tarVars>>

\* The name f no longer leads to what a tar was writing there.
NameTaken(f) == [k \in Tar |-> mine[k] /\ cur[k] # f]

\* A fetch that began before tar created the file takes its name away from it.
Stores(h, f) ==
    /\ f \in filling[h]
    /\ filling' = [filling EXCEPT ![h] = @ \ {f}]
    /\ disk' = [disk EXCEPT ![h][f] = "whole"]
    /\ mine' = IF h = "dst" THEN NameTaken(f) ELSE mine
    /\ UNCHANGED <<vol, fills, exportVars, importVars, tar, todo, ends, cur>>

GivesUp(h, f) ==
    /\ f \in filling[h]
    /\ filling' = [filling EXCEPT ![h] = @ \ {f}]
    /\ UNCHANGED <<vol, disk, fills, exportVars, importVars, tarVars>>

-----------------------------------------------------------------------------
(* Export                                                                  *)

\* Export's own variables end with it.
ExportEnds(how) ==
    /\ epc' = "done" /\ esays' = how
    /\ want' = {} /\ names' = {} /\ left' = {}
ExportGoesTo(place) == epc' = place /\ UNCHANGED esays

BeginExport ==
    /\ epc = "idle"
    /\ ExportGoesTo("look")
    /\ want' \in Asks
    /\ UNCHANGED <<hostVars, bundle, names, left, unseen, exported, importVars, tarVars>>

\* (Variant: --cache says what to leave out.)
ChosenOthers(c) == want = {} \/ c \notin want
Chosen(c) == want = {} \/ c \in want

\* The loop over Upstreams: a volume that cannot be asked for counts as none.
LookForVolumes ==
    /\ epc = "look"
    /\ unseen' \in IF "query" \in Faults THEN SUBSET vol["src"] ELSE {{}}
    /\ \E seen \in {{c \in vol["src"] : Chosen(c)} \ unseen'} :
        \/ seen = {} /\ ExportEnds("error")
        \/ seen # {} /\ ExportGoesTo("helper") /\ names' = seen /\ UNCHANGED <<want, left>>
    /\ UNCHANGED <<hostVars, bundle, exported, importVars, tarVars>>

\* helperImage, which may have to pull
ExportGetsHelper ==
    /\ epc = "helper"
    /\ \/ ExportGoesTo("create") /\ UNCHANGED <<want, names, left>>
       \/ Faults \cap {"helper", "interrupt"} # {} /\ ExportEnds("error")
    /\ UNCHANGED <<hostVars, bundle, unseen, exported, importVars, tarVars>>

\* os.Create: what was at outPath is gone.  It may be refused.
CreateBundle ==
    /\ epc = "create"
    /\ \/ /\ bundle' = EmptyFile
          /\ left' = {f \in File : CacheOf[f] \in names /\ disk["src"][f] # "absent"}
          /\ exported' = {f \in Whole("src") : want = {} \/ CacheOf[f] \in want}
          /\ ExportGoesTo("tar")
          /\ UNCHANGED <<want, names>>
       \/ ExportEnds("error") /\ UNCHANGED <<bundle, exported>>
    /\ UNCHANGED <<hostVars, unseen, importVars, tarVars>>

\* tar reads one file more: one it began with, or a new one it comes across.
Packs(f) ==
    /\ epc = "tar"
    /\ CacheOf[f] \in names
    /\ disk["src"][f] # "absent"
    /\ f \notin bundle.files
    /\ bundle' = [bundle EXCEPT !.files = @ \cup {f}]
    /\ left' = left \ {f}
    /\ UNCHANGED <<hostVars, epc, want, names, esays, unseen, exported, importVars, tarVars>>

Packed ==
    /\ epc = "tar"
    /\ left = {}
    /\ bundle' = [bundle EXCEPT !.ended = TRUE]
    /\ ExportEnds(IF esays = "killed" THEN "killed" ELSE "ok")
    /\ UNCHANGED <<hostVars, unseen, exported, importVars, tarVars>>

\* (Variant: what was written stays.)
LeftBehind == bundle
Discarded == None

\* The helper fails (tar does when a temp file it has seen is renamed), or the
\* command is interrupted: Export, unless it was killed, removes the bundle.
PackingFails ==
    /\ epc = "tar"
    /\ Faults \cap {"helper", "interrupt"} # {}
    /\ \/ esays = "killed" /\ ExportEnds("killed") /\ UNCHANGED bundle
       \/ esays = "none" /\ ExportEnds("error") /\ bundle' = Discarded
    /\ UNCHANGED <<hostVars, unseen, exported, importVars, tarVars>>

\* A tar that is at work has the file at outPath as its output and goes on.
ExportKilled ==
    /\ "kill" \in Faults
    /\ epc \notin {"idle", "done"} /\ esays = "none"
    /\ IF epc = "tar"
       THEN esays' = "killed" /\ UNCHANGED <<epc, want, names, left>>
       ELSE ExportEnds("killed")
    /\ UNCHANGED <<hostVars, bundle, unseen, exported, importVars, tarVars>>

-----------------------------------------------------------------------------
(* Import, of what lay at outPath when no export command was at work there. *)

\* (Variant: a helper that fails goes unnoticed.)
Unnoticed == "ok"
Noticed == "error"
ImportEnds(how) == ipc' = "done" /\ isays' = how

BeginImport ==
    /\ ipc \in {"idle", "done"}
    /\ imports < MaxImports
    /\ epc # "tar" \/ esays = "killed"
    /\ copy' = bundle
    /\ imports' = imports + 1
    /\ ipc' = "open" /\ isays' = "none"
    /\ had' = Whole("dst") /\ orphans' = AtWork
    /\ UNCHANGED <<hostVars, exportVars, tarVars>>

\* os.Open and helperImage
OpenBundle ==
    /\ ipc = "open"
    /\ IF copy = None THEN ImportEnds("error") ELSE ipc' = "helper" /\ UNCHANGED isays
    /\ UNCHANGED <<hostVars, exportVars, copy, imports, had, orphans, tarVars>>

ImportGetsHelper ==
    /\ ipc = "helper"
    /\ \/ ipc' = "volumes" /\ UNCHANGED isays
       \/ Faults \cap {"helper", "interrupt"} # {} /\ ImportEnds("error")
    /\ UNCHANGED <<hostVars, exportVars, copy, imports, had, orphans, tarVars>>

\* ensureVolume.  (Variant: it only looks.)
OnlyExisting(c) == vol["dst"]
Ensured(c) == vol["dst"] \cup {c}

EnsureVolume(c) ==
    /\ ipc = "volumes"
    /\ c \notin vol["dst"]
    /\ \/ /\ vol' = [vol EXCEPT !["dst"] = Ensured(c)]
          /\ UNCHANGED <<ipc, isays>>
       \/ /\ Faults \cap {"query", "interrupt"} # {}
          /\ ImportEnds("error")
          /\ UNCHANGED vol
    /\ UNCHANGED <<disk, filling, fills, exportVars, copy, imports, had, orphans, tarVars>>

\* What tar starts from.  (Variant: volumes that were emptied first.)
Emptied == [f \in File |-> "absent"]
AsTheyAre == disk["dst"]

\* runStream, which then waits for the tar
StartUnpacking ==
    /\ ipc = "volumes"
    /\ UNION {Ensured(c) : c \in Cache} = vol["dst"]
    /\ ipc' = "tar"
    /\ tar' = [tar EXCEPT ![imports] = "next"]
    /\ todo' = [todo EXCEPT ![imports] = copy.files]
    /\ ends' = [ends EXCEPT ![imports] = copy.ended]
    /\ disk' = [disk EXCEPT !["dst"] = AsTheyAre]
    /\ UNCHANGED <<vol, filling, fills, exportVars, copy, isays, imports, had, orphans, cur, mine>>

ImportReturns ==
    /\ ipc = "tar"
    /\ tar[imports] \in {"over", "broken"}
    /\ ImportEnds(IF tar[imports] = "over" THEN "ok" ELSE Noticed)
    /\ UNCHANGED <<hostVars, exportVars, copy, imports, had, orphans, tarVars>>

\* The runtime's CLI is killed (exec.CommandContext); what it has passed on to
\* tar, tar still unpacks.
ImportInterrupted ==
    /\ "interrupt" \in Faults
    /\ ipc = "tar"
    /\ ImportEnds(Noticed)
    /\ UNCHANGED <<hostVars, exportVars, copy, imports, had, orphans, tarVars>>

\* Nobody tells the CLI: tar goes on.
ImportKilled ==
    /\ "kill" \in Faults
    /\ ipc \notin {"idle", "done"}
    /\ ImportEnds("killed")
    /\ UNCHANGED <<hostVars, exportVars, copy, imports, had, orphans, tarVars>>

-----------------------------------------------------------------------------
(* The tar of import k, external.                                          *)

\* At its next file, it removes the one of that name.
Unlinks(k, f) ==
    /\ tar[k] = "next"
    /\ f \in todo[k]
    /\ cur' = [cur EXCEPT ![k] = f]
    /\ tar' = [tar EXCEPT ![k] = "create"]
    /\ disk' = [disk EXCEPT !["dst"][f] = "absent"]
    /\ mine' = NameTaken(f)
    /\ UNCHANGED <<vol, filling, fills, exportVars, importVars, todo, ends>>

\* O_EXCL: it fails when somebody has just made a file of that name.
Creates(k) ==
    /\ tar[k] = "create"
    /\ \/ /\ disk["dst"][cur[k]] = "absent"
          /\ disk' = [disk EXCEPT !["dst"][cur[k]] = "part"]
          /\ mine' = [mine EXCEPT ![k] = TRUE]
          /\ tar' = [tar EXCEPT ![k] = "write"]
       \/ /\ disk["dst"][cur[k]] # "absent"
          /\ tar' = [tar EXCEPT ![k] = "broken"]
          /\ UNCHANGED <<disk, mine>>
    /\ UNCHANGED <<vol, filling, fills, exportVars, importVars, todo, ends, cur>>

Writes(k) ==
    /\ tar[k] = "write"
    /\ disk' = IF mine[k] THEN [disk EXCEPT !["dst"][cur[k]] = "whole"] ELSE disk
    /\ todo' = [todo EXCEPT ![k] = @ \ {cur[k]}]
    /\ cur' = [cur EXCEPT ![k] = None]
    /\ mine' = [mine EXCEPT ![k] = FALSE]
    /\ tar' = [tar EXCEPT ![k] = "next"]
    /\ UNCHANGED <<vol, filling, fills, exportVars, importVars, ends>>

Unpacked(k) ==
    /\ tar[k] = "next"
    /\ todo[k] = {} /\ ends[k]
    /\ tar' = [tar EXCEPT ![k] = "over"]
    /\ UNCHANGED <<hostVars, exportVars, importVars, todo, ends, cur, mine>>

\* Its input breaks off, or the helper fails or is stopped.
Breaks(k) ==
    /\ k \in AtWork
    /\ ~ends[k] \/ Faults \cap {"helper", "interrupt"} # {}
    /\ tar' = [tar EXCEPT ![k] = "broken"]
    /\ UNCHANGED <<hostVars, exportVars, importVars, todo, ends, cur, mine>>

-----------------------------------------------------------------------------
Caches == \E h \in Host, f \in File : Misses(h, f) \/ Stores(h, f) \/ GivesUp(h, f)
Export ==
    \/ BeginExport \/ LookForVolumes \/ ExportGetsHelper \/ CreateBundle \/ Packed
    \/ PackingFails \/ ExportKilled \/ \E f \in File : Packs(f)
Import ==
    \/ BeginImport \/ OpenBundle \/ ImportGetsHelper \/ StartUnpacking
    \/ ImportReturns \/ ImportInterrupted \/ ImportKilled
    \/ \E c \in Cache : EnsureVolume(c)
Tars == \E k \in Tar :
    \/ Creates(k) \/ Writes(k) \/ Unpacked(k) \/ Breaks(k)
    \/ \E f \in File : Unlinks(k, f)

Next == Caches \/ Export \/ Import \/ Tars

Spec == Init /\ [][Next]_vars

-----------------------------------------------------------------------------
(* Properties *)

\* An export that fails leaves no part of a bundle where a whole one is looked
\* for: "don't leave a partial bundle" (Export).
NoPartialBundle == esays = "error" => bundle = None \/ bundle.ended

\* A tar that an earlier import has left at work is at f, or broke off there.
OrphanAt(f) == \E k \in orphans : cur[k] = f

\* The way to another host is complete: once an import of what an export has
\* written says that it is done, the second host has every file that the
\* exported volumes held, although the caches of both were serving; but not
\* those of a volume that export could not ask for, nor the one that a tar which
\* an earlier import has left at work is replacing.
RoundTrip ==
    isays = "ok" /\ esays = "ok" /\ copy = bundle =>
        \A f \in exported \ Whole("dst") : CacheOf[f] \in unseen \/ OrphanAt(f)

\* An import that says that it is done is a union: the second host has what it
\* had and what was in the bundle, also when an earlier import was cut short.
\* What may be missing is the file at which a tar is that the earlier one has
\* left at work.
ImportIsUnion ==
    isays = "ok" => \A f \in (had \cup copy.files) \ Whole("dst") : OrphanAt(f)

\* However an import ends, and at any time while it runs and after it, at most
\* one file that was there before is missing or incomplete for every tar that
\* was at work since it began.
LosesAtMostOne ==
    ipc # "idle" => Cardinality(had \ Whole("dst")) <= 1 + Cardinality(orphans)

\* Import "merges into an existing one without clobbering blobs": when it has
\* returned, what was there before is there.  (It need not be: an interrupt.)
KeepsBlobs == isays \in {"ok", "error"} => had \subseteq Whole("dst")

\* The inductive invariant: what makes the above true while the two run.
ExportInv ==
    /\ epc \notin {"tar", "done"} => esays = "none"
    /\ epc = "tar" => esays \in {"none", "killed"} /\ bundle # None
    /\ epc \in {"idle", "look", "helper", "create"} => bundle = None \/ bundle.ended
    /\ NoPartialBundle

\* Tar k answers for f: it has removed f and not made it whole again, and nobody
\* has taken the name since.
Holds(k, f) ==
    /\ cur[k] = f
    /\ tar[k] \in {"create", "broken"} \/ (tar[k] = "write" /\ mine[k])

\* The tars that were at work since the import began
Since == (orphans \cup {imports}) \cap Tar
Safe(f) == disk["dst"][f] = "whole" \/ \E k \in Since : Holds(k, f)

\* The files that the tar of the last import is at or has passed
Passed ==
    {f \in File : /\ imports \in Tar /\ tar[imports] # "none"
                  /\ f \in copy.files \ todo[imports] \/ f = cur[imports]}

TarInv ==
    \A k \in Tar :
        /\ tar[k] \in {"none", "next", "over"} => cur[k] = None
        /\ tar[k] \in {"create", "write"} => cur[k] \in File
        /\ tar[k] = "over" => todo[k] = {}
        /\ tar[k] # "none" => k <= imports /\ Cache \subseteq vol["dst"]

ImportInv ==
    /\ ipc = "idle" <=> imports = 0
    /\ ipc # "done" => isays = "none"
    /\ ipc \in {"open", "helper", "volumes"} => tar[imports] = "none"
    /\ ipc \in {"helper", "volumes", "tar"} => copy # None
    /\ ipc = "tar" => tar[imports] # "none"
    /\ isays = "ok" => copy # None /\ tar[imports] = "over"
    /\ imports \notin orphans
    /\ AtWork \subseteq Since
    /\ ipc # "idle" => \A f \in had \cup Passed : Safe(f)

\* What a cache is fetching has a volume to go to.
FillInv == \A h \in Host : \A f \in filling[h] : CacheOf[f] \in vol[h]

TransferInv == TypeOK /\ ExportInv /\ TarInv /\ ImportInv /\ FillInv
=============================================================================
