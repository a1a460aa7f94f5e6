--------------------------- MODULE InventoryProofs ---------------------------
(***************************************************************************)
(* A registry cache with its readers, a pull and gc, for all values of the *)
(* constants: the types, that an image counted as full is on disk, and     *)
(* that reading the store fetches nothing.                                 *)
(***************************************************************************)
EXTENDS Inventory, TLAPS

-----------------------------------------------------------------------------
(* What a step may do to the store: nothing, one item more, or a gc.       *)

StoreStep ==
    \/ data' = data /\ linked' = linked
    \/ \E r \in Repo, d \in Item : Puts(r, d)
    \/ data' = data \cap Marked /\ linked' = linked

\* What was linked stays linked; a manifest on disk stays with what it lists.
StoreKeeps ==
    /\ \A r \in Repo : linked[r] \subseteq linked'[r]
    /\ \A m \in data \cap Manifest : m \in data' /\ Listed(m) \cap data \subseteq data'

\* Neither pulls nor gc take a manifest that is on disk, or what it lists.
LEMMA StoreIsKept ==
    ASSUME RegistryTypeOK, LinkedInv, StoreStep
    PROVE  /\ StoreKeeps /\ LinkedInv'
           /\ data' \in SUBSET Item /\ linked' \in [Repo -> SUBSET Item]
<1>1. CASE data' = data /\ linked' = linked
  BY <1>1 DEF StoreKeeps, LinkedInv, RegistryTypeOK
<1>2. CASE \E r \in Repo, d \in Item : Puts(r, d)
  <2>1. PICK r \in Repo, d \in Item : Puts(r, d)
    BY <1>2
  <2>2. /\ linked' \in [Repo -> SUBSET Item] /\ data' = data \cup {d} /\ d \in linked'[r]
        /\ \A s \in Repo : linked[s] \subseteq linked'[s]
    BY <2>1 DEF Puts, RegistryTypeOK
  <2> QED
    BY <2>2 DEF StoreKeeps, LinkedInv, RegistryTypeOK
<1>3. CASE data' = data \cap Marked /\ linked' = linked
  <2>1. \A m \in data \cap Manifest : m \in Marked /\ Listed(m) \subseteq Marked
    BY DEF LinkedInv, Marked
  <2> QED
    BY <1>3, <2>1 DEF StoreKeeps, LinkedInv, RegistryTypeOK
<1> QED
  BY <1>1, <1>2, <1>3 DEF StoreStep

\* The head and the rest of what is still to be looked for
LEMMA HeadAndTail ==
    ASSUME NEW S, NEW q \in Seq(S), q # <<>>
    PROVE  /\ Head(q) = q[1] /\ Head(q) \in S /\ Tail(q) \in Seq(S)
           /\ 1 \in DOMAIN q /\ Len(Tail(q)) = Len(q) - 1
           /\ \A k \in DOMAIN Tail(q) : k + 1 \in DOMAIN q /\ Tail(q)[k] = q[k + 1]
           /\ \A k \in DOMAIN q : k # 1 => k - 1 \in DOMAIN Tail(q) /\ q[k] = Tail(q)[k - 1]
<1>1. Len(q) \in Nat /\ Len(q) > 0 /\ DOMAIN q = 1 .. Len(q) /\ DOMAIN Tail(q) = 1 .. Len(q) - 1
  OBVIOUS
<1> QED
  BY <1>1

\* p before q
LEMMA Concatenated ==
    ASSUME NEW S, NEW p \in Seq(S), NEW q \in Seq(S)
    PROVE  /\ p \o q \in Seq(S)
           /\ \A k \in DOMAIN p : k \in DOMAIN (p \o q) /\ (p \o q)[k] = p[k]
           /\ \A k \in DOMAIN q : Len(p) + k \in DOMAIN (p \o q) /\ (p \o q)[Len(p) + k] = q[k]
           /\ \A k \in DOMAIN (p \o q) :
                \/ k \in DOMAIN p /\ (p \o q)[k] = p[k]
                \/ k - Len(p) \in DOMAIN q /\ k > Len(p) /\ (p \o q)[k] = q[k - Len(p)]
<1>1. /\ Len(p) \in Nat /\ Len(q) \in Nat /\ DOMAIN p = 1 .. Len(p) /\ DOMAIN q = 1 .. Len(q)
      /\ DOMAIN (p \o q) = 1 .. (Len(p) + Len(q))
  OBVIOUS
<1> QED
  BY <1>1

\* What manifests list: an index other manifests, the others blobs.
LEMMA ListedFacts ==
    ASSUME NEW m \in Manifest
    PROVE  /\ Lists[m] \in Seq(Item)
           /\ \A d \in Listed(m) : \E k \in DOMAIN Lists[m] : d = Lists[m][k]
           /\ \A k \in DOMAIN Lists[m] : Lists[m][k] \in Listed(m)
           /\ m \in Index => Listed(m) \subseteq Manifest \ Index
           /\ m \notin Index => Listed(m) \subseteq Blob
<1>1. Lists[m] \in Seq(Item)
  BY RegistryAssumption
<1>2. \A k \in DOMAIN Lists[m] : Lists[m][k] \in (IF m \in Index THEN Manifest \ Index ELSE Blob)
  BY RegistryAssumption
<1> QED
  BY <1>1, <1>2 DEF Listed

-----------------------------------------------------------------------------
(* Where the reader is                                                     *)

LEMMA PlaceFacts ==
    ASSUME CoverageTypeOK, PlaceInv, rpc \in {"tag", "has", "read"}
    PROVE  /\ Looking \in Image /\ At \in Repo /\ Top[Looking] \in Manifest
           /\ check \in Seq(Item) /\ check # <<>>
           /\ nthImage \in Nat /\ (nthImage # 0 => nthImage \in 1 .. Len(Images))
<1>1. Images \in Seq(Image)
  BY CoverageAssumption DEF Images
<1>2. nthImage \in Nat /\ nthImage <= Len(Images)
  BY <1>1 DEF CoverageTypeOK, PlaceInv
<1>3. Looking \in Image
  BY <1>1, <1>2, CoverageAssumption DEF Looking
<1> QED
  BY <1>2, <1>3, RegistryAssumption DEF At, CoverageTypeOK, PlaceInv

\* Some item of an image: the manifest, a child, or what one of these lists.
LEMMA NeededFacts ==
    ASSUME NEW i \in Image, NEW d \in NeededOf(i)
    PROVE  /\ d \in Item
           /\ \/ d = Top[i]
              \/ d \in Listed(Top[i]) /\ (Top[i] \in Index => d \in Matching)
              \/ \E c \in Listed(Top[i]) \cap Matching : Top[i] \in Index /\ d \in Listed(c)
<1>1. Top[i] \in Manifest
  BY RegistryAssumption
<1>2. Matching \subseteq Manifest
  BY CoverageAssumption
<1>3. \A m \in Manifest : Listed(m) \subseteq Item
  BY ListedFacts DEF Item
<1> QED
  BY <1>1, <1>2, <1>3 DEF NeededOf, Needs, Item

\* Once everything that belongs to the image is found, it is complete: what was
\* on disk beside its manifest when the view was taken still is.
LEMMA FoundIsComplete ==
    ASSUME CoverageTypeOK, PlaceInv, SnapInv, rpc \in {"tag", "has", "read"}, Accounted(<<>>)
    PROVE  Complete(Looking)
<1> DEFINE i == Looking
<1>1. i \in Image /\ Top[i] \in Manifest /\ Matching \subseteq Manifest
  BY PlaceFacts, CoverageAssumption
<1>2. \A d \in NeededOf(i) : Found(d)
  BY DEF Accounted, Pending
<1>3. Top[i] \in NeededOf(i) /\ (Top[i] \in Index => Listed(Top[i]) \cap Matching \subseteq NeededOf(i))
  BY <1>1 DEF NeededOf, Needs
<1>4. ASSUME NEW d \in NeededOf(i) PROVE d \in data /\ d \in linked[At]
  <2>1. d \in snap /\ d \in linked[At] /\ Top[i] \in snap
    BY <1>2, <1>3 DEF Found
  <2>2. CASE d = Top[i]
    BY <2>1, <2>2, <1>1 DEF SnapInv
  <2>3. CASE d \in Listed(Top[i])
    BY <2>1, <2>3, <1>1 DEF SnapInv
  <2>4. ASSUME NEW c \in Listed(Top[i]) \cap Matching, Top[i] \in Index, d \in Listed(c) PROVE d \in data
    <3>1. c \in snap /\ c \in Manifest
      BY <2>4, <1>1, <1>2, <1>3 DEF Found
    <3> QED
      BY <3>1, <2>1, <2>4 DEF SnapInv
  <2> QED
    BY <2>1, <2>2, <2>3, <2>4, <1>1, NeededFacts
<1> QED
  BY <1>4 DEF Complete, Accounted, Local, At

-----------------------------------------------------------------------------
(* A step beside the reader                                                *)

\* An image that is complete for the platform stays so.
LEMMA CompleteStays ==
    ASSUME StoreKeeps, NEW i \in Image, Complete(i)
    PROVE  Complete(i)'
<1>1. Complete(i) /\ Top[i] \in Manifest /\ RepoOf[i] \in Repo /\ Matching \subseteq Manifest
  BY RegistryAssumption, CoverageAssumption
<1>2. Top[i] \in NeededOf(i) /\ (Top[i] \in Index => Listed(Top[i]) \cap Matching \subseteq NeededOf(i))
  BY <1>1 DEF NeededOf, Needs
<1>3. \A d \in NeededOf(i) : d \in data /\ d \in linked[RepoOf[i]] /\ d \in linked'[RepoOf[i]]
  BY <1>1 DEF Complete, Local, StoreKeeps
<1>4. ASSUME NEW d \in NeededOf(i) PROVE d \in data'
  <2>1. CASE d = Top[i] \/ d \in Listed(Top[i])
    BY <2>1, <1>1, <1>2, <1>3 DEF StoreKeeps
  <2>2. ASSUME NEW c \in Listed(Top[i]) \cap Matching, Top[i] \in Index, d \in Listed(c) PROVE d \in data'
    <3>1. c \in data \cap Manifest
      BY <2>2, <1>1, <1>2, <1>3
    <3> QED
      BY <3>1, <2>2, <1>3 DEF StoreKeeps
  <2> QED
    BY <2>1, <2>2, NeededFacts
<1> QED
  BY <1>1, <1>3, <1>4 DEF Complete, Local

LEMMA FullStays ==
    ASSUME StoreKeeps, FullIsStored
    PROVE  \A i \in Image : counted[i] = "full" => Complete(i)'
  BY CompleteStays DEF FullIsStored

LEMMA ViewBeside ==
    ASSUME RegistryTypeOK, CoverageTypeOK, LinkedInv, ViewInv, StoreStep, UNCHANGED coverageVars
    PROVE  ViewInv'
<1>1. StoreKeeps
  BY StoreIsKept
<1>2. FullIsStored'
  BY <1>1, FullStays DEF FullIsStored, ViewInv, coverageVars
<1>3. SnapInv'
  BY <1>1 DEF SnapInv, ViewInv, coverageVars, StoreKeeps
<1>4. LinksInv'
  BY <1>1 DEF LinksInv, ViewInv, coverageVars, StoreKeeps
<1>5. PlaceInv' /\ CheckInv' /\ ReadsAreLocal'
  BY DEF PlaceInv, CheckInv, Justified, ReadsAreLocal, ViewInv, coverageVars, Images
<1>6. Looking' = Looking /\ At' = At
  BY DEF Looking, At, Images, coverageVars
<1>7. CASE rpc \in {"tag", "has", "read"}
  <2>1. At \in Repo
    BY <1>7, PlaceFacts DEF ViewInv
  <2>2. \A d : Found(d) => Found(d)'
    BY <1>1, <1>6, <2>1 DEF Found, StoreKeeps, coverageVars
  <2>3. ReadInv'
    BY <2>2 DEF ReadInv, ViewInv, coverageVars
  <2>4. Accounted(check) => Accounted(check)'
    BY <2>2, <1>6 DEF Accounted, Pending, coverageVars
  <2>5. ImageInv'
    BY <2>4, <1>6 DEF ImageInv, ViewInv, coverageVars
  <2> QED
    BY <1>2, <1>3, <1>4, <1>5, <2>3, <2>5 DEF ViewInv
<1>8. CASE rpc \notin {"tag", "has", "read"}
  <2>1. ReadInv' /\ ImageInv'
    BY <1>8 DEF ReadInv, ImageInv, coverageVars
  <2> QED
    BY <1>2, <1>3, <1>4, <1>5, <2>1 DEF ViewInv
<1> QED
  BY <1>7, <1>8

-----------------------------------------------------------------------------
(* The reader's own steps                                                  *)

\* What its steps leave alone while it is at an image or the release
SameView ==
    /\ reader' = reader /\ snap' = snap /\ data' = data /\ linked' = linked
    /\ wentUp' = wentUp /\ rcalm' \in BOOLEAN
    /\ links' \in [Repo -> [m : (SUBSET Manifest) \cup {Unread}, b : (SUBSET Blob) \cup {Unread}]]
    /\ LinksInv'

LEMMA ImagesFacts == Len(Images) \in Nat /\ Images \in Seq(Image) /\ Len(Images) <= Len(Payload) + 1
  BY CoverageAssumption DEF Images

LEMMA SameViewKeeps ==
    ASSUME ViewInv, SameView, FullIsStored'
    PROVE  SnapInv' /\ LinksInv' /\ FullIsStored' /\ ReadsAreLocal' /\ Images' = Images
  BY DEF ViewInv, SameView, SnapInv, ReadsAreLocal, Images

\* The verdict on an image, or the end when the release cannot be read
LEMMA JudgedKeeps ==
    ASSUME CoverageTypeOK, ViewInv, rpc \in {"tag", "has", "read"}, SameView,
           check' \in Seq(Item),
           NEW as \in Counts, Judged(as), as = "full" => Complete(Looking)
    PROVE  CoverageTypeOK' /\ ViewInv'
<1>1. /\ Looking \in Image /\ Len(Images) \in Nat /\ nthImage \in Nat /\ nthImage <= Len(Images)
      /\ Len(Images) <= Len(Payload) + 1 /\ Len(Payload) \in Nat
  BY PlaceFacts, ImagesFacts, CoverageAssumption DEF ViewInv, PlaceInv
<1>2. \A i \in Image : Complete(i)' <=> Complete(i)
  BY DEF SameView, Complete, Local
<1>3. CASE nthImage = 0
  <2>1. rpc' = "done" /\ rsays' = "error" /\ nthImage' = 0 /\ counted' = counted
    BY <1>3 DEF Judged, ReaderEnds
  <2>2. FullIsStored'
    BY <2>1, <1>2 DEF FullIsStored, ViewInv
  <2>3. CoverageTypeOK'
    BY <2>1, <1>1 DEF CoverageTypeOK, SameView
  <2>4. PlaceInv' /\ CheckInv' /\ ReadInv' /\ ImageInv'
    BY <2>1 DEF PlaceInv, CheckInv, ReadInv, ImageInv
  <2> QED
    BY <2>2, <2>3, <2>4, SameViewKeeps DEF ViewInv
<1>4. CASE nthImage # 0
  <2>1. /\ rpc' = "image" /\ rsays' = rsays /\ nthImage' = nthImage + 1
        /\ counted' = [counted EXCEPT ![Looking] = as]
    BY <1>4 DEF Judged
  <2>2. FullIsStored'
    BY <2>1, <1>1, <1>2 DEF FullIsStored, ViewInv, CoverageTypeOK
  <2>3. counted' \in [Image -> Counts]
    BY <2>1 DEF CoverageTypeOK
  <2>4. nthImage' \in 0 .. Len(Payload) + 2 /\ nthImage' \in 1 .. Len(Images) + 1
    BY <2>1, <1>1
  <2>5. CoverageTypeOK'
    BY <2>1, <2>3, <2>4 DEF CoverageTypeOK, SameView
  <2>6. PlaceInv' /\ CheckInv' /\ ReadInv' /\ ImageInv'
    BY <2>1, <2>2, <2>4, SameViewKeeps DEF PlaceInv, CheckInv, ReadInv, ImageInv
  <2> QED
    BY <2>2, <2>5, <2>6, SameViewKeeps DEF ViewInv
<1> QED
  BY <1>3, <1>4

\* On to the rest, of which each part is accounted for
LEMMA GoesOnKeeps ==
    ASSUME CoverageTypeOK, ViewInv, rpc \in {"has", "read"}, SameView,
           NEW rest \in Seq(Item), GoesOn(rest), Justified(rest),
           nthImage # 0 => Accounted(rest)
    PROVE  CoverageTypeOK' /\ ViewInv'
<1>1. /\ Looking \in Image /\ Len(Images) \in Nat /\ nthImage \in Nat /\ nthImage <= Len(Images)
      /\ check' = rest
  BY PlaceFacts, ImagesFacts DEF ViewInv, PlaceInv, GoesOn
<1>2. \A i \in Image : Complete(i)' <=> Complete(i)
  BY DEF SameView, Complete, Local
<1>3. CASE rest # <<>>
  <2>1. rpc' = "has" /\ nthImage' = nthImage /\ counted' = counted /\ rsays' = rsays
    BY <1>3 DEF GoesOn
  <2>2. FullIsStored'
    BY <2>1, <1>2 DEF FullIsStored, ViewInv
  <2>3. CoverageTypeOK'
    BY <2>1, <1>1 DEF CoverageTypeOK, SameView
  <2>4. Looking' = Looking /\ At' = At /\ Images' = Images
    BY <2>1 DEF Looking, At, Images, SameView
  <2>5. PlaceInv' /\ ReadInv'
    BY <2>1, <2>4, <1>1, <1>3 DEF PlaceInv, ReadInv
  <2>6. CheckInv'
    BY <2>1, <1>1 DEF CheckInv, Justified, SameView
  <2>7. Accounted(rest) => Accounted(rest)'
    BY <2>4 DEF Accounted, Found, Pending, SameView
  <2>8. ImageInv'
    BY <2>1, <2>7, <1>1 DEF ImageInv
  <2> QED
    BY <2>2, <2>3, <2>5, <2>6, <2>8, SameViewKeeps DEF ViewInv
<1>4. CASE rest = <<>> /\ nthImage = 0
  <2>1. rpc' = "image" /\ nthImage' = 1 /\ counted' = counted /\ rsays' = rsays
    BY <1>4 DEF GoesOn
  <2>2. FullIsStored'
    BY <2>1, <1>2 DEF FullIsStored, ViewInv
  <2>3. CoverageTypeOK'
    BY <2>1, <1>1, CoverageAssumption DEF CoverageTypeOK, SameView
  <2>4. PlaceInv' /\ CheckInv' /\ ReadInv' /\ ImageInv'
    BY <2>1, <2>2, <1>1, SameViewKeeps DEF PlaceInv, CheckInv, ReadInv, ImageInv
  <2> QED
    BY <2>2, <2>3, <2>4, SameViewKeeps DEF ViewInv
<1>5. CASE rest = <<>> /\ nthImage # 0
  <2>1. Judged("full")
    BY <1>5 DEF GoesOn
  <2>2. Complete(Looking)
    BY <1>5, FoundIsComplete DEF ViewInv
  <2> QED
    BY <2>1, <2>2, <1>1, JudgedKeeps DEF Counts
<1> QED
  BY <1>3, <1>4, <1>5

\* What its first steps keep, each of which leaves the store and the verdicts alone
LEMMA ReaderStarts ==
    ASSUME RegistryTypeOK, CoverageTypeOK, ViewInv,
           (\E which \in {"coverage", "verify"} : ReaderBegins(which)) \/ Opens \/ ResolvesRelease
    PROVE  CoverageTypeOK' /\ ViewInv' /\ StoreStep
<1>1. data' = data /\ linked' = linked /\ counted' = counted /\ wentUp' = wentUp /\ links' = links
  BY DEF ReaderBegins, Opens, ResolvesRelease, registryVars, store
<1>2. FullIsStored' /\ LinksInv' /\ ReadsAreLocal' /\ StoreStep
  BY <1>1 DEF FullIsStored, Complete, Local, LinksInv, ReadsAreLocal, ViewInv, StoreStep
<1>3. ASSUME NEW which \in {"coverage", "verify"}, ReaderBegins(which) PROVE CoverageTypeOK' /\ ViewInv'
  <2>1. /\ reader' = which /\ rpc = "idle" /\ rpc' = "open" /\ rcalm' = TRUE
        /\ UNCHANGED <<snap, nthImage, check, rsays>>
    BY <1>3 DEF ReaderBegins
  <2>2. CoverageTypeOK'
    BY <1>1, <2>1 DEF CoverageTypeOK
  <2>3. SnapInv' /\ PlaceInv' /\ CheckInv' /\ ReadInv' /\ ImageInv'
    BY <1>1, <2>1 DEF SnapInv, PlaceInv, CheckInv, ReadInv, ImageInv, ViewInv
  <2> QED
    BY <1>2, <2>2, <2>3 DEF ViewInv
<1>4. CASE Opens
  <2>1. reader' = reader /\ check' = check
    BY <1>4 DEF Opens
  <2>2. CASE /\ snap' = data /\ UNCHANGED <<rsays, rcalm>>
             /\ rpc' = IF reader = "coverage" THEN "release" ELSE "image"
             /\ nthImage' = IF reader = "coverage" THEN 0 ELSE 1
    <3>1. CoverageTypeOK'
      BY <1>1, <2>1, <2>2, CoverageAssumption DEF CoverageTypeOK, RegistryTypeOK
    <3>2. SnapInv'
      BY <1>1, <2>2 DEF SnapInv
    <3>3. Len(Images)' \in Nat
      BY <2>1, ImagesFacts DEF Images
    <3>4. PlaceInv' /\ CheckInv' /\ ReadInv' /\ ImageInv'
      BY <2>2, <3>3 DEF PlaceInv, CheckInv, ReadInv, ImageInv
    <3> QED
      BY <1>2, <3>1, <3>2, <3>4 DEF ViewInv
  <2>3. CASE ReaderEnds("error") /\ rcalm' = FALSE /\ UNCHANGED <<snap, nthImage>>
    <3>1. CoverageTypeOK'
      BY <1>1, <2>1, <2>3 DEF CoverageTypeOK, ReaderEnds
    <3>2. SnapInv' /\ PlaceInv' /\ CheckInv' /\ ReadInv' /\ ImageInv'
      BY <1>1, <2>3 DEF SnapInv, PlaceInv, CheckInv, ReadInv, ImageInv, ViewInv, ReaderEnds
    <3> QED
      BY <1>2, <3>1, <3>2 DEF ViewInv
  <2> QED
    BY <1>4, <2>2, <2>3 DEF Opens
<1>5. CASE ResolvesRelease
  <2>1. reader' = reader /\ snap' = snap /\ nthImage' = nthImage
    BY <1>5 DEF ResolvesRelease
  <2>2. SnapInv'
    BY <1>1, <2>1 DEF SnapInv, ViewInv
  <2>3. CASE rpc' = "has" /\ check' = <<Top[Release]>> \o ReleasePath /\ UNCHANGED <<rsays, rcalm>>
    <3>1. /\ Top[Release] \in Manifest /\ Manifest \subseteq Item
          /\ <<Top[Release]>> \in Seq(Item) /\ ReleasePath \in Seq(Item)
      BY RegistryAssumption, CoverageAssumption DEF Item
    <3>2. /\ check' \in Seq(Item) /\ check' # <<>> /\ check'[1] = Top[Release]
          /\ \A k \in DOMAIN ReleasePath : check'[k + 1] = ReleasePath[k]
          /\ \A k \in DOMAIN check' : k \in Nat \ {0} /\ (k # 1 => k - 1 \in DOMAIN ReleasePath /\ check'[k] = ReleasePath[k - 1])
      BY <2>3, <3>1
    <3>3. nthImage = 0
      BY <1>5 DEF ResolvesRelease, ViewInv, PlaceInv
    <3>4. Justified(check)'
      <4> SUFFICES ASSUME NEW k \in DOMAIN check'
                   PROVE  \/ check'[k] \in Manifest
                          \/ \E m \in Manifest : check'[k] \in Listed(m) /\ \E j \in 1 .. k - 1 : check'[j] = m
        BY <2>1, <3>3 DEF Justified
      <4>1. CASE k = 1
        BY <4>1, <3>1, <3>2
      <4>2. CASE k # 1 /\ ReleasePath[k - 1] \in Manifest
        BY <4>2, <3>2
      <4>3. CASE k # 1 /\ ReleasePath[k - 1] \in Listed(Top[Release])
        <5>1. 1 \in 1 .. k - 1
          BY <4>3, <3>2
        <5> QED
          BY <4>3, <5>1, <3>1, <3>2
      <4>4. CASE k # 1 /\ \E j \in 1 .. (k - 1) - 1 : ReleasePath[j] \in Manifest /\ ReleasePath[k - 1] \in Listed(ReleasePath[j])
        <5>1. PICK j \in 1 .. (k - 1) - 1 : ReleasePath[j] \in Manifest /\ ReleasePath[k - 1] \in Listed(ReleasePath[j])
          BY <4>4
        <5>2. k - 1 \in DOMAIN ReleasePath /\ DOMAIN ReleasePath = 1 .. Len(ReleasePath) /\ k \in Nat
          BY <4>4, <3>1, <3>2
        <5>3. j \in DOMAIN ReleasePath /\ j + 1 \in 1 .. k - 1
          BY <5>1, <5>2
        <5> QED
          BY <4>4, <5>1, <5>3, <3>2
      <4> QED
        BY <4>1, <4>2, <4>3, <4>4, <3>2, CoverageAssumption
    <3>5. CoverageTypeOK'
      BY <1>1, <2>1, <2>3, <3>2 DEF CoverageTypeOK
    <3>6. Len(Images)' \in Nat
      BY <2>1, ImagesFacts DEF Images
    <3>7. PlaceInv' /\ CheckInv' /\ ReadInv' /\ ImageInv'
      BY <2>1, <2>3, <3>2, <3>3, <3>4, <3>6 DEF PlaceInv, CheckInv, ReadInv, ImageInv
    <3> QED
      BY <1>2, <2>2, <3>5, <3>7 DEF ViewInv
  <2>4. CASE ReaderEnds("error") /\ check' = check /\ rcalm' \in BOOLEAN
    <3>1. CoverageTypeOK'
      BY <1>1, <2>1, <2>4 DEF CoverageTypeOK, ReaderEnds
    <3>2. PlaceInv' /\ CheckInv' /\ ReadInv' /\ ImageInv'
      BY <2>4 DEF PlaceInv, CheckInv, ReadInv, ImageInv, ReaderEnds
    <3> QED
      BY <1>2, <2>2, <3>1, <3>2 DEF ViewInv
  <2>5. rcalm \in BOOLEAN
    BY DEF CoverageTypeOK
  <2> QED
    BY <1>5, <2>3, <2>4, <2>5 DEF ResolvesRelease
<1> QED
  BY <1>2, <1>3, <1>4, <1>5

LEMMA NextImageKeeps ==
    ASSUME RegistryTypeOK, CoverageTypeOK, ViewInv, NextImage
    PROVE  CoverageTypeOK' /\ ViewInv' /\ StoreStep
<1>1. /\ data' = data /\ linked' = linked /\ wentUp' = wentUp /\ rcalm' = rcalm /\ reader' = reader
      /\ rpc = "image"
  BY DEF NextImage, registryVars, store
<1>2. StoreStep /\ ReadsAreLocal'
  BY <1>1 DEF StoreStep, ReadsAreLocal, ViewInv
<1>3. /\ Len(Images) \in Nat /\ Len(Images) <= Len(Payload) + 1 /\ Len(Payload) \in Nat
      /\ nthImage \in 1 .. Len(Images) + 1 /\ Images' = Images
  BY <1>1, ImagesFacts, CoverageAssumption DEF ViewInv, PlaceInv, Images
<1>4. CASE nthImage > Len(Images)
  <2>1. /\ rpc' = "done" /\ rsays' = "ok" /\ snap' = {} /\ links' = NothingRead /\ check' = <<>>
        /\ nthImage' = nthImage /\ counted' = counted
    BY <1>4 DEF NextImage, ReaderEnds
  <2>2. CoverageTypeOK'
    BY <1>1, <2>1 DEF CoverageTypeOK, NothingRead
  <2>3. FullIsStored'
    BY <1>1, <2>1 DEF FullIsStored, Complete, Local, ViewInv
  <2>4. SnapInv' /\ LinksInv' /\ PlaceInv' /\ CheckInv' /\ ReadInv' /\ ImageInv'
    BY <2>1 DEF SnapInv, LinksInv, PlaceInv, CheckInv, ReadInv, ImageInv, NothingRead
  <2> QED
    BY <1>2, <2>2, <2>3, <2>4 DEF ViewInv
<1>5. CASE nthImage <= Len(Images)
  <2> DEFINE i == Images[nthImage]
  <2>1. i \in Image /\ nthImage \in 1 .. Len(Images) /\ Top[i] \in Item /\ Top[i] \in Manifest
    BY <1>3, <1>5, ImagesFacts, RegistryAssumption DEF Item
  <2>2. /\ snap' = snap /\ links' = links /\ rsays' = rsays
        /\ \/ /\ counted' = [counted EXCEPT ![i] = "elsewhere"] \/ counted' = [counted EXCEPT ![i] = "missing"]
              /\ nthImage' = nthImage + 1 /\ rpc' = rpc /\ check' = check
           \/ /\ rpc' \in {"has", "tag"} /\ check' = <<Top[i]>>
              /\ nthImage' = nthImage /\ counted' = counted
    BY <1>3, <1>5 DEF NextImage
  <2>3. SnapInv' /\ LinksInv'
    BY <1>1, <2>2 DEF SnapInv, LinksInv, ViewInv
  <2>4. CASE /\ counted' = [counted EXCEPT ![i] = "elsewhere"] \/ counted' = [counted EXCEPT ![i] = "missing"]
             /\ nthImage' = nthImage + 1 /\ rpc' = rpc /\ check' = check
    <3>1. counted' \in [Image -> Counts] /\ \A j \in Image : counted'[j] = "full" => counted[j] = "full"
      BY <2>1, <2>4 DEF CoverageTypeOK, Counts
    <3>2. nthImage' \in 0 .. Len(Payload) + 2 /\ nthImage' \in 1 .. Len(Images) + 1
      BY <1>3, <1>5, <2>4
    <3>3. CoverageTypeOK'
      BY <1>1, <2>2, <2>4, <3>1, <3>2 DEF CoverageTypeOK
    <3>4. FullIsStored'
      BY <1>1, <3>1 DEF FullIsStored, Complete, Local, ViewInv
    <3>5. PlaceInv' /\ CheckInv' /\ ReadInv' /\ ImageInv'
      BY <1>1, <1>3, <2>4, <3>2 DEF PlaceInv, CheckInv, ReadInv, ImageInv
    <3> QED
      BY <1>2, <2>3, <3>3, <3>4, <3>5 DEF ViewInv
  <2>5. CASE /\ rpc' \in {"has", "tag"} /\ check' = <<Top[i]>>
             /\ nthImage' = nthImage /\ counted' = counted
    <3>1. /\ check' \in Seq(Item) /\ check' # <<>> /\ DOMAIN check' = {1} /\ check'[1] = Top[i]
      BY <2>1, <2>5
    <3>2. CoverageTypeOK'
      BY <1>1, <2>2, <2>5, <3>1 DEF CoverageTypeOK
    <3>3. FullIsStored'
      BY <1>1, <2>5 DEF FullIsStored, Complete, Local, ViewInv
    <3>4. Looking' = i
      BY <1>3, <2>1, <2>5 DEF Looking
    <3>5. PlaceInv' /\ CheckInv' /\ ReadInv' /\ ImageInv'
      BY <1>3, <1>5, <2>1, <2>5, <3>1, <3>4 DEF PlaceInv, CheckInv, Justified, ReadInv, ImageInv
    <3> QED
      BY <1>2, <2>3, <3>2, <3>3, <3>5 DEF ViewInv
  <2> QED
    BY <2>2, <2>4, <2>5
<1> QED
  BY <1>3, <1>4, <1>5

LEMMA ResolvesTagKeeps ==
    ASSUME RegistryTypeOK, CoverageTypeOK, ViewInv, ResolvesTag
    PROVE  CoverageTypeOK' /\ ViewInv' /\ StoreStep
<1>1. /\ data' = data /\ linked' = linked /\ wentUp' = wentUp /\ reader' = reader
      /\ snap' = snap /\ links' = links /\ check' = check /\ rpc = "tag" /\ rcalm' \in BOOLEAN
  BY DEF ResolvesTag, registryVars, store, CoverageTypeOK
<1>2. SameView /\ StoreStep
  BY <1>1 DEF SameView, StoreStep, LinksInv, ViewInv, CoverageTypeOK
<1>3. ASSUME Judged("missing") PROVE CoverageTypeOK' /\ ViewInv'
  <2>1. check' \in Seq(Item)
    BY <1>1 DEF CoverageTypeOK
  <2> QED
    BY <1>1, <1>2, <1>3, <2>1, JudgedKeeps DEF Counts
<1>4. CASE rpc' = "has" /\ UNCHANGED <<nthImage, counted, rsays>>
  <2>1. CoverageTypeOK'
    BY <1>1, <1>4 DEF CoverageTypeOK
  <2>2. FullIsStored'
    BY <1>1, <1>4 DEF FullIsStored, Complete, Local, ViewInv
  <2>3. Looking' = Looking
    BY <1>1, <1>4 DEF Looking, Images
  <2>4. PlaceInv' /\ CheckInv' /\ ReadInv' /\ ImageInv'
    BY <1>1, <1>4, <2>3 DEF PlaceInv, CheckInv, Justified, ReadInv, ImageInv, ViewInv, Images
  <2> QED
    BY <1>2, <2>1, <2>2, <2>4, SameViewKeeps DEF ViewInv
<1> QED
  BY <1>2, <1>3, <1>4 DEF ResolvesTag

\* Once the head is found, or passed over at an image, the rest is justified.
LEMMA RestIsJustified ==
    ASSUME CoverageTypeOK, check # <<>>, Justified(check), Head(check) \in snap \/ nthImage # 0
    PROVE  Justified(Tail(check))
<1>1. /\ Head(check) = check[1] /\ check \in Seq(Item)
      /\ \A k \in DOMAIN Tail(check) : k + 1 \in DOMAIN check /\ Tail(check)[k] = check[k + 1]
      /\ \A k \in DOMAIN check : k # 1 => k - 1 \in DOMAIN Tail(check) /\ check[k] = Tail(check)[k - 1]
  BY HeadAndTail DEF CoverageTypeOK
<1> SUFFICES ASSUME NEW k \in DOMAIN Tail(check), Tail(check)[k] \notin Manifest
             PROVE  \E m \in Manifest :
                        /\ Tail(check)[k] \in Listed(m)
                        /\ m \in snap \/ (nthImage = 0 /\ \E j \in 1 .. k - 1 : Tail(check)[j] = m)
  BY DEF Justified
<1>2. PICK m \in Manifest :
        /\ check[k + 1] \in Listed(m)
        /\ m \in snap \/ (nthImage = 0 /\ \E j \in 1 .. k : check[j] = m)
  <2>1. k \in Nat /\ (k + 1) - 1 = k
    BY <1>1
  <2> QED
    BY <1>1, <2>1 DEF Justified
<1>3. CASE m \in snap
  BY <1>1, <1>2, <1>3
<1>4. CASE m \notin snap
  <2>1. PICK j \in 1 .. k : check[j] = m /\ nthImage = 0
    BY <1>2, <1>4
  <2>2. j # 1
    BY <1>1, <1>4, <2>1
  <2>3. k + 1 \in DOMAIN check /\ DOMAIN check = 1 .. Len(check) /\ Len(check) \in Nat /\ k \in Nat
    BY <1>1
  <2>4. j \in DOMAIN check /\ j - 1 \in 1 .. k - 1
    BY <2>1, <2>2, <2>3
  <2>5. Tail(check)[j - 1] = m
    BY <1>1, <2>1, <2>2, <2>4
  <2> QED
    BY <1>1, <1>2, <2>1, <2>4, <2>5
<1> QED
  BY <1>3, <1>4

\* Kinds of digests do not overlap, and what matches is a manifest.
LEMMA Kinds == /\ Manifest \cap Blob = {} /\ Index \subseteq Manifest /\ Matching \subseteq Manifest
               /\ Item = Manifest \cup Blob
  BY RegistryAssumption, CoverageAssumption DEF Item

\* A blob that was found, or a child for another platform, leaves nothing behind.
LEMMA RestIsAccounted ==
    ASSUME CoverageTypeOK, PlaceInv, rpc = "has", nthImage # 0, Accounted(check),
           (Found(Head(check)) /\ Head(check) \in Blob) \/ OtherPlatform
    PROVE  Accounted(Tail(check))
<1> DEFINE h == Head(check)
<1>1. /\ check \in Seq(Item) /\ check # <<>> /\ Looking \in Image /\ Top[Looking] \in Manifest
  BY PlaceFacts
<1>2. /\ h = check[1] /\ 1 \in DOMAIN check
      /\ \A k \in DOMAIN Tail(check) : k + 1 \in DOMAIN check /\ Tail(check)[k] = check[k + 1]
      /\ \A k \in DOMAIN check : k # 1 => k - 1 \in DOMAIN Tail(check) /\ check[k] = Tail(check)[k - 1]
  BY <1>1, HeadAndTail
<1>3. h \notin Matching
  BY Kinds DEF OtherPlatform
<1>4. ASSUME NEW d \in NeededOf(Looking) PROVE Found(d) \/ Pending(Tail(check), d)
  <2>1. CASE d = h
    <3>1. CASE OtherPlatform
      <4>1. h \in Manifest /\ h # Top[Looking]
        BY <3>1 DEF OtherPlatform
      <4>2. CASE d \in Listed(Top[Looking]) /\ (Top[Looking] \in Index => d \in Matching)
        BY <4>1, <4>2, <2>1, <1>1, <1>3, ListedFacts, Kinds
      <4>3. ASSUME NEW c \in Listed(Top[Looking]) \cap Matching, Top[Looking] \in Index, d \in Listed(c) PROVE FALSE
        <5>1. c \in Manifest \ Index
          BY <4>3, <1>1, ListedFacts
        <5>2. d \in Blob
          BY <4>3, <5>1, ListedFacts
        <5> QED
          BY <4>1, <5>2, <2>1, Kinds
      <4> QED
        BY <4>1, <4>2, <4>3, <2>1, <1>1, NeededFacts
    <3> QED
      BY <3>1, <2>1
  <2>2. CASE d # h
    <3>1. CASE Found(d)
      BY <3>1
    <3>2. CASE \E k \in DOMAIN check : d = check[k] \/ (check[k] \in Matching /\ d \in Listed(check[k]))
      <4>1. PICK k \in DOMAIN check : d = check[k] \/ (check[k] \in Matching /\ d \in Listed(check[k]))
        BY <3>2
      <4>2. k # 1
        BY <4>1, <2>2, <1>2, <1>3
      <4> QED
        BY <4>1, <4>2, <1>2 DEF Pending
    <3> QED
      BY <3>1, <3>2 DEF Accounted, Pending
  <2> QED
    BY <2>1, <2>2
<1>5. \A k \in DOMAIN Tail(check) : Tail(check)[k] \notin Index
  BY <1>2 DEF Accounted
<1> QED
  BY <1>4, <1>5 DEF Accounted

LEMMA SkipsKeeps ==
    ASSUME RegistryTypeOK, CoverageTypeOK, ViewInv, Skips
    PROVE  CoverageTypeOK' /\ ViewInv' /\ StoreStep
<1>1. /\ data' = data /\ linked' = linked /\ wentUp' = wentUp /\ reader' = reader /\ rcalm' = rcalm
      /\ snap' = snap /\ links' = links /\ rpc = "has" /\ nthImage # 0 /\ OtherPlatform
      /\ GoesOn(Tail(check))
  BY DEF Skips, registryVars, store, OtherPlatform
<1>2. SameView /\ StoreStep
  BY <1>1 DEF SameView, StoreStep, LinksInv, ViewInv, CoverageTypeOK
<1>3. check \in Seq(Item) /\ check # <<>> /\ Tail(check) \in Seq(Item) /\ Head(check) = check[1]
  BY <1>1, HeadAndTail DEF ViewInv, PlaceInv, CoverageTypeOK
<1>4. Justified(Tail(check))
  BY <1>1, <1>3, RestIsJustified DEF ViewInv, CheckInv
<1>5. check # <<Top[Looking]>>
  BY <1>1, <1>3 DEF OtherPlatform
<1>6. Accounted(Tail(check))
  BY <1>1, <1>5, RestIsAccounted DEF ViewInv, ImageInv
<1> QED
  BY <1>1, <1>2, <1>3, <1>4, <1>6, GoesOnKeeps

LEMMA HasKeeps ==
    ASSUME RegistryTypeOK, CoverageTypeOK, ViewInv, Has
    PROVE  CoverageTypeOK' /\ ViewInv' /\ StoreStep
<1> DEFINE d == Head(check)
           first == nthImage # 0 /\ d = Top[Looking]
<1>1. /\ data' = data /\ linked' = linked /\ wentUp' = wentUp /\ reader' = reader
      /\ snap' = snap /\ rpc = "has"
  BY DEF Has, registryVars, store
<1>2. /\ check \in Seq(Item) /\ check # <<>> /\ d \in Item /\ Tail(check) \in Seq(Item) /\ At \in Repo
      /\ d = check[1] /\ 1 \in DOMAIN check /\ Looking \in Image
  BY <1>1, PlaceFacts, HeadAndTail DEF ViewInv
<1>3. PICK there \in IF d \in snap THEN LinkedThere(d) ELSE {{}} :
        /\ links' = IF d \notin snap THEN links
                    ELSE IF d \in Manifest THEN [links EXCEPT ![At].m = there]
                    ELSE [links EXCEPT ![At].b = there]
        /\ rcalm' = (rcalm /\ (d \in snap => there = Truly(d)))
        /\ IF ~StoredHere(d, there)
           THEN Judged(IF first THEN "missing" ELSE "manifest") /\ UNCHANGED check
           ELSE IF d \in Manifest \/ nthImage = 0
           THEN rpc' = "read" /\ UNCHANGED <<nthImage, check, counted, rsays>>
           ELSE GoesOn(Tail(check))
  BY Zenon DEF Has
<1>4. d \in snap => there \subseteq linked[At] /\ there \subseteq (IF d \in Manifest THEN Manifest ELSE Blob)
  <2>1. links[At] \in [m : (SUBSET Manifest) \cup {Unread}, b : (SUBSET Blob) \cup {Unread}]
    BY <1>2 DEF CoverageTypeOK
  <2> QED
    BY <1>2, <1>3, <2>1 DEF LinkedThere, Known, Truly, LinksInv, ViewInv
<1>5. links' \in [Repo -> [m : (SUBSET Manifest) \cup {Unread}, b : (SUBSET Blob) \cup {Unread}]]
  BY <1>2, <1>3, <1>4 DEF CoverageTypeOK
<1>6. LinksInv'
  <2> SUFFICES ASSUME NEW r \in Repo
               PROVE  /\ links'[r].m # Unread => links'[r].m \subseteq linked[r]
                      /\ links'[r].b # Unread => links'[r].b \subseteq linked[r]
    BY <1>1 DEF LinksInv
  <2>1. links \in [Repo -> [m : (SUBSET Manifest) \cup {Unread}, b : (SUBSET Blob) \cup {Unread}]]
    BY DEF CoverageTypeOK
  <2>2. CASE r # At \/ d \notin snap
    BY <2>1, <2>2, <1>2, <1>3 DEF LinksInv, ViewInv
  <2>3. CASE r = At /\ d \in snap
    BY <2>1, <2>3, <1>2, <1>3, <1>4 DEF LinksInv, ViewInv
  <2> QED
    BY <2>2, <2>3
<1>7. SameView /\ StoreStep
  BY <1>1, <1>3, <1>5, <1>6 DEF SameView, StoreStep, CoverageTypeOK
<1>8. CASE ~StoredHere(d, there)
  <2>1. Judged(IF first THEN "missing" ELSE "manifest") /\ check' = check
    BY <1>3, <1>8
  <2> QED
    BY <1>1, <1>2, <1>7, <2>1, JudgedKeeps DEF Counts
<1>9. CASE StoredHere(d, there) /\ (d \in Manifest \/ nthImage = 0)
  <2>1. rpc' = "read" /\ nthImage' = nthImage /\ check' = check /\ counted' = counted /\ rsays' = rsays
    BY <1>3, <1>9
  <2>2. Found(d)
    BY <1>4, <1>9 DEF Found, StoredHere
  <2>3. Looking' = Looking /\ At' = At /\ Images' = Images
    BY <1>1, <2>1 DEF Looking, At, Images
  <2>4. FullIsStored'
    BY <1>1, <2>1 DEF FullIsStored, Complete, Local, ViewInv
  <2>5. CoverageTypeOK'
    BY <1>1, <1>2, <1>7, <2>1, <2>2 DEF CoverageTypeOK, SameView, Found
  <2>6. PlaceInv' /\ CheckInv'
    BY <1>1, <2>1, <2>3 DEF PlaceInv, CheckInv, Justified, ViewInv
  <2>7. ReadInv'
    BY <1>1, <1>9, <2>1, <2>2, <2>3 DEF ReadInv, Found
  <2>8. ImageInv'
    <3>1. Accounted(check) => Accounted(check)'
      BY <1>1, <2>1, <2>3 DEF Accounted, Found, Pending
    <3> QED
      BY <1>1, <2>1, <2>3, <3>1 DEF ImageInv, ViewInv
  <2> QED
    BY <1>7, <2>4, <2>5, <2>6, <2>7, <2>8, SameViewKeeps DEF ViewInv
<1>10. CASE StoredHere(d, there) /\ d \notin Manifest /\ nthImage # 0
  <2>1. GoesOn(Tail(check)) /\ Found(d) /\ d \in Blob
    BY <1>2, <1>3, <1>4, <1>10, Kinds DEF Found, StoredHere
  <2>2. Justified(Tail(check))
    BY <1>1, <1>2, <1>10, RestIsJustified DEF ViewInv, CheckInv
  <2>3. check # <<Top[Looking]>>
    BY <1>1, <1>2, <1>10, PlaceFacts DEF ViewInv
  <2>4. Accounted(Tail(check))
    BY <1>1, <1>10, <2>1, <2>3, RestIsAccounted DEF ViewInv, ImageInv
  <2> QED
    BY <1>1, <1>2, <1>7, <2>1, <2>2, <2>4, GoesOnKeeps
<1> QED
  BY <1>8, <1>9, <1>10

\* What is read is on disk, where it is asked for.
LEMMA ReadIsLocal ==
    ASSUME CoverageTypeOK, ViewInv, rpc = "read"
    PROVE  Local(At, Head(check))
<1> DEFINE d == Head(check)
<1>1. /\ check \in Seq(Item) /\ check # <<>> /\ d = check[1] /\ 1 \in DOMAIN check /\ d \in Item
      /\ d \in snap /\ d \in linked[At]
  BY PlaceFacts, HeadAndTail DEF ViewInv, ReadInv, Found
<1>2. CASE d \in Manifest
  BY <1>1, <1>2 DEF Local, ViewInv, SnapInv
<1>3. CASE d \notin Manifest
  <2>1. PICK m \in Manifest : d \in Listed(m) /\ (m \in snap \/ \E j \in 1 .. 1 - 1 : check[j] = m)
    BY <1>1, <1>3 DEF ViewInv, CheckInv, Justified
  <2>2. m \in snap
    BY <2>1
  <2> QED
    BY <1>1, <2>1, <2>2 DEF Local, ViewInv, SnapInv
<1> QED
  BY <1>2, <1>3

\* After a manifest of the image come the things that it lists.
LEMMA ListIsAccounted ==
    ASSUME CoverageTypeOK, ViewInv, rpc = "read", nthImage # 0,
           Head(check) \in Index => Listed(Head(check)) \cap Matching # {}
    PROVE  Lists[Head(check)] \o Tail(check) \in Seq(Item)
           /\ Justified(Lists[Head(check)] \o Tail(check))
           /\ Accounted(Lists[Head(check)] \o Tail(check))
<1> DEFINE d == Head(check)
           p == Lists[d]
           t == Tail(check)
           q == p \o t
<1>1. /\ check \in Seq(Item) /\ check # <<>> /\ Looking \in Image /\ Top[Looking] \in Manifest /\ At \in Repo
  BY PlaceFacts DEF ViewInv
<1>2. /\ d = check[1] /\ 1 \in DOMAIN check /\ t \in Seq(Item)
      /\ \A k \in DOMAIN t : k + 1 \in DOMAIN check /\ t[k] = check[k + 1]
      /\ \A k \in DOMAIN check : k # 1 => k - 1 \in DOMAIN t /\ check[k] = t[k - 1]
  BY <1>1, HeadAndTail
<1>3. d \in Manifest /\ Found(d) /\ d \in snap
  BY DEF ViewInv, ReadInv, Found
<1>4. /\ p \in Seq(Item)
      /\ \A x \in Listed(d) : \E k \in DOMAIN p : x = p[k]
      /\ \A k \in DOMAIN p : p[k] \in Listed(d)
      /\ d \in Index => Listed(d) \subseteq Manifest \ Index
      /\ d \notin Index => Listed(d) \subseteq Blob
  BY <1>3, ListedFacts
<1>5. /\ q \in Seq(Item)
      /\ \A k \in DOMAIN p : k \in DOMAIN q /\ q[k] = p[k]
      /\ \A k \in DOMAIN t : Len(p) + k \in DOMAIN q /\ q[Len(p) + k] = t[k]
      /\ \A k \in DOMAIN q : \/ k \in DOMAIN p /\ q[k] = p[k]
                             \/ k - Len(p) \in DOMAIN t /\ k > Len(p) /\ q[k] = t[k - Len(p)]
  <2> HIDE DEF p, t
  <2> QED
    BY <1>2, <1>4, Concatenated
<1>6. Justified(q)
  <2>1. Justified(t)
    BY <1>1, <1>3, RestIsJustified DEF ViewInv, CheckInv
  <2>2. \A k \in DOMAIN t : t[k] \in Manifest \/ \E m \in Manifest : t[k] \in Listed(m) /\ m \in snap
    BY <2>1 DEF Justified
  <2>3. \A k \in DOMAIN q : q[k] \in Manifest \/ \E m \in Manifest : q[k] \in Listed(m) /\ m \in snap
    BY <2>2, <1>3, <1>4, <1>5
  <2> QED
    BY <2>3 DEF Justified
<1>7. \A x \in Listed(d) : Pending(q, x)
  BY <1>4, <1>5 DEF Pending
<1>8. \A k \in DOMAIN p : p[k] \notin Index
  BY <1>4, Kinds
<1>9. CASE check = <<Top[Looking]>>
  <2>1. d = Top[Looking] /\ DOMAIN t = {}
    BY <1>9
  <2>2. ASSUME NEW x \in NeededOf(Looking) PROVE Found(x) \/ Pending(q, x)
    <3>1. CASE x = Top[Looking] \/ x \in Listed(Top[Looking])
      BY <3>1, <2>1, <1>3, <1>7
    <3>2. ASSUME NEW c \in Listed(Top[Looking]) \cap Matching, x \in Listed(c) PROVE Pending(q, x)
      BY <3>2, <2>1, <1>4, <1>5 DEF Pending
    <3> QED
      BY <3>1, <3>2, <1>1, NeededFacts
  <2>3. \A k \in DOMAIN q : q[k] \notin Index
    BY <2>1, <1>5, <1>8
  <2> QED
    BY <1>5, <1>6, <2>1, <2>2, <2>3 DEF Accounted
<1>10. CASE check # <<Top[Looking]>>
  <2>1. Accounted(check)
    BY <1>10 DEF ViewInv, ImageInv
  <2>2. ASSUME NEW x \in NeededOf(Looking) PROVE Found(x) \/ Pending(q, x)
    <3>1. CASE Found(x)
      BY <3>1
    <3>2. CASE \E k \in DOMAIN check : x = check[k] \/ (check[k] \in Matching /\ x \in Listed(check[k]))
      <4>1. PICK k \in DOMAIN check : x = check[k] \/ (check[k] \in Matching /\ x \in Listed(check[k]))
        BY <3>2
      <4>2. CASE k = 1
        BY <4>1, <4>2, <1>2, <1>3, <1>7
      <4>3. CASE k # 1
        <5>1. k - 1 \in DOMAIN t /\ t[k - 1] = check[k]
          BY <4>3, <1>2
        <5>2. Len(p) + (k - 1) \in DOMAIN q /\ q[Len(p) + (k - 1)] = check[k]
          BY <5>1, <1>5
        <5> QED
          BY <4>1, <5>2 DEF Pending
      <4> QED
        BY <4>2, <4>3
    <3> QED
      BY <3>1, <3>2, <2>1 DEF Accounted, Pending
  <2>3. \A k \in DOMAIN q : q[k] \notin Index
    <3>1. \A k \in DOMAIN t : t[k] \notin Index
      BY <2>1, <1>2 DEF Accounted
    <3> QED
      BY <3>1, <1>5, <1>8
  <2> QED
    BY <1>5, <1>6, <2>1, <2>2, <2>3 DEF Accounted
<1> QED
  BY <1>9, <1>10

LEMMA ReadsKeeps ==
    ASSUME RegistryTypeOK, CoverageTypeOK, ViewInv, Reads
    PROVE  CoverageTypeOK' /\ ViewInv' /\ StoreStep
<1> DEFINE d == Head(check)
<1>1. /\ reader' = reader /\ snap' = snap /\ links' = links /\ rpc = "read"
  BY DEF Reads
<1>2. Local(At, d)
  BY <1>1, ReadIsLocal
<1>3. wentUp' = wentUp
  BY <1>2 DEF Reads, CoverageTypeOK
<1>4. data' = data /\ linked' = linked
  BY <1>2 DEF Reads
<1>5. rcalm' \in BOOLEAN
  BY DEF Reads, CoverageTypeOK
<1>6. SameView /\ StoreStep
  BY <1>1, <1>3, <1>4, <1>5 DEF SameView, StoreStep, LinksInv, ViewInv, CoverageTypeOK
<1>7. /\ check \in Seq(Item) /\ check # <<>> /\ Tail(check) \in Seq(Item)
  BY <1>1, PlaceFacts, HeadAndTail DEF ViewInv
<1>8. ASSUME Judged("manifest"), check' = check PROVE CoverageTypeOK' /\ ViewInv'
  BY <1>1, <1>6, <1>7, <1>8, JudgedKeeps DEF Counts
<1>9. CASE nthImage = 0 /\ GoesOn(Tail(check))
  <2>1. Justified(Tail(check))
    BY <1>1, <1>7, RestIsJustified DEF ViewInv, CheckInv, ReadInv, Found
  <2> QED
    BY <1>1, <1>6, <1>7, <1>9, <2>1, GoesOnKeeps
<1>10. CASE /\ nthImage # 0 /\ ~(d \in Index /\ Listed(d) \cap Matching = {})
            /\ GoesOn(Needed(d) \o Tail(check))
  <2>1. /\ Lists[d] \o Tail(check) \in Seq(Item) /\ Justified(Lists[d] \o Tail(check))
        /\ Accounted(Lists[d] \o Tail(check))
    BY <1>1, <1>10, ListIsAccounted
  <2> QED
    BY <1>1, <1>6, <1>10, <2>1, GoesOnKeeps DEF Needed
<1> QED
  BY <1>6, <1>8, <1>9, <1>10 DEF Reads

-----------------------------------------------------------------------------
(* The pull, the listing and gc                                            *)

LEMMA PullKeeps ==
    ASSUME RegistryTypeOK, PullTypeOK, PullBegins \/ PullStep \/ Expires
    PROVE  PullTypeOK' /\ StoreStep /\ tagged' \in SUBSET ByTag /\ state' = state
<1>0. \A k \in DOMAIN Refs : Refs[k] \in Image /\ Top[Refs[k]] \in Manifest /\ RepoOf[Refs[k]] \in Repo
  BY PullAssumption, RegistryAssumption
<1>1. Len(Refs) \in Nat /\ DOMAIN Refs = 1 .. Len(Refs) /\ Manifest \subseteq Item /\ tagged \in SUBSET ByTag
  BY PullAssumption DEF Item, RegistryTypeOK
<1>2. ASSUME NEW how \in {"ok", "error"}, PullEnds(how), creds' = creds, pcalm' \in BOOLEAN PROVE PullTypeOK'
  <2>1. /\ ppc' = "done" /\ psays' = how /\ nth' = 1 /\ todo' = <<>> /\ atTop' = FALSE
        /\ retried' = FALSE /\ token' = "none" /\ creds' \in BOOLEAN
    BY <1>2 DEF PullEnds, PullTypeOK
  <2>2. 1 \in 1 .. Len(Refs) + 1 /\ <<>> \in Seq(Item)
    BY <1>1
  <2> QED
    BY <1>2, <2>1, <2>2 DEF PullTypeOK
<1>3. ASSUME registryVars' = registryVars PROVE StoreStep /\ tagged' \in SUBSET ByTag /\ state' = state
  BY <1>1, <1>3 DEF registryVars, store, StoreStep
<1>4. CASE PullBegins
  <2>1. PullTypeOK'
    BY <1>4 DEF PullBegins, PullTypeOK, request
  <2> QED
    BY <1>3, <1>4, <2>1 DEF PullBegins
<1>5. CASE NewClient
  <2>0. creds' = creds /\ pcalm' = pcalm /\ creds \in BOOLEAN /\ pcalm \in BOOLEAN
    BY <1>5 DEF NewClient, PullTypeOK
  <2>9. creds' \in BOOLEAN /\ pcalm' \in BOOLEAN
    BY <2>0
  <2>1. ASSUME PullEnds("ok") \/ PullEnds("error") PROVE PullTypeOK'
    <3>1. CASE PullEnds("ok")
      BY <1>2, <2>0, <2>9, <3>1
    <3>2. CASE PullEnds("error")
      BY <1>2, <2>0, <2>9, <3>2
    <3> QED
      BY <2>1, <3>1, <3>2
  <2>2. ASSUME /\ ~(nth > Len(Refs))
               /\ ppc' = "ask" /\ todo' = <<Top[Refs[nth]]>> /\ atTop' = TRUE /\ token' = "none"
               /\ UNCHANGED <<psays, nth, retried>>
        PROVE  PullTypeOK'
    <3>1. nth \in 1 .. Len(Refs) /\ todo' \in Seq(Item) /\ todo' # <<>>
      BY <1>0, <1>1, <2>2 DEF PullTypeOK
    <3>2. ppc' \in {"ask"} /\ nth' \in 1 .. Len(Refs) /\ nth' \in 1 .. Len(Refs) + 1
          /\ token' = "none" /\ psays' = psays
      BY <1>1, <2>2, <3>1
    <3>3. atTop' \in BOOLEAN /\ retried' \in BOOLEAN
      BY <2>2 DEF PullTypeOK
    <3> QED
      BY <2>9, <3>1, <3>2, <3>3 DEF PullTypeOK
  <2>3. PullTypeOK'
    BY <1>5, <2>1, <2>2 DEF NewClient
  <2> QED
    BY <1>3, <1>5, <2>3 DEF NewClient
<1>6. CASE Gets
  <2>1. /\ nth \in 1 .. Len(Refs) /\ todo \in Seq(Item) /\ todo # <<>> /\ Here \in Repo
        /\ Asked \in Item /\ Tail(todo) \in Seq(Item) /\ Refs[nth] \in Image
    BY <1>0, <1>1, <1>6, HeadAndTail DEF Gets, PullTypeOK, Here, Asked
  <2>2. Follows(Asked) \in Seq(Item)
    BY ListedFacts DEF Follows
  <2> DEFINE rest == Follows(Asked) \o Tail(todo)
  <2>3. rest \in Seq(Item)
    BY <2>1, <2>2, Concatenated
  <2>4. /\ todo' = rest /\ atTop' = FALSE /\ retried' = FALSE
        /\ IF rest = <<>> THEN ppc' = "client" /\ nth' = nth + 1 ELSE UNCHANGED <<ppc, nth>>
        /\ UNCHANGED <<creds, token, psays, state>> /\ ppc = "ask"
    BY <1>6 DEF Gets
  <2>5. pcalm' \in BOOLEAN
    BY <1>6 DEF Gets, PullTypeOK
  <2>6. nth' \in 1 .. Len(Refs) + 1 /\ ppc' \in {"client", "ask"} /\ (ppc' = "ask" => nth' <= Len(Refs) /\ todo' # <<>>)
    BY <1>1, <2>1, <2>4
  <2>7. PullTypeOK'
    BY <2>3, <2>4, <2>5, <2>6 DEF PullTypeOK
  <2>8. StoreStep /\ tagged' \in SUBSET ByTag
    <3>1. CASE UNCHANGED store
      BY <1>1, <3>1 DEF store, StoreStep
    <3>2. CASE Puts(Here, Asked) /\ tagged' = IF AskedByTag THEN tagged \cup {Refs[nth]} ELSE tagged
      BY <1>1, <2>1, <3>2 DEF StoreStep, AskedByTag
    <3> QED
      BY <1>6, <3>1, <3>2 DEF Gets
  <2> QED
    BY <2>4, <2>7, <2>8
<1>7. CASE Challenged
  <2>0. creds' = creds /\ pcalm' = pcalm /\ creds \in BOOLEAN /\ pcalm \in BOOLEAN
    BY <1>7 DEF Challenged, PullTypeOK
  <2>9. creds' \in BOOLEAN /\ pcalm' \in BOOLEAN
    BY <2>0
  <2>8. ppc = "ask"
    BY <1>7 DEF Challenged
  <2>1. ASSUME PullEnds("error") PROVE PullTypeOK'
    BY <1>2, <2>0, <2>9, <2>1
  <2>2. ASSUME AsksAgain, ppc' = "mint", UNCHANGED <<request, psays>> PROVE PullTypeOK'
    <3>1. Head(todo) \in Manifest /\ UNCHANGED <<nth, todo, atTop, retried, token, psays>>
      BY <2>2 DEF AsksAgain, Asked, request
    <3>2. atTop' \in BOOLEAN /\ retried' \in BOOLEAN
      BY <2>2 DEF request, PullTypeOK
    <3> QED
      BY <2>2, <2>8, <2>9, <3>1, <3>2 DEF PullTypeOK
  <2>3. PullTypeOK'
    BY <1>7, <2>1, <2>2 DEF Challenged
  <2> QED
    BY <1>3, <1>7, <2>3 DEF Challenged
<1>8. CASE Mints
  <2>0. creds' = creds /\ pcalm' = pcalm /\ creds \in BOOLEAN /\ pcalm \in BOOLEAN
    BY <1>8 DEF Mints, PullTypeOK
  <2>9. creds' \in BOOLEAN /\ pcalm' \in BOOLEAN
    BY <2>0
  <2>8. ppc = "mint"
    BY <1>8 DEF Mints
  <2>1. ASSUME PullEnds("error") PROVE PullTypeOK'
    BY <1>2, <2>0, <2>9, <2>1
  <2>2. ASSUME token' = "valid", retried' = TRUE, ppc' = "ask", UNCHANGED <<psays, nth, todo, atTop>>
        PROVE  PullTypeOK'
    <3>1. atTop' \in BOOLEAN /\ retried' \in BOOLEAN
      BY <2>2 DEF PullTypeOK
    <3> QED
      BY <2>2, <2>8, <2>9, <3>1 DEF PullTypeOK
  <2>3. PullTypeOK'
    BY <1>8, <2>1, <2>2 DEF Mints
  <2> QED
    BY <1>3, <1>8, <2>3 DEF Mints
<1>9. CASE RequestFails
  <2>1. PullTypeOK'
    BY <1>2, <1>9 DEF RequestFails
  <2> QED
    BY <1>3, <1>9, <2>1 DEF RequestFails
<1>10. CASE Expires
  <2>1. PullTypeOK'
    BY <1>10 DEF Expires, PullTypeOK
  <2> QED
    BY <1>3, <1>10, <2>1 DEF Expires
<1> QED
  BY <1>4, <1>5, <1>6, <1>7, <1>8, <1>9, <1>10 DEF PullStep

LEMMA ListKeeps ==
    ASSUME RegistryTypeOK, ListingTypeOK, ListingStep
    PROVE  ListingTypeOK' /\ registryVars' = registryVars
<1>1. CASE ListBegins \/ NextRepo \/ ListsRevisions
  <2>1. registryVars' = registryVars
    BY <1>1 DEF ListBegins, NextRepo, ListsRevisions
  <2>2. lcalm' \in BOOLEAN
    BY <1>1 DEF ListBegins, NextRepo, ListsRevisions, ListingTypeOK
  <2>3. catalog' \in SUBSET Repo /\ repos' \in SUBSET Repo /\ repo' \in Repo /\ lpc' \in {"repos", "tags", "done", "look"}
    <3>1. \A R \in SUBSET Repo : Pages(R) \subseteq SUBSET Repo
      BY DEF Pages
    <3>2. Cached \in SUBSET Repo
      BY DEF Cached
    <3> QED
      BY <1>1, <3>1, <3>2 DEF ListBegins, NextRepo, ListsRevisions, ListingTypeOK
  <2>4. revs' \in SUBSET Manifest /\ unread' \in SUBSET revs' /\ indexes' \in SUBSET (revs' \cap Mentions)
    BY <1>1 DEF ListBegins, NextRepo, ListsRevisions, ListingTypeOK, RevsOf
  <2>5. \A line \in shown' : line[1] \in Repo /\ line[2] \subseteq Image \cup Manifest
    <3>1. shown' = shown \/ shown' = shown \cup {<<repo, {}>>}
      BY <1>1 DEF ListBegins, NextRepo, ListsRevisions
    <3> QED
      BY <3>1 DEF ListingTypeOK
  <2> QED
    BY <2>1, <2>2, <2>3, <2>4, <2>5 DEF ListingTypeOK
<1>2. CASE ListsTags
  <2>1. TagsOf(repo) \subseteq Image
    BY RegistryAssumption DEF TagsOf, RegistryTypeOK
  <2>2. registryVars' = registryVars /\ UNCHANGED <<catalog, repos, repo, revs, unread, indexes>> /\ lpc' \in {"repos", "revs"}
    BY <1>2 DEF ListsTags
  <2>3. lcalm' \in BOOLEAN
    BY <1>2 DEF ListsTags, ListingTypeOK
  <2>4. \A line \in shown' : line[1] \in Repo /\ line[2] \subseteq Image \cup Manifest
    <3>1. shown' = shown \/ shown' = shown \cup {<<repo, {x}>> : x \in TagsOf(repo)}
      BY <1>2 DEF ListsTags, Show
    <3> QED
      BY <2>1, <3>1 DEF ListingTypeOK
  <2> QED
    BY <2>2, <2>3, <2>4 DEF ListingTypeOK
<1>3. CASE ShowsRevisions
  <2>1. Primary \subseteq Manifest
    BY DEF Primary, ListingTypeOK
  <2> QED
    BY <1>3, <2>1 DEF ShowsRevisions, ListingTypeOK, Show
<1>4. ASSUME NEW d \in Manifest, LooksInto(d) PROVE ListingTypeOK' /\ registryVars' = registryVars
  BY <1>4 DEF LooksInto, ListingTypeOK
<1> QED
  BY <1>1, <1>2, <1>3, <1>4 DEF ListingStep

LEMMA GcKeeps ==
    ASSUME RegistryTypeOK, Gc
    PROVE  StoreStep /\ tagged' \in SUBSET ByTag /\ state' \in {"up", "stopped", "swept"}
BY DEF Gc, Stop, Sweep, Start, store, StoreStep, RegistryTypeOK

LEMMA ReaderKeeps ==
    ASSUME RegistryTypeOK, CoverageTypeOK, ViewInv, CoverageStep
    PROVE  CoverageTypeOK' /\ ViewInv' /\ StoreStep /\ tagged' = tagged /\ state' = state
<1>1. tagged' = tagged /\ state' = state
  BY DEF CoverageStep, ReaderBegins, Opens, ResolvesRelease, NextImage, ResolvesTag, Skips, Has, Reads, registryVars, store
<1>2. CoverageTypeOK' /\ ViewInv' /\ StoreStep
  BY ReaderStarts, NextImageKeeps, ResolvesTagKeeps, SkipsKeeps, HasKeeps, ReadsKeeps DEF CoverageStep
<1> QED
  BY <1>1, <1>2

\* Whatever step is taken, the store stays, gains an item, or is swept.
LEMMA StepOfStore == ASSUME InventoryInv, [Next]_vars PROVE StoreStep
<1>1. ASSUME registryVars' = registryVars PROVE StoreStep
  BY <1>1 DEF registryVars, store, StoreStep
<1>2. CASE Pulling
  BY <1>2, PullKeeps DEF Pulling, InventoryInv, TypeOK
<1>3. CASE Counting
  BY <1>3, ReaderKeeps DEF Counting, InventoryInv, TypeOK
<1>4. CASE Showing
  BY <1>1, <1>4, ListKeeps DEF Showing, InventoryInv, TypeOK
<1>5. CASE Cleaning
  BY <1>5, GcKeeps DEF Cleaning, InventoryInv, TypeOK
<1>6. CASE UNCHANGED vars
  BY <1>1, <1>6 DEF vars
<1> QED
  BY <1>2, <1>3, <1>4, <1>5, <1>6 DEF Next

-----------------------------------------------------------------------------
(* The theorems                                                            *)

LEMMA InventoryStarts == Init => InventoryInv
<1> SUFFICES ASSUME Init PROVE InventoryInv
  OBVIOUS
<1>1. \A i \in Image : All(i) \subseteq Item
  <2> SUFFICES ASSUME NEW i \in Image PROVE All(i) \subseteq Item
    OBVIOUS
  <2>1. Top[i] \in Manifest /\ \A m \in Manifest : Listed(m) \subseteq Item
    BY RegistryAssumption, ListedFacts DEF Item
  <2> QED
    BY <2>1 DEF All, Item
<1>2. PICK warm \in Warm :
        /\ linked = [r \in Repo |-> Orphans[r] \cup UNION {All(i) : i \in {j \in warm : RepoOf[j] = r}}]
        /\ data = UNION {linked[r] : r \in Repo}
        /\ tagged = warm \cap ByTag
  BY DEF Init, RegistryInit
<1>3. warm \subseteq Image /\ \A r \in Repo : Orphans[r] \subseteq Item
  BY RegistryAssumption DEF Item
<1>4. \A r \in Repo : Orphans[r] \cup UNION {All(i) : i \in {j \in warm : RepoOf[j] = r}} \in SUBSET Item
  BY <1>1, <1>3
<1>5. linked \in [Repo -> SUBSET Item] /\ data \in SUBSET Item
  BY <1>2, <1>4
<1>6. RegistryTypeOK /\ LinkedInv
  BY <1>2, <1>5 DEF Init, RegistryInit, RegistryTypeOK, LinkedInv
<1>7. PullTypeOK
  <2>1. Len(Refs) \in Nat /\ <<>> \in Seq(Item)
    BY PullAssumption
  <2> QED
    <3>1. creds \in BOOLEAN /\ atTop \in BOOLEAN /\ retried \in BOOLEAN /\ pcalm \in BOOLEAN
      BY PullAssumption DEF Init, PullInit
    <3>2. /\ ppc = "idle" /\ nth \in 1 .. Len(Refs) + 1 /\ todo \in Seq(Item)
          /\ token = "none" /\ psays = "none"
      BY <2>1 DEF Init, PullInit
    <3> QED
      BY <3>1, <3>2 DEF PullTypeOK
<1>8. CoverageTypeOK
  <2>1. Len(Payload) \in Nat /\ <<>> \in Seq(Item)
    BY CoverageAssumption
  <2> QED
    <3>1. links \in [Repo -> [m : (SUBSET Manifest) \cup {Unread}, b : (SUBSET Blob) \cup {Unread}]]
      BY DEF Init, CoverageInit, NothingRead
    <3>2. counted \in [Image -> Counts] /\ nthImage \in 0 .. Len(Payload) + 2 /\ check \in Seq(Item)
          /\ snap \in SUBSET Item
      BY <2>1 DEF Init, CoverageInit, Counts
    <3>3. reader = "coverage" /\ rpc = "idle" /\ rsays = "none"
      BY DEF Init, CoverageInit
    <3>4. wentUp \in BOOLEAN /\ rcalm \in BOOLEAN
      BY DEF Init, CoverageInit
    <3> QED
      BY <3>1, <3>2, <3>3, <3>4 DEF CoverageTypeOK
<1>9. ListingTypeOK
  <2>1. RepoOf[Release] \in Repo
    BY RegistryAssumption, CoverageAssumption
  <2>2. (CHOOSE r \in Repo : TRUE) \in Repo
    BY <2>1
  <2> QED
    BY <2>2 DEF Init, ListingInit, ListingTypeOK
<1>10. ViewInv
  BY DEF Init, CoverageInit, ViewInv, SnapInv, LinksInv, NothingRead, PlaceInv, CheckInv, ReadInv, ImageInv, FullIsStored, ReadsAreLocal
<1> QED
  BY <1>6, <1>7, <1>8, <1>9, <1>10 DEF InventoryInv, TypeOK

LEMMA InventoryKeeps == InventoryInv /\ [Next]_vars => InventoryInv'
<1> SUFFICES ASSUME InventoryInv, [Next]_vars PROVE InventoryInv'
  OBVIOUS
<1>1. RegistryTypeOK /\ PullTypeOK /\ CoverageTypeOK /\ ListingTypeOK /\ LinkedInv /\ ViewInv
  BY DEF InventoryInv, TypeOK
<1>2. ASSUME StoreStep, tagged' \in SUBSET ByTag, state' \in {"up", "stopped", "swept"}
      PROVE  RegistryTypeOK' /\ LinkedInv'
  BY <1>1, <1>2, StoreIsKept DEF RegistryTypeOK
<1>3. ASSUME StoreStep, CountsBeside PROVE ViewInv' /\ CoverageTypeOK'
  <2>1. CoverageTypeOK'
    BY <1>1, <1>3 DEF CountsBeside, coverageVars, CoverageTypeOK, Images
  <2> QED
    BY <1>1, <1>3, <2>1, ViewBeside DEF CountsBeside
<1>4. ASSUME ListsBeside PROVE ListingTypeOK'
  BY <1>1, <1>4 DEF ListsBeside, listingVars, ListingTypeOK
<1>5. ASSUME UNCHANGED pullVars PROVE PullTypeOK'
  BY <1>1, <1>5 DEF pullVars, PullTypeOK
<1>6. ASSUME registryVars' = registryVars
      PROVE  StoreStep /\ tagged' \in SUBSET ByTag /\ state' \in {"up", "stopped", "swept"}
  BY <1>1, <1>6 DEF registryVars, store, StoreStep, RegistryTypeOK
<1>7. CASE Pulling
  BY <1>1, <1>2, <1>3, <1>4, <1>7, PullKeeps DEF Pulling, InventoryInv, TypeOK, RegistryTypeOK
<1>8. CASE Counting
  BY <1>1, <1>2, <1>4, <1>5, <1>8, ReaderKeeps DEF Counting, InventoryInv, TypeOK, RegistryTypeOK
<1>9. CASE Showing
  BY <1>1, <1>2, <1>3, <1>5, <1>6, <1>9, ListKeeps DEF Showing, InventoryInv, TypeOK
<1>10. CASE Cleaning
  BY <1>1, <1>2, <1>3, <1>4, <1>5, <1>10, GcKeeps DEF Cleaning, InventoryInv, TypeOK
<1>11. CASE UNCHANGED vars
  <2>1. registryVars' = registryVars /\ UNCHANGED pullVars /\ UNCHANGED coverageVars /\ UNCHANGED listingVars
        /\ rcalm' = rcalm /\ lcalm' = lcalm
    BY <1>11 DEF vars
  <2>2. CountsBeside /\ ListsBeside
    BY <2>1, <1>1 DEF CountsBeside, ListsBeside, Quiet, CoverageTypeOK, ListingTypeOK
  <2> QED
    BY <1>2, <1>3, <1>4, <1>5, <1>6, <2>1, <2>2 DEF InventoryInv, TypeOK
<1> QED
  BY <1>7, <1>8, <1>9, <1>10, <1>11 DEF Next

\* The cache, its readers and the pull keep the inductive invariant.
THEOREM InventoryInvariant == Spec => []InventoryInv
<1> QED
  BY InventoryStarts, InventoryKeeps, PTL DEF Spec

\* Every variable has its type.
THEOREM InventoryTypes == Spec => []TypeOK
<1>1. InventoryInv => TypeOK
  BY DEF InventoryInv
<1> QED
  BY <1>1, InventoryInvariant, PTL

\* An image that releaseCoverage or missingOnDisk counts as full is on disk, and
\* stays there: pulls, failing execs and gc at any moment cannot make the count
\* too high.
THEOREM FullImagesAreStored == Spec => []FullIsStored
<1>1. InventoryInv => FullIsStored
  BY DEF InventoryInv, ViewInv
<1> QED
  BY <1>1, InventoryInvariant, PTL

\* The readers of the store fetch nothing from upstream.
THEOREM ReadersFetchNothing == Spec => []ReadsAreLocal
<1>1. InventoryInv => ReadsAreLocal
  BY DEF InventoryInv, ViewInv
<1> QED
  BY <1>1, InventoryInvariant, PTL
=============================================================================
