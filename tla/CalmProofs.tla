----------------------------- MODULE CalmProofs -----------------------------
(***************************************************************************)
(* What the clients of a cache achieve while nothing goes wrong: a calm    *)
(* pull succeeds and brings the whole image, beside readers and gc; and a  *)
(* quiet reading counts and lists exactly what is there.                   *)
(***************************************************************************)
EXTENDS InventoryProofs

-----------------------------------------------------------------------------
(* What a pull has got                                                     *)

\* On disk, linked, and nothing that a gc takes
Held(r, d) ==
    /\ Local(r, d)
    /\ d \in Manifest \/ r \in Relayed \/ \E m \in data \cap Manifest : d \in Listed(m)

HasAll(i) == \A d \in All(i) : Keeps(RepoOf[i], d) => Held(RepoOf[i], d)

\* d is asked for by way of q, itself or below a manifest of it.
Below(m, d) == d \in Listed(m) \/ \E c \in Listed(m) \cap Manifest : d \in Listed(c)
Awaited(q, d) == \E k \in DOMAIN q : d = q[k] \/ (q[k] \in Manifest /\ Below(q[k], d))

GotOrAwaited(i, q) ==
    \A d \in All(i) : Keeps(RepoOf[i], d) => Held(RepoOf[i], d) \/ Awaited(q, d)

\* A blob is asked for after the manifest that lists it was stored.
Grounded(r, q) ==
    \A k \in DOMAIN q :
        q[k] \in Manifest \/ r \in Relayed \/ \E m \in data \cap Manifest : q[k] \in Listed(m)

WarmInv ==
    /\ ppc # "done" => psays = "none"
    /\ ppc \in {"idle", "done"} => nth = 1
    /\ psays = "ok" /\ pcalm => \A k \in DOMAIN Refs : HasAll(Refs[k])
    /\ ppc \in {"client", "ask", "mint"} /\ pcalm => \A k \in 1 .. nth - 1 : HasAll(Refs[k])
    /\ ppc \in {"ask", "mint"} => Grounded(Here, todo)
    /\ ppc \in {"ask", "mint"} /\ pcalm => GotOrAwaited(Refs[nth], todo)

\* Each step of anyone keeps what is held.
LEMMA HeldStays ==
    ASSUME RegistryTypeOK, LinkedInv, StoreStep, NEW r \in Repo, NEW d, Held(r, d)
    PROVE  Held(r, d)'
<1>1. StoreKeeps
  BY StoreIsKept
<1>2. d \in data /\ d \in linked[r] /\ d \in linked'[r]
  BY <1>1 DEF Held, Local, StoreKeeps
<1>3. CASE d \in Manifest
  BY <1>1, <1>2, <1>3 DEF Held, Local, StoreKeeps
<1>4. CASE \E m \in data \cap Manifest : d \in Listed(m)
  <2>1. PICK m \in data \cap Manifest : d \in Listed(m)
    BY <1>4
  <2>2. m \in data' /\ d \in data'
    BY <1>1, <1>2, <2>1 DEF StoreKeeps
  <2> QED
    BY <1>2, <2>1, <2>2 DEF Held, Local
<1>5. CASE r \in Relayed
  <2>1. d \in Marked
    BY <1>2, <1>5 DEF Marked
  <2>2. d \in data'
    BY <1>2, <2>1 DEF StoreStep, Puts
  <2> QED
    BY <1>2, <1>5, <2>2 DEF Held, Local
<1> QED
  BY <1>3, <1>4, <1>5 DEF Held

\* No step of anyone takes something that a pull has got.
LEMMA GotStays ==
    ASSUME RegistryTypeOK, LinkedInv, StoreStep
    PROVE  /\ \A i \in Image : HasAll(i) => HasAll(i)'
           /\ \A r \in Repo : \A q : Grounded(r, q) => \A k \in DOMAIN q :
                q[k] \in Manifest \/ r \in Relayed \/ \E m \in data' \cap Manifest : q[k] \in Listed(m)
           /\ \A i \in Image : \A q : GotOrAwaited(i, q) => \A d \in All(i) :
                Keeps(RepoOf[i], d) => Held(RepoOf[i], d)' \/ Awaited(q, d)
<1>1. \A i \in Image : RepoOf[i] \in Repo
  BY RegistryAssumption
<1>2. \A r \in Repo : \A d : Held(r, d) => Held(r, d)'
  BY HeldStays
<1>3. \A i \in Image : HasAll(i) => HasAll(i)'
  BY <1>1, <1>2 DEF HasAll
<1>4. \A m \in data \cap Manifest : m \in data'
  BY StoreIsKept DEF StoreKeeps
<1> QED
  BY <1>1, <1>2, <1>3, <1>4 DEF Grounded, GotOrAwaited

\* What others do meanwhile
LEMMA WarmBeside ==
    ASSUME RegistryTypeOK, LinkedInv, PullTypeOK, WarmInv, StoreStep, UNCHANGED pullVars
    PROVE  WarmInv'
<1>1. \A k \in DOMAIN Refs : Refs[k] \in Image /\ RepoOf[Refs[k]] \in Repo
  BY PullAssumption, RegistryAssumption
<1>2. Len(Refs) \in Nat /\ DOMAIN Refs = 1 .. Len(Refs) /\ nth \in 1 .. Len(Refs) + 1
  BY PullAssumption DEF PullTypeOK
<1>3. /\ ppc' = ppc /\ nth' = nth /\ todo' = todo /\ psays' = psays /\ pcalm' = pcalm
  BY DEF pullVars
<1>4. (ppc # "done" => psays = "none") /\ (ppc \in {"idle", "done"} => nth = 1)
  BY DEF WarmInv
<1>5. psays = "ok" /\ pcalm => \A k \in DOMAIN Refs : HasAll(Refs[k])'
  BY <1>1, GotStays DEF WarmInv
<1>6. ASSUME ppc \in {"client", "ask", "mint"}, pcalm, NEW k \in 1 .. nth - 1 PROVE HasAll(Refs[k])'
  <2>1. HasAll(Refs[k]) /\ k \in DOMAIN Refs
    BY <1>2, <1>6 DEF WarmInv
  <2> QED
    BY <1>1, <2>1, GotStays
<1>7. ASSUME ppc \in {"ask", "mint"} PROVE Grounded(Here, todo)' /\ Here' = Here /\ Refs[nth] \in Image
  <2>1. nth \in DOMAIN Refs /\ Refs[nth] \in Image /\ Here \in Repo /\ Here' = Here
    BY <1>1, <1>2, <1>3, <1>7 DEF PullTypeOK, Here
  <2>2. Grounded(Here, todo)
    BY <1>7 DEF WarmInv
  <2> QED
    BY <1>3, <2>1, <2>2, GotStays DEF Grounded
<1>8. ASSUME ppc \in {"ask", "mint"}, pcalm PROVE GotOrAwaited(Refs[nth], todo)'
  <2>1. GotOrAwaited(Refs[nth], todo)
    BY <1>8 DEF WarmInv
  <2>2. \A i \in Image : i = Refs[nth] =>
          \A d \in All(i) : Keeps(RepoOf[i], d) => Held(RepoOf[i], d)' \/ Awaited(todo, d)
    BY <2>1, GotStays
  <2> QED
    BY <1>3, <1>7, <1>8, <2>2 DEF GotOrAwaited, Held, Local
<1> QED
  BY <1>3, <1>4, <1>5, <1>6, <1>7, <1>8 DEF WarmInv

\* A step that leaves the store alone, in which a pull ends with an error or
\* goes on as it was.
LEMMA NothingGot ==
    ASSUME RegistryTypeOK, LinkedInv, PullTypeOK, WarmInv, registryVars' = registryVars
    PROVE  /\ \A i : HasAll(i) => HasAll(i)'
           /\ PullEnds("error") => WarmInv'
           /\ UNCHANGED <<nth, todo, psays>> /\ (pcalm' => pcalm)
                /\ ppc \in {"ask", "mint"} /\ ppc' \in {"ask", "mint"} => WarmInv'
<1>1. data' = data /\ linked' = linked
  BY DEF registryVars, store
<1>2. \A i : HasAll(i) => HasAll(i)'
  BY <1>1 DEF HasAll, Held, Local
<1>3. PullEnds("error") => WarmInv'
  BY DEF PullEnds, WarmInv
<1>4. ASSUME UNCHANGED <<nth, todo, psays>>, pcalm' => pcalm, ppc \in {"ask", "mint"}, ppc' \in {"ask", "mint"}
      PROVE  WarmInv'
  <2>1. psays' = "none"
    BY <1>4 DEF WarmInv
  <2>2. Grounded(Here, todo)'
    BY <1>1, <1>4 DEF WarmInv, Grounded, Here
  <2>3. pcalm' => GotOrAwaited(Refs[nth], todo)'
    BY <1>1, <1>4 DEF WarmInv, GotOrAwaited, Held, Local, Awaited
  <2>4. ASSUME pcalm', NEW k \in 1 .. nth' - 1 PROVE HasAll(Refs[k])'
    <3>1. HasAll(Refs[k])
      BY <1>4, <2>4 DEF WarmInv
    <3> QED
      BY <1>1, <3>1 DEF HasAll, Held, Local
  <2> QED
    BY <1>4, <2>1, <2>2, <2>3, <2>4 DEF WarmInv
<1> QED
  BY <1>2, <1>3, <1>4

\* An image that is asked for at its top is all to come.
LEMMA AllIsAwaited ==
    ASSUME NEW i \in Image, NEW d \in All(i)
    PROVE  Awaited(<<Top[i]>>, d)
<1>1. Top[i] \in Manifest
  BY RegistryAssumption
<1>2. DOMAIN <<Top[i]>> = {1} /\ <<Top[i]>>[1] = Top[i]
  OBVIOUS
<1> QED
  BY <1>1, <1>2 DEF All, Awaited, Below

\* The next image begins, or none is left.
LEMMA NewClientWarms ==
    ASSUME RegistryTypeOK, LinkedInv, PullTypeOK, WarmInv, NewClient
    PROVE  WarmInv'
<1>1. registryVars' = registryVars /\ pcalm' = pcalm /\ ppc = "client" /\ psays = "none"
  BY DEF NewClient, WarmInv
<1>2. Len(Refs) \in Nat /\ DOMAIN Refs = 1 .. Len(Refs) /\ nth \in 1 .. Len(Refs) + 1
  BY PullAssumption DEF PullTypeOK
<1>3. \A i : HasAll(i) => HasAll(i)'
  BY <1>1, NothingGot
<1>4. pcalm => \A k \in 1 .. nth - 1 : HasAll(Refs[k])'
  BY <1>1, <1>3 DEF WarmInv
<1>5. CASE nth > Len(Refs)
  <2>1. PullEnds("ok") /\ 1 .. nth - 1 = DOMAIN Refs
    BY <1>2, <1>5 DEF NewClient
  <2>2. pcalm' => \A k \in DOMAIN Refs : HasAll(Refs[k])'
    BY <1>1, <1>4, <2>1
  <2> QED
    BY <2>1, <2>2 DEF PullEnds, WarmInv
<1>6. CASE PullEnds("error")
  BY <1>1, <1>6, NothingGot
<1>7. ASSUME ~(nth > Len(Refs)), ppc' = "ask", todo' = <<Top[Refs[nth]]>>, UNCHANGED <<psays, nth>>
      PROVE  WarmInv'
  <2>1. nth \in DOMAIN Refs /\ Refs[nth] \in Image /\ Refs[nth]' = Refs[nth]
    BY <1>2, <1>7, PullAssumption
  <2>2. Top[Refs[nth]] \in Manifest
    BY <2>1, RegistryAssumption
  <2>3. Grounded(Here, todo)'
    BY <1>7, <2>2 DEF Grounded
  <2>4. GotOrAwaited(Refs[nth], todo)'
    BY <1>7, <2>1, AllIsAwaited DEF GotOrAwaited, Awaited
  <2> QED
    BY <1>1, <1>4, <1>7, <2>3, <2>4 DEF WarmInv
<1> QED
  BY <1>5, <1>6, <1>7 DEF NewClient

\* What the request for the head of todo is about
LEMMA AskedFacts ==
    ASSUME RegistryTypeOK, PullTypeOK, ppc \in {"ask", "mint"}
    PROVE  /\ nth \in DOMAIN Refs /\ DOMAIN Refs = 1 .. Len(Refs) /\ nth \in Nat /\ Refs[nth] \in Image
           /\ Here \in Repo /\ Here = RepoOf[Refs[nth]]
           /\ todo \in Seq(Item) /\ todo # <<>> /\ Tail(todo) \in Seq(Item)
           /\ 1 \in DOMAIN todo /\ Asked = todo[1] /\ Asked \in Manifest \cup Blob
           /\ Follows(Asked) \in Seq(Item)
<1>1. nth <= Len(Refs) /\ nth \in 1 .. Len(Refs) + 1 /\ todo \in Seq(Item) /\ todo # <<>>
  BY DEF PullTypeOK
<1>2. DOMAIN Refs = 1 .. Len(Refs) /\ Len(Refs) \in Nat /\ nth \in DOMAIN Refs
  BY <1>1, PullAssumption
<1>3. Refs[nth] \in Image /\ Here \in Repo
  BY <1>2, PullAssumption, RegistryAssumption DEF Here
<1>4. 1 \in DOMAIN todo /\ Asked = todo[1] /\ Asked \in Item /\ Tail(todo) \in Seq(Item)
  BY <1>1, HeadAndTail DEF Asked
<1>5. Follows(Asked) \in Seq(Item)
  BY ListedFacts DEF Follows
<1> QED
  BY <1>1, <1>2, <1>3, <1>4, <1>5 DEF Item, Here

\* What is asked for and answered in full is held then, if the cache keeps it.
LEMMA AskedIsHeld ==
    ASSUME RegistryTypeOK, LinkedInv, PullTypeOK, WarmInv, Gets, pcalm' \/ Asked \in Manifest,
           NEW r \in Repo, r = Here, NEW a, a = Asked, Keeps(r, a)
    PROVE  Held(r, a)'
<1>1. 1 \in DOMAIN todo /\ a = todo[1] /\ a \in Manifest \cup Blob
  BY AskedFacts DEF Gets
<1>2. a \in Manifest \/ r \in Relayed \/ \E m \in data \cap Manifest : a \in Listed(m)
  BY <1>1 DEF WarmInv, Grounded, Gets
<1>3. StoreStep
  BY PullKeeps DEF PullStep
<1>4. CASE FromDisk
  BY <1>2, <1>3, <1>4, HeldStays DEF FromDisk, Held
<1>5. CASE Puts(Here, Asked)
  <2>1. a \in data' /\ a \in linked'[r] /\ data \subseteq data'
    BY <1>5 DEF Puts, RegistryTypeOK
  <2> QED
    BY <1>2, <2>1 DEF Held, Local
<1>6. FromDisk \/ Puts(Here, Asked)
  <2>1. Manifest \cap Blob = {}
    BY RegistryAssumption
  <2>2. Keeps(Here, Asked)
    OBVIOUS
  <2> QED
    BY <2>1, <2>2 DEF Gets
<1> QED
  BY <1>4, <1>5, <1>6

\* What was awaited is got, or awaited below what follows.
LEMMA RestIsAwaited ==
    ASSUME NEW q \in Seq(Item), q # <<>>, NEW d, Awaited(q, d)
    PROVE  d = q[1] \/ Awaited(Follows(q[1]) \o Tail(q), d)
<1>1. 1 \in DOMAIN q /\ Tail(q) \in Seq(Item) /\ q[1] \in Item
      /\ \A k \in DOMAIN q : k # 1 => k - 1 \in DOMAIN Tail(q) /\ q[k] = Tail(q)[k - 1]
  BY HeadAndTail
<1>2. Follows(q[1]) \in Seq(Item)
  BY ListedFacts DEF Follows
<1> DEFINE f == Follows(q[1])
           t == Tail(q)
<1> HIDE DEF f, t
<1>3. /\ \A k \in DOMAIN f : k \in DOMAIN (f \o t) /\ (f \o t)[k] = f[k]
      /\ \A k \in DOMAIN t : Len(f) + k \in DOMAIN (f \o t) /\ (f \o t)[Len(f) + k] = t[k]
  <2>1. f \in Seq(Item) /\ t \in Seq(Item)
    BY <1>1, <1>2 DEF f, t
  <2> QED
    BY <2>1, Concatenated
<1>4. PICK k \in DOMAIN q : d = q[k] \/ (q[k] \in Manifest /\ Below(q[k], d))
  BY DEF Awaited
<1>5. CASE k # 1
  <2>1. q[k] = t[k - 1] /\ k - 1 \in DOMAIN t
    BY <1>1, <1>5 DEF t
  <2>2. Len(f) + (k - 1) \in DOMAIN (f \o t) /\ (f \o t)[Len(f) + (k - 1)] = q[k]
    BY <1>3, <2>1
  <2>3. Awaited(f \o t, d)
    BY <1>4, <2>2 DEF Awaited
  <2> QED
    BY <2>3 DEF f, t
<1>6. CASE k = 1 /\ d # q[1]
  <2>1. q[1] \in Manifest /\ Below(q[1], d) /\ f = Lists[q[1]]
    BY <1>4, <1>6 DEF f, Follows
  <2>2. PICK c \in Listed(q[1]) : d = c \/ (c \in Manifest /\ d \in Listed(c))
    BY <2>1 DEF Below
  <2>3. PICK j \in DOMAIN f : c = f[j]
    BY <2>1, ListedFacts
  <2>4. j \in DOMAIN (f \o t) /\ (f \o t)[j] = c
    BY <1>3, <2>3
  <2>5. Awaited(f \o t, d)
    BY <2>2, <2>4 DEF Awaited, Below
  <2> QED
    BY <2>5 DEF f, t
<1> QED
  BY <1>5, <1>6

\* A request is answered in full.
LEMMA GetsWarms ==
    ASSUME RegistryTypeOK, LinkedInv, PullTypeOK, WarmInv, Gets
    PROVE  WarmInv'
<1> SUFFICES ASSUME NEW i, NEW r, NEW a, NEW rest,
                    i = Refs[nth], r = Here, a = Asked, rest = Follows(Asked) \o Tail(todo)
             PROVE  WarmInv'
  OBVIOUS
<1>1. /\ ppc = "ask" /\ psays = "none" /\ psays' = "none" /\ todo' = rest
      /\ IF rest = <<>> THEN ppc' = "client" /\ nth' = nth + 1 ELSE UNCHANGED <<ppc, nth>>
      /\ pcalm' => pcalm
  BY DEF Gets, WarmInv
<1>2. /\ nth \in DOMAIN Refs /\ DOMAIN Refs = 1 .. Len(Refs) /\ nth \in Nat /\ i \in Image /\ r \in Repo /\ r = RepoOf[i]
      /\ todo \in Seq(Item) /\ todo # <<>> /\ Tail(todo) \in Seq(Item) /\ 1 \in DOMAIN todo /\ a = todo[1]
      /\ a \in Manifest \cup Blob /\ Follows(a) \in Seq(Item)
  BY <1>1, AskedFacts
<1>3. StoreStep
  BY PullKeeps DEF PullStep
<1>4. pcalm' \/ a \in Manifest => (Keeps(r, a) => Held(r, a)')
  BY <1>2, AskedIsHeld
<1>5. ASSUME pcalm', NEW d \in All(i), Keeps(r, d) PROVE Held(r, d)' \/ Awaited(rest, d)
  <2>1. Held(r, d)' \/ Awaited(todo, d)
    <3>1. GotOrAwaited(i, todo)
      BY <1>1, <1>5 DEF WarmInv
    <3> QED
      BY <1>2, <1>3, <1>5, <3>1, HeldStays DEF GotOrAwaited
  <2>2. Awaited(todo, d) => d = a \/ Awaited(rest, d)
    BY <1>2, RestIsAwaited
  <2> QED
    BY <1>4, <1>5, <2>1, <2>2
<1>6. ASSUME NEW k \in DOMAIN rest
      PROVE  rest[k] \in Manifest \/ r \in Relayed \/ \E m \in data' \cap Manifest : rest[k] \in Listed(m)
  <2> DEFINE f == Follows(a)
             t == Tail(todo)
  <2>1. \/ k \in DOMAIN f /\ rest[k] = f[k]
        \/ k - Len(f) \in DOMAIN t /\ rest[k] = t[k - Len(f)]
    BY <1>2, <1>6, Concatenated
  <2>2. CASE k \in DOMAIN f /\ rest[k] = f[k]
    <3>1. CASE a \in Manifest
      <4>1. rest[k] \in Listed(a)
        BY <2>2, <3>1, ListedFacts DEF Follows
      <4>2. r \in Relayed \/ a \in data'
        BY <1>4, <3>1 DEF Keeps, Held, Local
      <4> QED
        BY <3>1, <4>1, <4>2
    <3>2. CASE a \notin Manifest
      BY <2>2, <3>2 DEF Follows
    <3> QED
      BY <3>1, <3>2
  <2>3. CASE k - Len(f) \in DOMAIN t /\ rest[k] = t[k - Len(f)]
    <3>1. PICK j \in DOMAIN todo : rest[k] = todo[j]
      BY <1>2, <2>3, HeadAndTail
    <3>2. Grounded(r, todo)
      BY <1>1 DEF WarmInv
    <3> QED
      BY <1>2, <1>3, <3>1, <3>2, GotStays
  <2> QED
    BY <2>1, <2>2, <2>3
<1>7. ASSUME pcalm', NEW k \in 1 .. nth - 1 PROVE HasAll(Refs[k])'
  <2>1. HasAll(Refs[k])
    BY <1>1, <1>7 DEF WarmInv
  <2>2. Refs[k] \in Image
    BY <1>2, <1>7, PullAssumption
  <2> QED
    BY <1>3, <2>1, <2>2, GotStays
<1>8. CASE rest = <<>>
  <2>1. \A d : ~Awaited(rest, d)
    BY <1>8 DEF Awaited
  <2>2. pcalm' => HasAll(i)'
    BY <1>2, <1>5, <2>1 DEF HasAll
  <2>3. nth' = nth + 1 /\ ppc' = "client"
    BY <1>1, <1>2, <1>8
  <2>4. ASSUME pcalm', NEW k \in 1 .. nth' - 1 PROVE HasAll(Refs[k])'
    <3>1. k \in 1 .. nth - 1 \/ k = nth
      BY <1>2, <2>3
    <3> QED
      BY <1>7, <2>2, <2>4, <3>1
  <2> QED
    BY <1>1, <2>3, <2>4 DEF WarmInv
<1>9. CASE rest # <<>>
  <2>1. ppc' = "ask" /\ nth' = nth
    BY <1>1, <1>9
  <2>2. Grounded(Here, todo)'
    BY <1>1, <1>6, <2>1 DEF Grounded, Here
  <2>3. pcalm' => GotOrAwaited(Refs[nth], todo)'
    BY <1>1, <1>2, <1>5, <2>1 DEF GotOrAwaited, Awaited
  <2> QED
    BY <1>1, <1>7, <2>1, <2>2, <2>3 DEF WarmInv
<1> QED
  BY <1>8, <1>9

\* All the steps of a pull
LEMMA PullWarms ==
    ASSUME RegistryTypeOK, LinkedInv, PullTypeOK, WarmInv, PullBegins \/ PullStep \/ Expires
    PROVE  WarmInv'
<1>1. CASE PullBegins
  BY <1>1 DEF PullBegins, request, WarmInv
<1>2. CASE NewClient
  BY <1>2, NewClientWarms
<1>3. CASE Gets
  BY <1>3, GetsWarms
<1>4. CASE Challenged
  BY <1>4, NothingGot DEF Challenged, request
<1>5. CASE Mints
  BY <1>5, NothingGot DEF Mints
<1>6. CASE RequestFails
  BY <1>6, NothingGot DEF RequestFails
<1>7. CASE Expires
  BY <1>7, NothingGot DEF Expires
<1> QED
  BY <1>1, <1>2, <1>3, <1>4, <1>5, <1>6, <1>7 DEF PullStep

\* An image is whole when each item of it that its cache keeps is there.
LEMMA WholeMeans ==
    ASSUME NEW i \in Image
    PROVE  WholeHere(i) <=> \A d \in All(i) : Keeps(RepoOf[i], d) => Local(RepoOf[i], d)
BY DEF WholeHere, KeptOf, Local

\* What is held is local.
LEMMA HeldIsWhole == WarmInv => PulledIsWhole
<1>1. \A k \in DOMAIN Refs : Refs[k] \in Image
  BY PullAssumption
<1>2. \A i \in Image : HasAll(i) => WholeHere(i)
  BY WholeMeans DEF HasAll, Held
<1> QED
  BY <1>1, <1>2 DEF WarmInv, PulledIsWhole

-----------------------------------------------------------------------------
(* Why a calm pull does not fail                                           *)

\* A token is good while nothing goes wrong; and where one is needed, the first
\* request of the image has met the challenge.
TokenInv ==
    /\ ppc \in {"idle", "client", "done"} => ~retried
    /\ ppc \in {"ask", "mint"} /\ atTop => Asked \in Manifest
    /\ ppc \in {"ask", "mint"} /\ pcalm =>
        /\ retried => token = "valid"
        /\ Here \in Private /\ ~atTop /\ Challengeable(Refs[nth]) => token = "valid"
    /\ CalmPullSucceeds

\* A calm pull with good credentials ends only when it is done.
LEMMA PullKeepsToken ==
    ASSUME RegistryTypeOK, PullTypeOK, WarmInv, TokenInv, PullBegins \/ PullStep \/ Expires
    PROVE  TokenInv'
<1> DEFINE Good == creds /\ \A k \in DOMAIN Refs : Challengeable(Refs[k])
<1>0. creds' = creds
  BY DEF PullBegins, PullStep, NewClient, Gets, Challenged, Mints, RequestFails, Expires
<1>e. ASSUME PullEnds("error"), ~(pcalm' /\ Good) PROVE TokenInv'
  BY <1>0, <1>e DEF PullEnds, TokenInv, CalmPullSucceeds
<1>1. CASE PullBegins
  BY <1>1 DEF PullBegins, request, TokenInv, CalmPullSucceeds
<1>2. CASE NewClient
  <2>1. CASE nth > Len(Refs)
    BY <1>2, <2>1 DEF NewClient, PullEnds, TokenInv, CalmPullSucceeds
  <2>2. CASE Refs[nth] \in NeedsKey /\ ~creds /\ PullEnds("error")
    BY <1>e, <2>2
  <2>3. CASE ~(nth > Len(Refs)) /\ ~(Refs[nth] \in NeedsKey /\ ~creds)
    <3>1. /\ ppc' = "ask" /\ todo' = <<Top[Refs[nth]]>> /\ atTop' = TRUE /\ nth' = nth /\ retried' = retried
          /\ ppc = "client"
      BY <1>2, <2>3 DEF NewClient
    <3>2. nth \in DOMAIN Refs
      BY <2>3, PullAssumption DEF PullTypeOK
    <3>3. Asked' \in Manifest
      BY <3>1, <3>2, PullAssumption, RegistryAssumption DEF Asked
    <3> QED
      BY <3>1, <3>3 DEF TokenInv, CalmPullSucceeds
  <2> QED
    BY <1>2, <2>1, <2>2, <2>3 DEF NewClient
<1>3. CASE Gets
  <2>1. /\ ppc = "ask" /\ atTop' = FALSE /\ retried' = FALSE /\ token' = token /\ (pcalm' => pcalm)
        /\ ppc' # "done" /\ (ppc' = "ask" => nth' = nth)
    BY <1>3 DEF Gets
  <2>2. ASSUME pcalm', Here \in Private, Challengeable(Refs[nth]) PROVE token = "valid"
    <3>1. CASE ~atTop
      BY <2>1, <2>2, <3>1 DEF TokenInv
    <3>2. CASE atTop
      <4>1. Asked \in Manifest
        BY <2>1, <2>2, <3>2 DEF TokenInv
      <4>2. ~FromDisk
        BY <2>2, <3>2, <4>1 DEF FromDisk, Keeps, AskedByTag, Challengeable, Here
      <4> QED
        BY <1>3, <2>2, <4>2 DEF Gets, Permitted
    <3> QED
      BY <3>1, <3>2 DEF PullTypeOK
  <2>3. ppc' = "ask" => Here' = Here /\ Refs[nth]' = Refs[nth]
    BY <2>1 DEF Here
  <2>4. ppc' \in {"client", "ask"}
    BY <1>3 DEF Gets
  <2> QED
    BY <2>1, <2>2, <2>3, <2>4 DEF TokenInv, CalmPullSucceeds, Challengeable
<1>4. CASE Challenged
  <2>1. ppc = "ask" /\ ~FromDisk /\ ~Permitted /\ pcalm' = pcalm
    BY <1>4 DEF Challenged
  <2>2. CASE AsksAgain /\ ppc' = "mint" /\ UNCHANGED <<request, psays>>
    BY <2>1, <2>2 DEF request, TokenInv, Asked, Here, Challengeable, CalmPullSucceeds
  <2>3. CASE ~AsksAgain /\ PullEnds("error")
    <3>1. ASSUME pcalm', Good PROVE FALSE
      <4>1. Here \in Private /\ token # "valid"
        BY <2>1 DEF Permitted
      <4>2. Challengeable(Refs[nth])
        BY <3>1, <2>1, AskedFacts
      <4>3. atTop /\ ~retried /\ Asked \in Manifest
        BY <2>1, <3>1, <4>1, <4>2 DEF TokenInv
      <4> QED
        BY <2>3, <4>3 DEF AsksAgain
    <3> QED
      BY <1>e, <2>3, <3>1
  <2> QED
    BY <1>4, <2>2, <2>3 DEF Challenged
<1>5. CASE Mints
  <2>1. CASE ~creds /\ PullEnds("error")
    BY <1>e, <2>1
  <2>2. CASE creds /\ token' = "valid" /\ ppc' = "ask" /\ UNCHANGED <<psays, nth, todo, atTop>>
    BY <1>5, <2>2 DEF Mints, TokenInv, Asked, Here, CalmPullSucceeds
  <2> QED
    BY <1>5, <2>1, <2>2 DEF Mints
<1>6. CASE RequestFails
  BY <1>6, <1>e DEF RequestFails
<1>7. CASE Expires
  BY <1>7 DEF Expires, TokenInv, Asked, CalmPullSucceeds
<1> QED
  BY <1>1, <1>2, <1>3, <1>4, <1>5, <1>6, <1>7 DEF PullStep

-----------------------------------------------------------------------------
(* What a quiet reading sees                                               *)

\* A tag and a manifest come to the disk with a link.
TagInv == \A i \in tagged : RepoOf[i] \notin Relayed /\ linked[RepoOf[i]] # {}
StoredInv == \A r \in Repo : linked[r] \cap Manifest \subseteq data

\* Links stay, and come with what they link.
LEMMA LinksStay ==
    ASSUME RegistryTypeOK, LinkedInv, StoredInv, StoreStep
    PROVE  StoredInv' /\ (tagged' = tagged /\ TagInv => TagInv')
<1>1. StoreKeeps
  BY StoreIsKept
<1>2. \A i \in tagged : RepoOf[i] \in Repo
  BY RegistryAssumption DEF RegistryTypeOK
<1>3. tagged' = tagged /\ TagInv => TagInv'
  BY <1>1, <1>2 DEF TagInv, StoreKeeps
<1>4. CASE \E r \in Repo, d \in Item : Puts(r, d)
  <2>1. PICK r \in Repo, d \in Item : Puts(r, d)
    BY <1>4
  <2>2. data \subseteq data' /\ d \in data' /\ \A s \in Repo : linked'[s] \subseteq linked[s] \cup {d}
    BY <2>1 DEF Puts, RegistryTypeOK
  <2> QED
    BY <1>3, <2>2 DEF StoredInv
<1>5. CASE linked' = linked
  BY <1>1, <1>3, <1>5 DEF StoredInv, StoreKeeps
<1> QED
  BY <1>4, <1>5 DEF StoreStep

\* A pull puts the tag of what it stores.
LEMMA PullTags ==
    ASSUME RegistryTypeOK, LinkedInv, PullTypeOK, StoredInv, TagInv, TokenInv, PullBegins \/ PullStep \/ Expires
    PROVE  StoredInv' /\ TagInv'
<1>1. StoreStep
  BY PullKeeps
<1>2. CASE tagged' = tagged
  BY <1>1, <1>2, LinksStay
<1>3. CASE tagged' # tagged
  <2>1. Gets /\ tagged' = tagged \cup {Refs[nth]} /\ AskedByTag /\ Puts(Here, Asked) /\ Keeps(Here, Asked)
    BY <1>3 DEF PullStep, PullBegins, NewClient, Gets, Challenged, Mints, RequestFails, Expires, registryVars, store
  <2>2. /\ Here = RepoOf[Refs[nth]] /\ Here \in Repo /\ Refs[nth] \in Image
        /\ Asked \in Manifest
    BY <2>1, AskedFacts DEF Gets, TokenInv, AskedByTag
  <2>3. Here \notin Relayed /\ linked'[Here] # {}
    BY <2>1, <2>2 DEF Keeps, Puts, RegistryTypeOK
  <2>4. \A i \in tagged : RepoOf[i] \in Repo
    BY RegistryAssumption DEF RegistryTypeOK
  <2>5. \A i \in tagged : RepoOf[i] \notin Relayed /\ linked'[RepoOf[i]] # {}
    BY <1>1, <2>4, StoreIsKept DEF StoreKeeps, TagInv
  <2>6. TagInv'
    BY <2>1, <2>2, <2>3, <2>5 DEF TagInv
  <2> QED
    BY <1>1, <2>6, LinksStay
<1> QED
  BY <1>2, <1>3

\* What is shown of a repository that has been listed
Lines(r) ==
    /\ \A i \in TagsOf(r) : Shown(r, i)
    /\ TagsOf(r) = {} => \A m \in RevsOf(r) \cap data :
                            m \in Mentions \/ RevsOf(r) \cap Mentions = {} => Shown(r, m)

NoChildren(r) == TagsOf(r) = {} /\ Told(r) => NoLineBelow(r)

\* It is at repo.
AtRepo == lpc \in {"tags", "revs", "look"}

\* A listing during which nothing has happened so far
ListInv ==
    /\ lpc = "idle" => shown = {} /\ ~lcalm
    /\ lcalm =>
        /\ catalog \in Pages(Cached)
        /\ lpc = "done" => repos = {}
        /\ AtRepo => repo \notin repos
        /\ lpc \in {"revs", "look"} => TagsOf(repo) = {}
        /\ lpc = "look" => revs = RevsOf(repo) /\ indexes = (revs \ unread) \cap Mentions
        /\ \A r \in Repo :
            /\ r \in repos \/ (AtRepo /\ r = repo) => \A x : ~Shown(r, x)
            /\ r \in catalog => Lines(r) \/ r \in repos \/ (AtRepo /\ r = repo)
            /\ NoChildren(r)

\* Lines that are added are of the repository it is at.
LEMMA LinesAdded ==
    ASSUME NEW lines, Show(lines)
    PROVE  \A r, x : Shown(r, x)' <=> Shown(r, x) \/ (r = repo /\ x \in lines)
<1> SUFFICES ASSUME NEW r, NEW x PROVE Shown(r, x)' <=> Shown(r, x) \/ (r = repo /\ x \in lines)
  OBVIOUS
<1>1. <<r, {x}>> \in {<<repo, {y}>> : y \in lines} <=> r = repo /\ x \in lines
  <2>1. \A y : <<r, {x}>> = <<repo, {y}>> <=> r = repo /\ x = y
    OBVIOUS
  <2> QED
    BY <2>1
<1> QED
  BY <1>1 DEF Show, Shown

\* The listing's own steps
LEMMA ListingSees ==
    ASSUME ListingTypeOK, StoredInv, ListInv, ListingStep
    PROVE  ListInv'
<1> USE DEF AtRepo
<1>0. /\ tagged' = tagged /\ data' = data /\ linked' = linked
      /\ \A r : TagsOf(r)' = TagsOf(r) /\ RevsOf(r)' = RevsOf(r) /\ Told(r)' = Told(r)
      /\ Pages(Cached)' = Pages(Cached)
  <2>1. tagged' = tagged /\ data' = data /\ linked' = linked
    BY DEF ListingStep, ListBegins, NextRepo, ListsTags, ListsRevisions, LooksInto, ShowsRevisions,
           registryVars, store
  <2> QED
    BY <2>1 DEF TagsOf, RevsOf, Told, Pages, Cached
<1>s. shown' = shown => \A r : /\ \A x : Shown(r, x)' <=> Shown(r, x)
                               /\ Lines(r)' <=> Lines(r)
                               /\ NoChildren(r)' <=> NoChildren(r)
  <2> SUFFICES ASSUME shown' = shown, NEW r
               PROVE  /\ \A x : Shown(r, x)' <=> Shown(r, x)
                      /\ Lines(r)' <=> Lines(r)
                      /\ NoChildren(r)' <=> NoChildren(r)
    OBVIOUS
  <2>1. \A x : Shown(r, x)' <=> Shown(r, x)
    BY DEF Shown
  <2> QED
    BY <1>0, <2>1 DEF Lines, NoChildren, NoLineBelow
<1>c. lpc # "idle" => catalog' = catalog
  BY DEF ListingStep, ListBegins, NextRepo, ListsTags, ListsRevisions, LooksInto, ShowsRevisions
<1>1. CASE ListBegins
  <2>1. shown' = shown /\ shown = {} /\ ~lcalm /\ \A r, x : ~Shown(r, x)
    BY <1>1 DEF ListBegins, ListInv, Shown
  <2>2. CASE lpc' = "repos" /\ catalog' \in Pages(Cached) /\ repos' = catalog'
    <3>1. \A r : NoChildren(r)
      BY <2>1 DEF NoChildren, NoLineBelow
    <3> QED
      BY <1>c, <1>0, <1>s, <2>1, <2>2, <3>1 DEF ListInv
  <2>3. CASE lpc' = "done" /\ lcalm' = lcalm
    BY <2>1, <2>3 DEF ListInv
  <2> QED
    BY <1>1, <2>2, <2>3 DEF ListBegins
<1>2. CASE NextRepo
  <2>1. shown' = shown /\ lcalm' = lcalm /\ lpc = "repos"
    BY <1>2 DEF NextRepo
  <2>2. CASE repos = {} /\ lpc' = "done" /\ repos' = repos /\ repo' = repo
    BY <1>c, <1>0, <1>s, <2>1, <2>2 DEF ListInv
  <2>3. CASE \E r \in repos : repo' = r /\ repos' = repos \ {r} /\ lpc' = "tags"
    BY <1>c, <1>0, <1>s, <2>1, <2>3 DEF ListInv
  <2> QED
    BY <1>2, <2>2, <2>3 DEF NextRepo
<1>3. CASE ListsTags
  <2>1. lpc = "tags" /\ repos' = repos /\ repo' = repo /\ (lcalm' => lcalm)
    BY <1>3 DEF ListsTags
  <2>2. CASE lcalm' /\ TagsOf(repo) = {}
    <3>1. lpc' = "revs" /\ shown' = shown
      BY <1>3, <2>2 DEF ListsTags
    <3> QED
      BY <1>c, <1>0, <1>s, <2>1, <2>2, <3>1 DEF ListInv
  <2>3. CASE lcalm' /\ TagsOf(repo) # {}
    <3>1. lpc' = "repos" /\ Show(TagsOf(repo))
      BY <1>3, <2>3 DEF ListsTags
    <3>2. \A r, x : Shown(r, x)' <=> Shown(r, x) \/ (r = repo /\ x \in TagsOf(repo))
      BY <3>1, LinesAdded
    <3>3. Lines(repo)' /\ NoChildren(repo)'
      BY <1>0, <2>1, <2>3, <3>2 DEF Lines, NoChildren, NoLineBelow
    <3>4. \A r : Lines(r) => Lines(r)'
      BY <1>0, <3>2 DEF Lines
    <3>5. \A r : r # repo /\ NoChildren(r) => NoChildren(r)'
      BY <1>0, <3>2 DEF NoChildren, NoLineBelow
    <3> QED
      BY <1>c, <1>0, <2>1, <2>3, <3>1, <3>2, <3>3, <3>4, <3>5 DEF ListInv
  <2>4. CASE ~lcalm'
    BY <1>3, <2>4 DEF ListsTags, ListInv
  <2> QED
    BY <2>2, <2>3, <2>4
<1>4. CASE ListsRevisions
  <2>1. lpc = "revs" /\ repos' = repos /\ repo' = repo /\ (lcalm' => lcalm) /\ lpc' # "idle"
    BY <1>4 DEF ListsRevisions
  <2>2. CASE lcalm'
    <3>1. /\ revs' = RevsOf(repo) /\ unread' = revs' /\ indexes' = {}
          /\ IF revs' = {} THEN shown' = shown \cup {<<repo, {}>>} /\ lpc' = "repos"
                           ELSE lpc' = "look" /\ shown' = shown
      <4>1. PICK found : /\ revs' = found /\ unread' = found /\ indexes' = {}
                         /\ lcalm' = (lcalm /\ found = RevsOf(repo))
                         /\ IF found = {} THEN shown' = shown \cup {<<repo, {}>>} /\ lpc' = "repos"
                                          ELSE lpc' = "look" /\ shown' = shown
        BY <1>4 DEF ListsRevisions
      <4> QED
        BY <2>2, <4>1
    <3>2. CASE revs' # {}
      BY <1>c, <1>0, <1>s, <2>1, <2>2, <3>1, <3>2 DEF ListInv
    <3>3. CASE revs' = {}
      <4>1. \A x : {} # {x}
        OBVIOUS
      <4>2. \A r, x : <<r, {x}>> # <<repo, {}>>
        BY <4>1
      <4>3. \A r, x : Shown(r, x)' <=> Shown(r, x)
        BY <3>1, <3>3, <4>2 DEF Shown
      <4>4. \A r : (Lines(r) => Lines(r)') /\ (NoChildren(r) => NoChildren(r)')
        BY <1>0, <4>3 DEF Lines, NoChildren, NoLineBelow
      <4>5. lcalm /\ TagsOf(repo) = {}
        BY <2>1, <2>2 DEF ListInv
      <4>6. Lines(repo)'
        BY <1>0, <2>1, <3>1, <3>3, <4>5 DEF Lines
      <4> QED
        BY <1>c, <1>0, <2>1, <2>2, <3>1, <3>3, <4>3, <4>4, <4>6 DEF ListInv
    <3> QED
      BY <3>2, <3>3
  <2>3. CASE ~lcalm'
    BY <2>1, <2>3 DEF ListInv
  <2> QED
    BY <2>2, <2>3
<1>5. ASSUME NEW d \in Manifest, LooksInto(d) PROVE ListInv'
  <2>1. /\ lpc = "look" /\ lpc' = lpc /\ repos' = repos /\ repo' = repo /\ revs' = revs /\ shown' = shown
        /\ d \in unread /\ unread' = unread \ {d} /\ (lcalm' => lcalm)
    BY <1>5 DEF LooksInto
  <2>2. CASE lcalm'
    <3>1. indexes' = IF d \in Mentions \cap data THEN indexes \cup {d} ELSE indexes
      BY <1>5, <2>2 DEF LooksInto
    <3>2. lcalm /\ revs = RevsOf(repo) /\ indexes = (revs \ unread) \cap Mentions
      BY <2>1, <2>2 DEF ListInv
    <3>3. d \in revs /\ repo \in Repo
      BY <2>1 DEF ListingTypeOK
    <3>4. d \in data
      BY <3>2, <3>3 DEF RevsOf, StoredInv
    <3>5. indexes' = (revs' \ unread') \cap Mentions
      BY <2>1, <3>1, <3>2, <3>3, <3>4
    <3> QED
      BY <1>c, <1>0, <1>s, <2>1, <2>2, <3>2, <3>5 DEF ListInv
  <2>3. CASE ~lcalm'
    BY <2>1, <2>3 DEF ListInv
  <2> QED
    BY <2>2, <2>3
<1>6. CASE ShowsRevisions
  <2>1. /\ lpc = "look" /\ lpc' = "repos" /\ repos' = repos /\ repo' = repo /\ lcalm' = lcalm /\ unread = {}
        /\ Show(Primary)
    BY <1>6 DEF ShowsRevisions
  <2>2. CASE lcalm
    <3>1. \A r, x : Shown(r, x)' <=> Shown(r, x) \/ (r = repo /\ x \in Primary)
      BY <2>1, LinesAdded
    <3>2. revs = RevsOf(repo) /\ indexes = revs \cap Mentions /\ TagsOf(repo) = {} /\ \A x : ~Shown(repo, x)
      BY <2>1, <2>2 DEF ListInv, ListingTypeOK
    <3>3. Primary = IF revs \cap Mentions # {} THEN revs \cap Mentions ELSE revs
      BY <3>2 DEF Primary
    <3>4. \A r, x : r = repo => (Shown(r, x)' <=> x \in Primary)
      BY <3>1, <3>2
    <3>5. Lines(repo)'
      BY <1>0, <2>1, <3>2, <3>3, <3>4 DEF Lines
    <3>6. NoChildren(repo)'
      <4>1. \A m \in Index : m \in Manifest /\ Listed(m) \cap Index = {}
        BY ListedFacts, RegistryAssumption
      <4>2. ASSUME revs \cap Mentions = revs \cap Index, NEW m \in revs, NEW c \in revs,
                   m \in Index, c \in Listed(m)
            PROVE  c \notin Primary
        BY <3>3, <4>1, <4>2
      <4>3. RevsOf(repo)' = revs /\ repo' = repo
        BY <1>0, <2>1, <3>2
      <4> QED
        BY <3>4, <4>2, <4>3 DEF NoChildren, NoLineBelow, Told
    <3>7. \A r : Lines(r) => Lines(r)'
      BY <1>0, <3>1 DEF Lines
    <3>8. \A r : r # repo /\ NoChildren(r) => NoChildren(r)'
      BY <1>0, <3>1 DEF NoChildren, NoLineBelow
    <3> QED
      BY <1>c, <1>0, <2>1, <2>2, <3>1, <3>5, <3>6, <3>7, <3>8 DEF ListInv
  <2>3. CASE ~lcalm
    BY <2>1, <2>3 DEF ListInv
  <2> QED
    BY <2>2, <2>3
<1> QED
  BY <1>1, <1>2, <1>3, <1>4, <1>5, <1>6 DEF ListingStep

-----------------------------------------------------------------------------
(* What a quiet reading counts                                             *)

\* What an image is counted as when nothing happens
TagThere(i) == i \in ByTag => i \in tagged
Verdict(i) ==
    IF TagThere(i) /\ Complete(i) THEN "full"
    ELSE IF TagThere(i) /\ Local(RepoOf[i], Top[i]) THEN "manifest"
    ELSE "missing"

Concerns(i) == RepoOf[i] \notin Relayed /\ (i \in ByTag => reader = "verify")
Right(i) == Concerns(i) => counted[i] = Verdict(i)

\* Only what the image needs is looked for; the others are passed over.
Needing(q) ==
    \A k \in DOMAIN q :
        q[k] \in NeededOf(Looking) \/ q[k] \in Manifest \ (Matching \cup {Top[Looking]})

CountInv ==
    /\ rpc # "done" => rsays = "none"
    /\ rcalm =>
        /\ rpc \in {"release", "image", "tag", "has", "read"} => snap = data
        /\ rpc \in {"image", "tag", "has", "read"} /\ nthImage # 0 =>
            \A k \in 1 .. nthImage - 1 : Right(Images[k])
        /\ rpc = "done" /\ rsays = "ok" => \A k \in DOMAIN Images : Right(Images[k])
        /\ rpc \in {"tag", "has", "read"} /\ nthImage # 0 => Concerns(Looking)
        /\ rpc = "tag" => Looking \in ByTag
        /\ rpc \in {"has", "read"} /\ nthImage # 0 =>
            /\ TagThere(Looking) /\ Needing(check)
            /\ check = <<Top[Looking]>> \/ Local(At, Top[Looking])
        /\ rpc = "read" => ~OtherPlatform

\* A step of the reader, as it leaves the store
SameStore == UNCHANGED <<data, linked, tagged, reader, snap>>

\* A step that leaves the store alone changes no verdict.
LEMMA SameVerdict ==
    ASSUME SameStore
    PROVE  /\ \A i : Verdict(i)' = Verdict(i) /\ (Concerns(i)' <=> Concerns(i)) /\ (Complete(i)' <=> Complete(i))
           /\ \A i : TagThere(i)' <=> TagThere(i)
           /\ \A i : counted'[i] = counted[i] => (Right(i)' <=> Right(i))
           /\ Images' = Images
<1>1. \A i : (Complete(i)' <=> Complete(i)) /\ (Local(RepoOf[i], Top[i])' <=> Local(RepoOf[i], Top[i]))
  BY DEF SameStore, Complete, Local
<1>2. \A i : (TagThere(i)' <=> TagThere(i)) /\ (Concerns(i)' <=> Concerns(i))
  BY DEF SameStore, TagThere, Concerns
<1>3. \A i : Verdict(i)' = Verdict(i)
  BY <1>1, <1>2 DEF Verdict
<1>4. Images' = Images
  BY DEF SameStore, Images
<1> QED
  BY <1>1, <1>2, <1>3, <1>4 DEF Right

\* The images up to the one it is at
LEMMA AtImage ==
    ASSUME CoverageTypeOK, ViewInv, rpc \in {"image", "tag", "has", "read"}, nthImage # 0
    PROVE  /\ nthImage \in Nat /\ nthImage >= 1
           /\ \A k \in 1 .. nthImage - 1 : k \in DOMAIN Images /\ Images[k] \in Image
           /\ nthImage <= Len(Images) => Looking = Images[nthImage] /\ Looking \in Image /\ nthImage \in DOMAIN Images
           /\ nthImage > Len(Images) => 1 .. nthImage - 1 = DOMAIN Images
<1>1. Images \in Seq(Image) /\ Len(Images) \in Nat /\ nthImage \in Nat
  BY CoverageAssumption DEF Images, CoverageTypeOK
<1>2. nthImage <= Len(Images) + 1
  BY <1>1 DEF ViewInv, PlaceInv
<1> QED
  BY <1>1, <1>2 DEF Looking

\* A right verdict
LEMMA CountJudged ==
    ASSUME CoverageTypeOK, ViewInv, CountInv, rcalm, SameStore, rpc \in {"tag", "has", "read"},
           NEW as, Judged(as), nthImage # 0 => as = Verdict(Looking)
    PROVE  CountInv'
<1>1. CASE nthImage = 0
  BY <1>1 DEF Judged, ReaderEnds, CountInv
<1>2. CASE nthImage # 0
  <2>1. /\ counted' = [counted EXCEPT ![Looking] = as] /\ nthImage' = nthImage + 1 /\ rpc' = "image" /\ rsays' = rsays
    BY <1>2 DEF Judged
  <2>2. nthImage <= Len(Images)
    BY PlaceFacts, ImagesFacts DEF ViewInv, PlaceInv
  <2>3. counted \in [Image -> Counts] /\ Looking \in Image
    BY <1>2, <2>2, AtImage DEF CoverageTypeOK
  <2>4. ASSUME NEW i \in Image, i = Looking \/ Right(i) PROVE Right(i)'
    <3>1. CASE i = Looking
      BY <1>2, <2>1, <2>3, <3>1, SameVerdict DEF Right
    <3>2. CASE i # Looking
      BY <2>1, <2>3, <2>4, <3>2, SameVerdict
    <3> QED
      BY <3>1, <3>2
  <2>5. ASSUME NEW k \in 1 .. nthImage' - 1, NEW i, i = Images[k] PROVE Right(i)'
    <3>1. nthImage \in Nat /\ (k \in 1 .. nthImage - 1 \/ k = nthImage)
      BY <1>2, <2>1, AtImage
    <3>2. i \in Image /\ (i = Looking \/ Right(i))
      BY <1>2, <2>2, <2>5, <3>1, AtImage DEF CountInv
    <3> QED
      BY <2>4, <3>2
  <2>6. \A k \in 1 .. nthImage' - 1 : Right(Images[k])'
    BY <2>5, SameVerdict DEF Right
  <2> QED
    BY <2>1, <2>6 DEF CountInv, SameStore
<1> QED
  BY <1>1, <1>2

\* On to the rest, which is needed or passed over
LEMMA CountGoesOn ==
    ASSUME CoverageTypeOK, ViewInv, FullIsStored', CountInv, rcalm, SameStore, rpc \in {"has", "read"},
           NEW rest \in Seq(Item), GoesOn(rest),
           nthImage # 0 => Needing(rest) /\ Local(At, Top[Looking])
    PROVE  CountInv'
<1>1. CASE rest # <<>>
  <2>1. rpc' = "has" /\ check' = rest /\ UNCHANGED <<nthImage, counted, rsays>>
    BY <1>1 DEF GoesOn
  <2>2. Looking' = Looking /\ At' = At /\ Images' = Images
    BY <2>1, SameVerdict DEF Looking, At
  <2>3. \A i : Right(i)' <=> Right(i)
    BY <2>1, SameVerdict
  <2>4. nthImage # 0 => \A k \in 1 .. nthImage - 1 : Right(Images[k])'
    BY <2>2, <2>3 DEF CountInv
  <2>5. nthImage # 0 => (Needing(check) /\ Local(At, Top[Looking]))'
    BY <2>1, <2>2 DEF Needing, Local, SameStore
  <2>6. nthImage # 0 => (Concerns(Looking) /\ TagThere(Looking))'
    BY <2>2, SameVerdict DEF CountInv, Concerns, TagThere, SameStore
  <2> QED
    BY <2>1, <2>4, <2>5, <2>6 DEF CountInv, SameStore
<1>2. CASE rest = <<>> /\ nthImage = 0
  <2>1. rpc' = "image" /\ nthImage' = 1 /\ UNCHANGED <<counted, rsays>>
    BY <1>2 DEF GoesOn
  <2> QED
    BY <2>1 DEF CountInv, SameStore
<1>3. CASE rest = <<>> /\ nthImage # 0
  <2>1. Judged("full")
    BY <1>3 DEF GoesOn
  <2>2. counted' = [counted EXCEPT ![Looking] = "full"] /\ Looking \in Image /\ counted \in [Image -> Counts]
    BY <1>3, <2>1, PlaceFacts DEF Judged, ViewInv, CoverageTypeOK
  <2>3. \A i \in Image : i = Looking => Complete(i)
    BY <2>2, SameVerdict DEF FullIsStored
  <2>4. Verdict(Looking) = "full"
    BY <1>3, <2>2, <2>3 DEF Verdict, CountInv
  <2> QED
    BY <2>1, <2>4, CountJudged
<1> QED
  BY <1>1, <1>2, <1>3

\* A reading begins, and comes to an image.
LEMMA CountStarts ==
    ASSUME RegistryTypeOK, CoverageTypeOK, ViewInv, CountInv, rcalm',
           (\E which \in {"coverage", "verify"} : ReaderBegins(which)) \/ Opens \/ ResolvesRelease \/ NextImage
    PROVE  CountInv'
<1>1. CASE \E which \in {"coverage", "verify"} : ReaderBegins(which)
  BY <1>1 DEF ReaderBegins, CountInv
<1>2. CASE Opens
  <2>1. /\ rpc = "open" /\ snap' = data /\ data' = data /\ rsays' = rsays
        /\ rpc' = IF reader = "coverage" THEN "release" ELSE "image"
        /\ nthImage' = IF reader = "coverage" THEN 0 ELSE 1
    BY <1>2 DEF Opens, registryVars, store
  <2> QED
    BY <2>1 DEF CountInv
<1>3. CASE ResolvesRelease
  <2>1. /\ rpc = "release" /\ SameStore /\ rcalm /\ nthImage' = nthImage /\ nthImage = 0
    BY <1>3 DEF ResolvesRelease, registryVars, store, SameStore, CoverageTypeOK, ViewInv, PlaceInv
  <2>2. (rpc' = "has" /\ rsays' = rsays) \/ (rpc' = "done" /\ rsays' = "error")
    <3>1. \/ rpc' = "has" /\ UNCHANGED <<rsays, rcalm>>
          \/ ReaderEnds("error")
      BY <1>3, Zenon DEF ResolvesRelease
    <3> QED
      BY <3>1 DEF ReaderEnds
  <2> QED
    BY <2>1, <2>2 DEF CountInv, SameStore
<1>4. CASE NextImage
  <2>1. rpc = "image" /\ rcalm /\ nthImage # 0 /\ UNCHANGED <<data, linked, tagged, reader>>
    BY <1>4 DEF NextImage, registryVars, store, ViewInv, PlaceInv
  <2>2. CASE nthImage > Len(Images)
    <3>1. rpc' = "done" /\ counted' = counted /\ Images' = Images
      BY <1>4, <2>1, <2>2 DEF NextImage, ReaderEnds, Images
    <3>2. \A k \in DOMAIN Images : Right(Images[k])
      BY <2>1, <2>2, AtImage DEF CountInv
    <3>3. \A i : Right(i) => Right(i)'
      BY <2>1, <3>1 DEF Right, Concerns, Verdict, TagThere, Complete, Local
    <3>4. \A k \in DOMAIN Images' : Right(Images[k])'
      BY <3>1, <3>2, <3>3 DEF Right
    <3> QED
      BY <3>1, <3>4 DEF CountInv
  <2>3. CASE nthImage <= Len(Images)
    <3> DEFINE i == Images[nthImage]
    <3>0. SameStore /\ rsays' = rsays /\ Images' = Images
      <4>1. ~(nthImage > Len(Images))
        BY <2>1, <2>3, AtImage, ImagesFacts
      <4>2. snap' = snap /\ rsays' = rsays
        BY <1>4, <4>1 DEF NextImage
      <4> QED
        BY <2>1, <4>2 DEF SameStore, Images
    <3>1. Looking = i /\ i \in Image /\ nthImage \in Nat
      BY <2>1, <2>3, AtImage
    <3>2. CASE /\ ~Concerns(i)
               /\ \E as \in Counts : counted' = [counted EXCEPT ![i] = as]
               /\ nthImage' = nthImage + 1 /\ rpc' = "image"
      <4>1. ASSUME NEW j \in Image, j = i \/ Right(j) PROVE Right(j)'
        <5>1. j = i => ~Concerns(j)'
          BY <3>0, <3>2, SameVerdict
        <5>2. j # i => counted'[j] = counted[j]
          BY <3>1, <3>2 DEF CoverageTypeOK
        <5> QED
          BY <3>0, <4>1, <5>1, <5>2, SameVerdict DEF Right
      <4>2. \A k \in 1 .. nthImage' - 1 : k = nthImage \/ k \in 1 .. nthImage - 1
        BY <3>1, <3>2
      <4>3. \A k \in 1 .. nthImage - 1 : Images[k] \in Image /\ Right(Images[k])
        BY <2>1, AtImage DEF CountInv
      <4>4. \A k \in 1 .. nthImage' - 1 : \A j : j = Images[k] => Right(j)'
        BY <3>1, <4>1, <4>2, <4>3
      <4>5. \A k \in 1 .. nthImage' - 1 : Right(Images[k])'
        BY <3>0, <4>4 DEF Right
      <4> QED
        BY <2>1, <3>0, <3>2, <4>5 DEF CountInv, SameStore
    <3>3. CASE /\ Concerns(i) /\ rpc' \in {"has", "tag"} /\ (rpc' = "has" <=> i \notin ByTag)
               /\ check' = <<Top[i]>> /\ UNCHANGED <<nthImage, counted>>
      <4>1. Looking' = i
        BY <2>1, <3>0, <3>1, <3>3 DEF Looking
      <4>2. \A j : Right(j)' <=> Right(j)
        BY <3>0, <3>3, SameVerdict
      <4>3. \A k \in 1 .. nthImage - 1 : Right(Images[k])'
        BY <2>1, <3>0, <4>2 DEF CountInv
      <4>4. Top[i] \in NeededOf(i) /\ DOMAIN <<Top[i]>> = {1} /\ <<Top[i]>>[1] = Top[i]
        BY <3>1 DEF NeededOf, Needs
      <4>5. Needing(check)'
        BY <3>3, <4>1, <4>4 DEF Needing
      <4>6. Concerns(Looking)' /\ (rpc' = "has" => TagThere(Looking)')
            /\ (rpc' = "tag" => Looking' \in ByTag)
        BY <3>0, <3>3, <4>1 DEF Concerns, TagThere, SameStore
      <4> QED
        BY <2>1, <3>0, <3>3, <4>1, <4>3, <4>5, <4>6 DEF CountInv, SameStore
    <3> QED
      BY <1>4, <2>1, <2>3, <3>2, <3>3 DEF NextImage, Concerns, Counts, CoverageTypeOK
  <2> QED
    BY <2>1, <2>2, <2>3, AtImage, ImagesFacts
<1> QED
  BY <1>1, <1>2, <1>3, <1>4

\* A tag is on disk, or the image is missing.
LEMMA CountResolves ==
    ASSUME CoverageTypeOK, ViewInv, CountInv, rcalm', ResolvesTag
    PROVE  CountInv'
<1>1. rpc = "tag" /\ SameStore /\ rcalm /\ check' = check /\ nthImage # 0
  BY DEF ResolvesTag, registryVars, store, SameStore, CoverageTypeOK, ViewInv, PlaceInv
<1>2. Concerns(Looking) /\ Looking \in Image
  BY <1>1, PlaceFacts DEF CountInv, ViewInv
<1>3. CASE Looking \notin tagged /\ Judged("missing")
  <2>1. Verdict(Looking) = "missing"
    BY <1>1, <1>3 DEF CountInv, Verdict, TagThere
  <2> QED
    BY <1>1, <1>3, <2>1, CountJudged
<1>4. CASE Looking \in tagged /\ rpc' = "has" /\ UNCHANGED <<nthImage, counted, rsays>>
  <2>1. Looking' = Looking /\ Images' = Images /\ At' = At
    BY <1>1, <1>4, SameVerdict DEF Looking, At
  <2>2. \A k \in 1 .. nthImage - 1 : Right(Images[k])'
    BY <1>1, <1>4, <2>1, SameVerdict DEF CountInv, Right
  <2>3. check = <<Top[Looking]>>
    BY <1>1 DEF ViewInv, ImageInv
  <2>4. Top[Looking] \in NeededOf(Looking) /\ DOMAIN <<Top[Looking]>> = {1} /\ <<Top[Looking]>>[1] = Top[Looking]
    BY <1>2 DEF NeededOf, Needs
  <2>5. Needing(check)'
    BY <1>1, <2>1, <2>3, <2>4 DEF Needing
  <2>6. Concerns(Looking)' /\ TagThere(Looking)'
    BY <1>1, <1>2, <1>4, <2>1 DEF Concerns, TagThere, SameStore
  <2> QED
    BY <1>1, <1>4, <2>1, <2>2, <2>3, <2>5, <2>6 DEF CountInv, SameStore
<1> QED
  BY <1>1, <1>3, <1>4 DEF ResolvesTag

\* What is needed of the rest is needed.
LEMMA TailIsNeeded ==
    ASSUME NEW q \in Seq(Item), q # <<>>, Needing(q)
    PROVE  Needing(Tail(q)) /\ Tail(q) \in Seq(Item)
BY HeadAndTail DEF Needing

\* What is needed in two parts is needed.
LEMMA BothAreNeeded ==
    ASSUME NEW p \in Seq(Item), NEW q \in Seq(Item), Needing(p), Needing(q)
    PROVE  Needing(p \o q) /\ p \o q \in Seq(Item)
<1>1. /\ p \o q \in Seq(Item)
      /\ \A k \in DOMAIN (p \o q) :
            \/ k \in DOMAIN p /\ (p \o q)[k] = p[k]
            \/ k - Len(p) \in DOMAIN q /\ (p \o q)[k] = q[k - Len(p)]
  BY Concatenated
<1> DEFINE s == p \o q
<1> HIDE DEF s
<1>2. \A k \in DOMAIN s : (\E j \in DOMAIN p : s[k] = p[j]) \/ (\E j \in DOMAIN q : s[k] = q[j])
  BY <1>1 DEF s
<1>3. Needing(s)
  BY <1>2 DEF Needing
<1> QED
  BY <1>1, <1>3 DEF s

\* A child for another platform is passed over.
LEMMA CountSkips ==
    ASSUME CoverageTypeOK, ViewInv, FullIsStored', CountInv, rcalm', Skips
    PROVE  CountInv'
<1>1. /\ rpc = "has" /\ SameStore /\ rcalm /\ nthImage # 0 /\ OtherPlatform /\ GoesOn(Tail(check))
  BY DEF Skips, registryVars, store, SameStore, OtherPlatform
<1>2. check \in Seq(Item) /\ check # <<>> /\ Head(check) = check[1]
  BY <1>1, PlaceFacts, HeadAndTail DEF ViewInv
<1>3. Needing(Tail(check)) /\ Tail(check) \in Seq(Item)
  BY <1>1, <1>2, TailIsNeeded DEF CountInv
<1>4. check # <<Top[Looking]>>
  BY <1>1, <1>2 DEF OtherPlatform
<1>5. Local(At, Top[Looking])
  BY <1>1, <1>4 DEF CountInv
<1> QED
  BY <1>1, <1>3, <1>5, CountGoesOn

\* Something is found, or the verdict is that it is not there.
LEMMA CountHas ==
    ASSUME CoverageTypeOK, ViewInv, FullIsStored', CountInv, rcalm', Has
    PROVE  CountInv'
<1> DEFINE d == Head(check)
           first == nthImage # 0 /\ d = Top[Looking]
<1>1. /\ SameStore /\ rpc = "has" /\ ~OtherPlatform
  BY DEF Has, registryVars, store, SameStore
<1>2. /\ check \in Seq(Item) /\ check # <<>> /\ d \in Item /\ d = check[1] /\ 1 \in DOMAIN check
      /\ Looking \in Image /\ At = RepoOf[Looking]
  BY <1>1, PlaceFacts, HeadAndTail DEF ViewInv, At
<1>3. PICK there \in IF d \in snap THEN LinkedThere(d) ELSE {{}} :
        /\ rcalm' = (rcalm /\ (d \in snap => there = Truly(d)))
        /\ IF ~StoredHere(d, there)
           THEN Judged(IF first THEN "missing" ELSE "manifest") /\ UNCHANGED check
           ELSE IF d \in Manifest \/ nthImage = 0
           THEN rpc' = "read" /\ UNCHANGED <<nthImage, check, counted, rsays>>
           ELSE GoesOn(Tail(check))
  BY Zenon DEF Has
<1>4. rcalm /\ snap = data
  BY <1>1, <1>3 DEF CountInv
<1>5. StoredHere(d, there) <=> Local(At, d)
  <2>1. d \in Manifest \/ d \in Blob
    BY <1>2 DEF Item
  <2>2. d \in snap => (d \in there <=> d \in linked[At])
    BY <1>3, <2>1 DEF Truly
  <2> QED
    BY <1>4, <2>2 DEF StoredHere, Local
<1>6. nthImage # 0 => d \in NeededOf(Looking) /\ Concerns(Looking) /\ TagThere(Looking) /\ Needing(check)
                      /\ (check = <<Top[Looking]>> \/ Local(At, Top[Looking]))
  BY <1>1, <1>2, <1>4 DEF CountInv, Needing, OtherPlatform
<1>7. CASE ~StoredHere(d, there)
  <2>1. nthImage # 0 => ~Complete(Looking)
    BY <1>2, <1>5, <1>6, <1>7 DEF Complete, Local
  <2>2. first => Verdict(Looking) = "missing"
    BY <1>2, <1>5, <1>7, <2>1 DEF Verdict
  <2>3. nthImage # 0 /\ ~first => Local(At, Top[Looking])
    BY <1>2, <1>6
  <2>4. nthImage # 0 /\ ~first => Verdict(Looking) = "manifest"
    BY <1>2, <1>6, <2>1, <2>3 DEF Verdict
  <2>5. Judged(IF first THEN "missing" ELSE "manifest")
    BY <1>3, <1>7
  <2>6. nthImage # 0 => (IF first THEN "missing" ELSE "manifest") = Verdict(Looking)
    BY <2>2, <2>4
  <2> QED
    BY <1>1, <1>4, <2>5, <2>6, CountJudged
<1>8. CASE StoredHere(d, there) /\ (d \in Manifest \/ nthImage = 0)
  <2>1. rpc' = "read" /\ UNCHANGED <<nthImage, check, counted, rsays>>
    BY <1>3, <1>8
  <2>2. Looking' = Looking /\ At' = At /\ Images' = Images
    BY <1>1, <2>1, SameVerdict DEF Looking, At
  <2>3. nthImage # 0 => \A k \in 1 .. nthImage - 1 : Right(Images[k])'
    BY <1>1, <1>4, <2>1, <2>2, SameVerdict DEF CountInv, Right
  <2>4. nthImage # 0 => (Needing(check) /\ Concerns(Looking) /\ TagThere(Looking))'
                        /\ (check = <<Top[Looking]>> \/ Local(At, Top[Looking]))'
    BY <1>1, <1>6, <2>1, <2>2 DEF Needing, Concerns, TagThere, Local, SameStore
  <2>5. ~OtherPlatform'
    BY <1>1, <2>1, <2>2 DEF OtherPlatform
  <2>6. rsays' = "none" /\ snap' = data'
    BY <1>1, <1>4, <2>1 DEF CountInv, SameStore
  <2> QED
    BY <2>1, <2>3, <2>4, <2>5, <2>6 DEF CountInv
<1>9. CASE StoredHere(d, there) /\ d \notin Manifest /\ nthImage # 0
  <2>1. GoesOn(Tail(check))
    BY <1>3, <1>9
  <2>2. Needing(Tail(check)) /\ Tail(check) \in Seq(Item)
    BY <1>2, <1>6, <1>9, TailIsNeeded
  <2>3. Top[Looking] \in Manifest /\ check # <<Top[Looking]>>
    BY <1>2, <1>9, RegistryAssumption
  <2> QED
    BY <1>1, <1>4, <1>6, <1>9, <2>1, <2>2, <2>3, CountGoesOn
<1> QED
  BY <1>7, <1>8, <1>9

\* What a manifest of the image lists is needed, or is for another platform.
LEMMA ListIsNeeded ==
    ASSUME NEW i \in Image, NEW m \in Manifest, m \in NeededOf(i), NEW e \in Listed(m)
    PROVE  e \in NeededOf(i) \/ e \in Manifest \ (Matching \cup {Top[i]})
<1>1. Top[i] \in Manifest
  BY RegistryAssumption
<1>2. CASE m = Top[i]
  BY <1>1, <1>2, ListedFacts DEF NeededOf, Needs
<1>3. CASE m # Top[i]
  <2>1. \/ m \in Listed(Top[i]) /\ (Top[i] \in Index => m \in Matching)
        \/ \E c \in Listed(Top[i]) \cap Matching : Top[i] \in Index /\ m \in Listed(c)
    BY <1>3, NeededFacts
  <2>2. Top[i] \in Index /\ m \in Listed(Top[i]) \cap Matching
    BY <1>1, <2>1, ListedFacts, Kinds
  <2> QED
    BY <2>2 DEF NeededOf, Needs
<1> QED
  BY <1>2, <1>3

\* A manifest that was found is read, and what it lists is looked for next.
LEMMA CountReads ==
    ASSUME CoverageTypeOK, ViewInv, FullIsStored', CountInv, rcalm', Reads
    PROVE  CountInv'
<1> DEFINE d == Head(check)
<1>1. rpc = "read" /\ Local(At, d)
  BY ReadIsLocal DEF Reads
<1>2. /\ SameStore /\ check \in Seq(Item) /\ check # <<>> /\ d \in Item /\ d = check[1] /\ 1 \in DOMAIN check
      /\ Looking \in Image /\ At = RepoOf[Looking]
  BY <1>1, PlaceFacts, HeadAndTail DEF ViewInv, At, Reads, SameStore
<1>3. rcalm /\ \/ nthImage = 0 /\ GoesOn(Tail(check))
               \/ nthImage # 0 /\ d \in Index /\ Listed(d) \cap Matching = {} /\ Judged("manifest")
               \/ nthImage # 0 /\ ~(d \in Index /\ Listed(d) \cap Matching = {}) /\ GoesOn(Lists[d] \o Tail(check))
  BY DEF Reads, Needed
<1>4. CASE nthImage = 0
  <2>1. Tail(check) \in Seq(Item)
    BY <1>2, HeadAndTail
  <2> QED
    BY <1>1, <1>2, <1>3, <1>4, <2>1, CountGoesOn
<1>5. CASE nthImage # 0
  <2>1. /\ TagThere(Looking) /\ Needing(check) /\ (check = <<Top[Looking]>> \/ Local(At, Top[Looking]))
        /\ ~OtherPlatform /\ d \in Manifest
    BY <1>1, <1>3, <1>5 DEF CountInv, ViewInv, ReadInv
  <2>2. d \in NeededOf(Looking)
    BY <1>2, <1>5, <2>1 DEF Needing, OtherPlatform
  <2>3. Local(At, Top[Looking])
    BY <1>1, <1>2, <2>1
  <2>4. CASE d \in Index /\ Listed(d) \cap Matching = {} /\ Judged("manifest")
    <3>1. d = Top[Looking]
      BY <1>1, <1>2, <1>5, <2>4 DEF ViewInv, ImageInv, Accounted
    <3>2. ~Complete(Looking)
      BY <2>4, <3>1 DEF Complete
    <3>3. Verdict(Looking) = "manifest"
      BY <1>2, <2>1, <2>3, <3>2 DEF Verdict
    <3> QED
      BY <1>1, <1>2, <1>3, <2>4, <3>3, CountJudged
  <2>5. CASE GoesOn(Lists[d] \o Tail(check))
    <3>1. Lists[d] \in Seq(Item) /\ Tail(check) \in Seq(Item) /\ Needing(Tail(check))
      BY <1>2, <2>1, ListedFacts, TailIsNeeded
    <3>2. Needing(Lists[d])
      BY <1>2, <2>1, <2>2, ListedFacts, ListIsNeeded DEF Needing
    <3>3. Needing(Lists[d] \o Tail(check)) /\ Lists[d] \o Tail(check) \in Seq(Item)
      BY <3>1, <3>2, BothAreNeeded
    <3> QED
      BY <1>1, <1>2, <1>3, <2>3, <2>5, <3>3, CountGoesOn
  <2> QED
    BY <1>3, <1>5, <2>4, <2>5
<1> QED
  BY <1>4, <1>5

\* The reader's steps
LEMMA ReaderCounts ==
    ASSUME RegistryTypeOK, CoverageTypeOK, ViewInv, CountInv, CoverageStep
    PROVE  CountInv'
<1>1. FullIsStored'
  BY ReaderKeeps DEF ViewInv
<1>2. CASE rcalm'
  BY <1>1, <1>2, CountStarts, CountResolves, CountSkips, CountHas, CountReads DEF CoverageStep
<1>3. ASSUME rpc' # "done" PROVE rsays' = "none"
  <2>1. rsays = "none"
    BY <1>3 DEF CoverageStep, ReaderBegins, Opens, ResolvesRelease, NextImage, ResolvesTag, Skips, Has, Reads, CountInv
  <2>2. \A as : Judged(as) => rsays' = rsays
    BY <1>3 DEF Judged, ReaderEnds
  <2>3. \A rest : GoesOn(rest) => rsays' = rsays
    BY <1>3, <2>2 DEF GoesOn
  <2> USE <1>3, <2>2, <2>3 DEF ReaderEnds
  <2>4. ReaderBegins("coverage") \/ ReaderBegins("verify") \/ Opens \/ ResolvesRelease \/ NextImage \/ ResolvesTag \/ Skips
          => rsays' = rsays
    BY DEF ReaderBegins, Opens, ResolvesRelease, NextImage, ResolvesTag, Skips
  <2>5. Has => rsays' = rsays
    BY DEF Has
  <2>6. Reads => rsays' = rsays
    BY DEF Reads
  <2> QED
    BY <2>1, <2>4, <2>5, <2>6 DEF CoverageStep
<1> QED
  BY <1>2, <1>3 DEF CountInv

-----------------------------------------------------------------------------
(* The theorems                                                            *)

CalmInv == InventoryInv /\ WarmInv /\ TokenInv /\ TagInv /\ StoredInv /\ ListInv /\ CountInv

\* Initially nothing is pulled, listed or read.
LEMMA CalmStarts == Init => CalmInv
<1> SUFFICES ASSUME Init PROVE CalmInv
  OBVIOUS
<1>1. WarmInv /\ TokenInv
  BY DEF Init, PullInit, WarmInv, TokenInv, CalmPullSucceeds
<1>2. ListInv /\ CountInv
  BY DEF Init, ListingInit, ListInv, CoverageInit, CountInv
<1>3. PICK warm \in Warm :
        /\ linked = [r \in Repo |-> Orphans[r] \cup UNION {All(i) : i \in {j \in warm : RepoOf[j] = r}}]
        /\ data = UNION {linked[r] : r \in Repo}
        /\ tagged = warm \cap ByTag
  BY DEF Init, RegistryInit
<1>4. StoredInv
  BY <1>3 DEF StoredInv
<1>5. ASSUME NEW i \in tagged PROVE RepoOf[i] \notin Relayed /\ linked[RepoOf[i]] # {}
  <2>1. i \in warm /\ i \in Image /\ RepoOf[i] \in Repo /\ RepoOf[i] \notin Relayed
    BY <1>3, RegistryAssumption
  <2>2. Top[i] \in All(i)
    BY DEF All
  <2>3. Top[i] \in UNION {All(j) : j \in {k \in warm : RepoOf[k] = RepoOf[i]}}
    BY <2>1, <2>2
  <2>4. Top[i] \in linked[RepoOf[i]]
    BY <1>3, <2>1, <2>3
  <2> QED
    BY <2>1, <2>4
<1> QED
  BY <1>1, <1>2, <1>4, <1>5, InventoryStarts DEF CalmInv, TagInv

\* Each step of the four actors
LEMMA CalmKeeps == CalmInv /\ [Next]_vars => CalmInv'
<1> SUFFICES ASSUME CalmInv, [Next]_vars PROVE CalmInv'
  OBVIOUS
<1>1. /\ InventoryInv' /\ RegistryTypeOK /\ LinkedInv /\ PullTypeOK /\ CoverageTypeOK /\ ListingTypeOK /\ ViewInv
      /\ WarmInv /\ TokenInv /\ TagInv /\ StoredInv /\ ListInv /\ CountInv
  BY InventoryKeeps DEF CalmInv, InventoryInv, TypeOK
<1>2. ASSUME UNCHANGED pullVars PROVE TokenInv'
  <2>1. UNCHANGED <<ppc, creds, nth, todo, atTop, retried, token, psays, pcalm>>
    BY <1>2 DEF pullVars
  <2> QED
    BY <1>1, <2>1 DEF TokenInv, Asked, Here, Challengeable, CalmPullSucceeds
<1>3. ASSUME UNCHANGED pullVars, StoreStep, tagged' = tagged
      PROVE  WarmInv' /\ TokenInv' /\ StoredInv' /\ TagInv'
  BY <1>1, <1>2, <1>3, WarmBeside, LinksStay
<1>4. registryVars' = registryVars => StoreStep /\ tagged' = tagged
  BY DEF registryVars, store, StoreStep
<1>5. ASSUME ListsBeside PROVE ListInv'
  <2>1. /\ UNCHANGED <<lpc, catalog, repos, repo, revs, unread, indexes, shown>>
        /\ lcalm' => lcalm /\ UNCHANGED <<data, linked, tagged>>
    BY <1>5 DEF ListsBeside, listingVars, Quiet, registryVars, store
  <2>2. lpc = "idle" => shown = {} /\ ~lcalm
    BY <1>1 DEF ListInv
  <2>3. CASE lcalm'
    <3>1. lcalm /\ UNCHANGED <<data, linked, tagged, lpc, catalog, repos, repo, revs, unread, indexes, shown>>
      BY <2>1, <2>3
    <3>2. /\ \A r : TagsOf(r)' = TagsOf(r) /\ RevsOf(r)' = RevsOf(r) /\ Told(r)' = Told(r)
          /\ Pages(Cached)' = Pages(Cached)
      BY <3>1 DEF TagsOf, RevsOf, Told, Pages, Cached
    <3>3. \A r, x : Shown(r, x)' <=> Shown(r, x)
      BY <3>1 DEF Shown
    <3>4. \A r : (Lines(r)' <=> Lines(r)) /\ (NoChildren(r)' <=> NoChildren(r))
      BY <3>1, <3>2, <3>3 DEF Lines, NoChildren, NoLineBelow
    <3> QED
      BY <1>1, <2>2, <3>1, <3>2, <3>3, <3>4 DEF ListInv, AtRepo
  <2>4. CASE ~lcalm'
    BY <2>1, <2>2, <2>4 DEF ListInv
  <2> QED
    BY <2>3, <2>4
<1>0. ASSUME CountsBeside PROVE CountInv'
  <2>1. UNCHANGED coverageVars /\ (rcalm' => rcalm /\ UNCHANGED <<data, linked, tagged>>)
    BY <1>0 DEF CountsBeside, Quiet, registryVars, store
  <2>2. CASE rcalm'
    <3>1. rcalm /\ SameStore /\ UNCHANGED <<rpc, nthImage, check, counted, rsays>>
      BY <2>1, <2>2 DEF coverageVars, SameStore
    <3>2. Looking' = Looking /\ At' = At /\ Images' = Images /\ (OtherPlatform' <=> OtherPlatform)
      BY <3>1 DEF Looking, At, Images, OtherPlatform, SameStore
    <3>3. Concerns(Looking)' = Concerns(Looking) /\ TagThere(Looking)' = TagThere(Looking)
      BY <3>1, <3>2 DEF Concerns, TagThere, SameStore
    <3>4. Needing(check)' <=> Needing(check)
      BY <3>1, <3>2 DEF Needing
    <3>5. Local(At, Top[Looking])' <=> Local(At, Top[Looking])
      BY <3>1, <3>2 DEF Local, SameStore
    <3>6. \A i : Right(i)' <=> Right(i)
      BY <3>1, SameVerdict
    <3>7. (\A k \in 1 .. nthImage - 1 : Right(Images[k])) => (\A k \in 1 .. nthImage - 1 : Right(Images[k]))'
      BY <3>1, <3>2, <3>6 DEF Right
    <3>8. (\A k \in DOMAIN Images : Right(Images[k])) => (\A k \in DOMAIN Images : Right(Images[k]))'
      BY <3>1, <3>2, <3>6 DEF Right
    <3> QED
      BY <1>1, <3>1, <3>2, <3>3, <3>4, <3>5, <3>7, <3>8 DEF CountInv, SameStore
  <2>3. CASE ~rcalm'
    BY <1>1, <2>1, <2>3 DEF CountInv, coverageVars
  <2> QED
    BY <2>2, <2>3
<1>6. CASE Pulling
  BY <1>0, <1>1, <1>5, <1>6, PullWarms, PullKeepsToken, PullTags DEF Pulling, CalmInv
<1>7. CASE Counting
  BY <1>1, <1>3, <1>5, <1>7, ReaderKeeps, ReaderCounts DEF Counting, CalmInv
<1>8. CASE Showing
  <2>1. registryVars' = registryVars
    BY <1>8 DEF Showing, ListingStep, ListBegins, NextRepo, ListsTags, ListsRevisions, LooksInto, ShowsRevisions
  <2> QED
    BY <1>0, <1>1, <1>3, <1>4, <1>8, <2>1, ListingSees DEF Showing, CalmInv
<1>9. CASE Cleaning
  <2>1. tagged' = tagged
    BY <1>9 DEF Cleaning, Gc, Stop, Sweep, Start, store
  <2> QED
    BY <1>0, <1>1, <1>3, <1>5, <1>9, <2>1, GcKeeps DEF Cleaning, CalmInv
<1>10. CASE UNCHANGED vars
  <2>1. ListsBeside /\ CountsBeside
    BY <1>1, <1>10 DEF vars, ListsBeside, CountsBeside, Quiet, ListingTypeOK, CoverageTypeOK
  <2> QED
    BY <1>0, <1>1, <1>3, <1>4, <1>5, <1>10, <2>1 DEF vars, CalmInv
<1> QED
  BY <1>6, <1>7, <1>8, <1>9, <1>10 DEF Next

\* What a pull has got, the tokens it has and what a listing has shown, inductively.
THEOREM CalmInvariant == Spec => []CalmInv
<1> QED
  BY CalmStarts, CalmKeeps, PTL DEF Spec

\* A pull with good credentials in which nothing goes wrong does not fail, for
\* any images and whatever is in the cache already, if each of its private
\* images meets a challenge before a token is needed.
THEOREM CalmPullsSucceed == Spec => []CalmPullSucceeds
<1>1. CalmInv => CalmPullSucceeds
  BY DEF CalmInv, TokenInv
<1> QED
  BY <1>1, CalmInvariant, PTL

\* When a pull has succeeded and each blob was stored, the whole images are on
\* disk and linked then and from then on, also beside gc, which may have run
\* between any two requests.
THEOREM PulledImagesAreWhole == Spec => []PulledIsWhole
<1>1. CalmInv => PulledIsWhole
  BY HeldIsWhole DEF CalmInv
<1> QED
  BY <1>1, CalmInvariant, PTL

\* A listing beside which nothing happens shows, of each repository that the cache
\* names, every image on disk that was pulled by tag, or the manifests that say they
\* are indexes, or all; and no child of an index where the indexes can be told.
THEOREM CalmListsAreTrue == Spec => []CalmListIsTrue
<1>1. CalmInv => CalmListIsTrue
  <2> SUFFICES ASSUME CalmInv, lpc = "done", lcalm PROVE CalmListIsTrue
    BY DEF CalmListIsTrue
  <2>1. ListingTypeOK /\ ListInv
    BY DEF CalmInv, InventoryInv, TypeOK
  <2>2. catalog \subseteq Repo /\ catalog \in Pages(Cached)
    BY <2>1 DEF ListInv, ListingTypeOK
  <2>3. \A r \in catalog : Lines(r) /\ NoChildren(r)
    BY <2>1, <2>2 DEF ListInv, AtRepo
  <2>4. Cardinality(Cached) <= Page => catalog = Cached
    BY <2>2 DEF Pages
  <2> QED
    BY <2>3, <2>4 DEF CalmListIsTrue, Lines, NoChildren
<1> QED
  BY <1>1, CalmInvariant, PTL

\* A reading beside which nothing happens counts exactly the images that are on
\* disk, whole or as a manifest, for any list and any images.
THEOREM CalmCountsAreExact == Spec => []CalmCountIsExact
<1>1. CalmInv => CalmCountIsExact
  <2> SUFFICES ASSUME CalmInv, rsays = "ok", rcalm, NEW k \in DOMAIN Images,
                      NEW i, i = Images[k], RepoOf[i] \notin Relayed, i \in ByTag => reader = "verify"
               PROVE  counted[i] = IF (i \in ByTag => i \in tagged) /\ Complete(i) THEN "full"
                                   ELSE IF (i \in ByTag => i \in tagged) /\ Local(RepoOf[i], Top[i]) THEN "manifest"
                                   ELSE "missing"
    BY DEF CalmCountIsExact
  <2>1. rpc = "done"
    BY DEF CalmInv, CountInv
  <2>2. Right(i) /\ Concerns(i)
    BY <2>1 DEF CalmInv, CountInv, Concerns
  <2> QED
    BY <2>2 DEF Right, Verdict, TagThere
<1> QED
  BY <1>1, CalmInvariant, PTL

-----------------------------------------------------------------------------
(* Images that are whole                                                   *)

\* What is whole is held by its own manifests.
LEMMA WholeIsHeld == ASSUME RegistryTypeOK, NEW i \in Image PROVE WholeHere(i) <=> HasAll(i)
<1>1. HasAll(i) => WholeHere(i)
  BY WholeMeans DEF HasAll, Held
<1>2. ASSUME WholeHere(i), NEW d \in All(i), Keeps(RepoOf[i], d) PROVE Held(RepoOf[i], d)
  <2>1. Local(RepoOf[i], d)
    BY <1>2, WholeMeans
  <2>2. CASE RepoOf[i] \in Relayed \/ d \in Manifest
    BY <2>1, <2>2 DEF Held
  <2>3. CASE RepoOf[i] \notin Relayed /\ d \notin Manifest
    <3>1. Top[i] \in Manifest
      BY RegistryAssumption
    <3>2. \E m \in All(i) \cap Manifest : d \in Listed(m)
      BY <1>2, <2>3, <3>1 DEF All
    <3>3. \A m \in All(i) \cap Manifest : m \in data
      BY <1>2, <2>3, WholeMeans DEF Keeps, Local
    <3> QED
      BY <2>1, <3>2, <3>3 DEF Held
  <2> QED
    BY <2>2, <2>3
<1> QED
  BY <1>1, <1>2 DEF HasAll

\* A step takes nothing from an image that is whole, or complete for the platform.
ImagesStay == \A i \in Image : (WholeHere(i) => WholeHere(i)') /\ (Complete(i) => Complete(i)')

\* No step of a pull, of a reader or of gc, whatever fails and however they are
\* interleaved, takes anything from an image that is whole on disk, nor from one
\* that is complete for the platform.
THEOREM WholeImagesStay == Spec => [][ImagesStay]_vars
<1>1. InventoryInv /\ InventoryInv' /\ [Next]_vars => ImagesStay
  <2> SUFFICES ASSUME InventoryInv, InventoryInv', [Next]_vars, NEW i \in Image
               PROVE  (WholeHere(i) => WholeHere(i)') /\ (Complete(i) => Complete(i)')
    BY DEF ImagesStay
  <2>1. RegistryTypeOK /\ RegistryTypeOK' /\ LinkedInv /\ StoreStep
    BY StepOfStore DEF InventoryInv, TypeOK
  <2>2. Complete(i) => Complete(i)'
    BY <2>1, StoreIsKept, CompleteStays
  <2>3. HasAll(i) => HasAll(i)'
    BY <2>1, GotStays
  <2>4. WholeHere(i) => HasAll(i)
    BY <2>1, WholeIsHeld
  <2>5. HasAll(i)' => WholeHere(i)'
    BY DEF HasAll, WholeHere, KeptOf, Held, Local
  <2> QED
    BY <2>2, <2>3, <2>4, <2>5
<1> QED
  BY <1>1, InventoryInvariant, PTL DEF Spec

-----------------------------------------------------------------------------
(* Pulls come to an end.  That each step of a pull brings it nearer to its  *)
(* end is a fact about single steps; PullReturns, which needs an induction  *)
(* over the order below, is left to the model checker.                      *)

\* Where in q, counted from its end, there is something of S
Ahead(S, q) == {Len(q) - k : k \in {j \in DOMAIN q : q[j] \in S}}
Smaller(A, B) == A \subseteq B /\ A # B

\* A manifest is asked for, asked for again, or being authenticated for.
Tries == CASE ppc = "ask" /\ ~retried -> 2 [] ppc = "mint" -> 1 [] OTHER -> 0

\* A pull is over, at the next image, or nearer to the end of this one: it has
\* fewer indexes ahead of it, or else fewer manifests, or fewer items, or fewer
\* tries for the same item.  Each is finite, so this order has no infinite
\* descent.
PullGoesOn ==
    /\ ppc \notin {"idle", "done"}
    /\ \/ ppc' = "done"
       \/ nth < nth' /\ nth' <= Len(Refs) + 1
       \/ nth' = nth /\ ppc = "client" /\ ppc' = "ask"
       \/ /\ nth' = nth /\ ppc # "client" /\ ppc' # "client"
          /\ \/ Smaller(Ahead(Index, todo'), Ahead(Index, todo))
             \/ /\ Ahead(Index, todo') = Ahead(Index, todo)
                /\ Smaller(Ahead(Manifest, todo'), Ahead(Manifest, todo))
             \/ /\ Ahead(Index, todo') = Ahead(Index, todo)
                /\ Ahead(Manifest, todo') = Ahead(Manifest, todo)
                /\ Len(todo') < Len(todo)
             \/ todo' = todo /\ Tries' < Tries

\* What is at place k of p followed by t
LEMMA PartsOf ==
    ASSUME NEW p \in Seq(Item), NEW t \in Seq(Item)
    PROVE  /\ \A k \in DOMAIN t : Len(p) + k \in DOMAIN (p \o t) /\ (p \o t)[Len(p) + k] = t[k]
           /\ \A k \in DOMAIN (p \o t) : \/ k \in DOMAIN p /\ (p \o t)[k] = p[k]
                                         \/ k - Len(p) \in DOMAIN t /\ (p \o t)[k] = t[k - Len(p)]
<1>1. /\ Len(p) \in Nat /\ Len(t) \in Nat /\ DOMAIN p = 1 .. Len(p) /\ DOMAIN t = 1 .. Len(t)
      /\ DOMAIN (p \o t) = 1 .. (Len(p) + Len(t))
  OBVIOUS
<1>2. ASSUME NEW k \in DOMAIN t
      PROVE  Len(p) + k \in DOMAIN (p \o t) /\ (p \o t)[Len(p) + k] = t[k]
  BY <1>1
<1>3. ASSUME NEW k \in DOMAIN (p \o t)
      PROVE  \/ k \in DOMAIN p /\ (p \o t)[k] = p[k]
             \/ k - Len(p) \in DOMAIN t /\ (p \o t)[k] = t[k - Len(p)]
  BY <1>1
<1> QED
  BY <1>2, <1>3

\* The head of q gives way to p, in which there is nothing of S.
LEMMA AheadOfRest ==
    ASSUME NEW S, NEW q \in Seq(Item), q # <<>>, NEW p \in Seq(Item), \A k \in DOMAIN p : p[k] \notin S
    PROVE  /\ q[1] \in S => Smaller(Ahead(S, p \o Tail(q)), Ahead(S, q))
           /\ q[1] \notin S => Ahead(S, p \o Tail(q)) = Ahead(S, q)
<1> DEFINE t == Tail(q)
           r == p \o t
<1>1. /\ t \in Seq(Item) /\ 1 \in DOMAIN q /\ Len(t) = Len(q) - 1
      /\ \A k \in DOMAIN t : k + 1 \in DOMAIN q /\ t[k] = q[k + 1]
      /\ \A k \in DOMAIN q : k # 1 => k - 1 \in DOMAIN t /\ q[k] = t[k - 1]
  BY HeadAndTail
<1>2. /\ Len(p) \in Nat /\ Len(q) \in Nat /\ Len(t) \in Nat /\ DOMAIN q \subseteq Nat /\ DOMAIN t \subseteq Nat
      /\ DOMAIN p \subseteq Nat /\ DOMAIN r \subseteq Nat
  <2>1. r \in Seq(Item)
    BY <1>1, Concatenated
  <2> QED
    BY <1>1, <2>1
<1> HIDE DEF t
<1>3. Len(r) = Len(p) + Len(q) - 1
  <2>1. t \in Seq(Item)
    BY <1>1
  <2>2. Len(r) = Len(p) + Len(t)
    BY <2>1
  <2> HIDE DEF r
  <2> QED
    BY <1>1, <1>2, <2>2
<1>4. /\ \A k \in DOMAIN t : Len(p) + k \in DOMAIN r /\ r[Len(p) + k] = t[k]
      /\ \A k \in DOMAIN r : r[k] \in S => k - Len(p) \in DOMAIN t /\ r[k] = t[k - Len(p)]
  <2>1. t \in Seq(Item)
    BY <1>1
  <2>2. /\ \A k \in DOMAIN t : Len(p) + k \in DOMAIN (p \o t) /\ (p \o t)[Len(p) + k] = t[k]
        /\ \A k \in DOMAIN (p \o t) : \/ k \in DOMAIN p /\ (p \o t)[k] = p[k]
                                      \/ k - Len(p) \in DOMAIN t /\ (p \o t)[k] = t[k - Len(p)]
    BY <2>1, PartsOf, Zenon
  <2>3. /\ \A k \in DOMAIN t : Len(p) + k \in DOMAIN r /\ r[Len(p) + k] = t[k]
        /\ \A k \in DOMAIN r : \/ k \in DOMAIN p /\ r[k] = p[k]
                               \/ k - Len(p) \in DOMAIN t /\ r[k] = t[k - Len(p)]
    BY <2>2, Zenon
  <2> HIDE DEF r
  <2> QED
    BY <2>3
<1> HIDE DEF r
<1>5. ASSUME NEW k \in DOMAIN r, r[k] \in S
      PROVE  \E j \in DOMAIN q : j # 1 /\ q[j] \in S /\ Len(q) - j = Len(r) - k
  <2>1. k - Len(p) \in DOMAIN t /\ t[k - Len(p)] \in S /\ k \in Nat /\ k - Len(p) \in Nat
    BY <1>2, <1>4, <1>5
  <2>2. k - Len(p) + 1 \in DOMAIN q /\ q[k - Len(p) + 1] \in S
    BY <1>1, <2>1
  <2>3. 0 \notin DOMAIN t
    BY <1>1, <1>2
  <2>4. k - Len(p) + 1 # 1 /\ Len(q) - (k - Len(p) + 1) = Len(r) - k
    BY <1>2, <1>3, <2>1, <2>3
  <2> QED
    BY <2>2, <2>4
<1>6. ASSUME NEW j \in DOMAIN q, j # 1, q[j] \in S
      PROVE  \E k \in DOMAIN r : r[k] \in S /\ Len(r) - k = Len(q) - j
  <2>1. j - 1 \in DOMAIN t /\ t[j - 1] \in S /\ j \in Nat /\ j - 1 \in Nat
    BY <1>1, <1>2, <1>6
  <2>2. Len(p) + (j - 1) \in DOMAIN r /\ r[Len(p) + (j - 1)] \in S
    BY <1>4, <2>1
  <2>3. Len(r) - (Len(p) + (j - 1)) = Len(q) - j
    BY <1>2, <1>3, <2>1
  <2> QED
    BY <2>2, <2>3
<1>7. Ahead(S, r) = {Len(q) - j : j \in {i \in DOMAIN q : i # 1 /\ q[i] \in S}}
  BY <1>5, <1>6 DEF Ahead
<1>8. \A j \in DOMAIN q : j # 1 => Len(q) - j # Len(q) - 1
  BY <1>2
<1>9. CASE q[1] \in S
  <2>1. Len(q) - 1 \in Ahead(S, q)
    BY <1>1, <1>9 DEF Ahead
  <2>2. Len(q) - 1 \notin Ahead(S, r)
    BY <1>7, <1>8
  <2>3. Ahead(S, r) \subseteq Ahead(S, q)
    BY <1>7 DEF Ahead
  <2> QED
    BY <1>9, <2>1, <2>2, <2>3 DEF Smaller, r, t
<1>10. CASE q[1] \notin S
  <2>1. Ahead(S, r) = Ahead(S, q)
    BY <1>7, <1>10 DEF Ahead
  <2> QED
    BY <1>10, <2>1 DEF r, t
<1> QED
  BY <1>9, <1>10

\* Getting something: what it lists is of a lesser kind than itself.
LEMMA GetsGoesOn == ASSUME RegistryTypeOK, PullTypeOK, Gets PROVE PullGoesOn
<1>1. /\ nth \in 1 .. Len(Refs) /\ nth \in Nat /\ Len(Refs) \in Nat /\ todo \in Seq(Item) /\ todo # <<>>
      /\ Asked = todo[1] /\ Asked \in Manifest \cup Blob /\ Follows(Asked) \in Seq(Item) /\ Tail(todo) \in Seq(Item)
      /\ ppc = "ask"
  BY AskedFacts, PullAssumption DEF Gets
<1> DEFINE f == Follows(Asked)
           rest == f \o Tail(todo)
<1>2. todo' = rest /\ IF rest = <<>> THEN ppc' = "client" /\ nth' = nth + 1 ELSE ppc' = ppc /\ nth' = nth
  BY DEF Gets
<1>3. CASE rest = <<>>
  BY <1>1, <1>2, <1>3 DEF PullGoesOn
<1>4. CASE rest # <<>>
  <2>1. ppc' = "ask" /\ nth' = nth
    BY <1>1, <1>2, <1>4
  <2>2. Index \subseteq Manifest /\ Manifest \cap Blob = {}
    BY RegistryAssumption
  <2>3. CASE Asked \in Index
    <3>1. \A k \in DOMAIN f : f[k] \notin Index
      BY <2>2, <2>3, ListedFacts DEF Follows
    <3>2. Smaller(Ahead(Index, rest), Ahead(Index, todo))
      BY <1>1, <2>3, <3>1, AheadOfRest
    <3> QED
      BY <1>1, <1>2, <2>1, <3>2 DEF PullGoesOn
  <2>4. CASE Asked \in Manifest \ Index
    <3>1. \A k \in DOMAIN f : f[k] \notin Manifest /\ f[k] \notin Index
      BY <2>2, <2>4, ListedFacts DEF Follows
    <3>2. Smaller(Ahead(Manifest, rest), Ahead(Manifest, todo)) /\ Ahead(Index, rest) = Ahead(Index, todo)
      BY <1>1, <2>4, <3>1, AheadOfRest
    <3> QED
      BY <1>1, <1>2, <2>1, <3>2 DEF PullGoesOn
  <2>5. CASE Asked \in Blob
    <3>1. f = <<>>
      BY <2>2, <2>5 DEF Follows
    <3>2. Ahead(Manifest, rest) = Ahead(Manifest, todo) /\ Ahead(Index, rest) = Ahead(Index, todo)
      <4>1. \A k \in DOMAIN f : f[k] \notin Manifest /\ f[k] \notin Index
        BY <3>1
      <4> QED
        BY <1>1, <2>2, <2>5, <4>1, AheadOfRest
    <3>3. Len(rest) < Len(todo)
      BY <1>1, <3>1
    <3> QED
      BY <1>1, <1>2, <2>1, <3>2, <3>3 DEF PullGoesOn
  <2> QED
    BY <1>1, <2>3, <2>4, <2>5
<1> QED
  BY <1>3, <1>4

\* Every step of a pull brings it nearer to its end, and nothing but the start of
\* a new one sets it back: not a token that expires, not a gc, not a reader.
PullComesToAnEnd ==
    /\ PullStep => PullGoesOn
    /\ ~PullStep /\ ~PullBegins => UNCHANGED <<ppc, nth, todo, retried>>

THEOREM PullsAreFinite == Spec => [][PullComesToAnEnd]_vars
<1>1. InventoryInv /\ [Next]_vars => PullComesToAnEnd
  <2> SUFFICES ASSUME InventoryInv, [Next]_vars PROVE PullComesToAnEnd
    OBVIOUS
  <2>1. RegistryTypeOK /\ PullTypeOK
    BY DEF InventoryInv, TypeOK
  <2>2. \A how : PullEnds(how) => ppc' = "done"
    BY DEF PullEnds
  <2>3. NewClient => PullGoesOn
    BY <2>2 DEF NewClient, PullGoesOn
  <2>4. Challenged => PullGoesOn
    <3>1. Challenged => ppc = "ask" /\ (ppc' = "done" \/ (~retried /\ ppc' = "mint" /\ nth' = nth /\ todo' = todo))
      BY <2>2 DEF Challenged, AsksAgain, request
    <3> QED
      BY <3>1 DEF PullGoesOn, Tries
  <2>5. Mints => PullGoesOn
    <3>1. Mints => ppc = "mint" /\ (ppc' = "done" \/ (retried' /\ ppc' = "ask" /\ nth' = nth /\ todo' = todo))
      BY <2>2 DEF Mints
    <3> QED
      BY <3>1 DEF PullGoesOn, Tries
  <2>6. RequestFails => PullGoesOn
    BY <2>2 DEF RequestFails, PullGoesOn
  <2>7. PullStep => PullGoesOn
    BY <2>1, <2>3, <2>4, <2>5, <2>6, GetsGoesOn DEF PullStep
  <2>8. Pulling /\ ~PullStep /\ ~PullBegins => UNCHANGED <<ppc, nth, todo, retried>>
    BY DEF Pulling, Expires
  <2>9. Counting \/ Showing \/ Cleaning \/ UNCHANGED vars => UNCHANGED <<ppc, nth, todo, retried>>
    BY DEF Counting, Showing, Cleaning, vars, pullVars
  <2> QED
    BY <2>7, <2>8, <2>9 DEF PullComesToAnEnd, Next
<1> QED
  BY <1>1, InventoryInvariant, PTL DEF Spec
-----------------------------------------------------------------------------
(* The cache is one of the stocks that its clients rely on                 *)

ToldFull == {i \in Image : counted[i] = "full"}
Brought == psays = "ok" /\ pcalm

\* What a step does to the reader's verdicts: no more than judge one image anew.
Judges ==
    \/ counted' = counted
    \/ \E i \in Image, as \in Counts : counted' = [counted EXCEPT ![i] = as]

\* The reader's steps
LEMMA ReaderJudges ==
    ASSUME CoverageTypeOK, ViewInv, CoverageStep
    PROVE  /\ Judges
           /\ data' = data /\ linked' = linked
<1>1. ASSUME NEW as \in Counts, Judged(as), rpc \in {"tag", "has", "read"} PROVE Judges
  <2>1. Looking \in Image
    BY <1>1, PlaceFacts DEF ViewInv
  <2> QED
    BY <1>1, <2>1 DEF Judged, Judges
<1>2. ASSUME NEW q, GoesOn(q), rpc \in {"tag", "has", "read"} PROVE Judges
  <2>1. "full" \in Counts
    BY DEF Counts
  <2> QED
    BY <1>1, <1>2, <2>1 DEF GoesOn, Judges
<1>3. {"none", "full", "manifest", "missing", "elsewhere"} = Counts
  BY DEF Counts
<1>4. CASE \/ ReaderBegins("coverage") \/ ReaderBegins("verify")
           \/ Opens \/ ResolvesRelease
  BY <1>4 DEF ReaderBegins, Opens, ResolvesRelease, Judges, registryVars, store
<1>5. CASE NextImage
  <2>1. data' = data /\ linked' = linked /\ rpc = "image"
    BY <1>5 DEF NextImage, registryVars, store
  <2>2. ~(nthImage > Len(Images)) => Images[nthImage] \in Image
    BY <2>1, AtImage, ImagesFacts DEF ViewInv, PlaceInv
  <2> QED
    BY <1>3, <1>5, <2>1, <2>2 DEF NextImage, Judges
<1>6. CASE ResolvesTag
  <2>1. data' = data /\ linked' = linked /\ rpc = "tag"
    BY <1>6 DEF ResolvesTag, registryVars, store
  <2>2. counted' = counted \/ Judged("missing")
    BY <1>6 DEF ResolvesTag
  <2> QED
    BY <1>1, <1>3, <2>1, <2>2 DEF Judges
<1>7. CASE Skips
  BY <1>2, <1>7 DEF Skips, registryVars, store
<1>8. CASE Has
  <2>1. data' = data /\ linked' = linked /\ rpc = "has"
    BY <1>8 DEF Has, registryVars, store
  <2>2. \/ Judged("missing") \/ Judged("manifest") \/ counted' = counted \/ \E q : GoesOn(q)
    BY <1>8 DEF Has
  <2> QED
    BY <1>1, <1>2, <1>3, <2>1, <2>2 DEF Judges
<1>9. CASE Reads
  <2>1. rpc = "read" /\ Local(At, Head(check))
    BY <1>9, ReadIsLocal DEF Reads
  <2>2. data' = data /\ linked' = linked
    BY <1>9, <2>1 DEF Reads
  <2>3. Judged("manifest") \/ \E q : GoesOn(q)
    BY <1>9 DEF Reads
  <2> QED
    BY <1>1, <1>2, <1>3, <2>1, <2>2, <2>3 DEF Judges
<1> QED
  BY <1>4, <1>5, <1>6, <1>7, <1>8, <1>9 DEF CoverageStep

\* What no step of a pull does: it does not take back that it went well, and when
\* it says so nothing is stored or removed.
LEMMA PullBrings ==
    ASSUME WarmInv, PullBegins \/ PullStep \/ Expires
    PROVE  Brought' = Brought \/ (Brought' /\ NewClient /\ registryVars' = registryVars)
<1>1. CASE PullBegins \/ Expires
  BY <1>1 DEF PullBegins, Expires, Brought, WarmInv
<1>2. CASE NewClient
  BY <1>2 DEF NewClient, Brought, WarmInv, PullEnds
<1>3. CASE Gets \/ Challenged \/ Mints \/ RequestFails
  BY <1>3 DEF Gets, Challenged, Mints, RequestFails, Brought, WarmInv, PullEnds, request
<1> QED
  BY <1>1, <1>2, <1>3 DEF PullStep

\* A step after which no verdict and no pull has changed is a gain, or nothing.
LEMMA StockGains ==
    ASSUME ImagesStay, counted' = counted, Brought' = Brought
    PROVE  Stocked!Next
<1>1. ToldFull' = ToldFull
  BY DEF ToldFull
<1>2. \A i \in Image : (WholeHere(i) => WholeHere(i)') /\ (Complete(i) => Complete(i)')
  BY DEF ImagesStay
<1>3. Stocked!Gain
  BY <1>1, <1>2 DEF Stocked!Gain, ToldFull, Brought
<1> QED
  BY <1>3 DEF Stocked!Next

\* Each step is one that Stock allows.
LEMMA StockStep ==
    ASSUME CalmInv, CalmInv', ImagesStay, [Next]_vars
    PROVE  [Stocked!Next]_(Stocked!vars)
<1>0. /\ CoverageTypeOK /\ ViewInv /\ WarmInv /\ CoverageTypeOK' /\ FullIsStored' /\ PulledIsWhole'
  <2>1. WarmInv' => PulledIsWhole'
    BY HeldIsWhole, PTL
  <2> QED
    BY <2>1 DEF CalmInv, InventoryInv, TypeOK, ViewInv
<1>1. ASSUME data' = data, linked' = linked
      PROVE  /\ \A i \in Image : (WholeHere(i)' <=> WholeHere(i)) /\ (Complete(i)' <=> Complete(i))
             /\ [i \in Image |-> WholeHere(i)]' = [i \in Image |-> WholeHere(i)]
             /\ [i \in Image |-> Complete(i)]' = [i \in Image |-> Complete(i)]
  BY <1>1 DEF WholeHere, Complete
<1>2. CASE Pulling
  <2>1. counted' = counted
    BY <1>2 DEF Pulling, CountsBeside, coverageVars
  <2>2. Brought' = Brought \/ (Brought' /\ registryVars' = registryVars)
    BY <1>0, <1>2, PullBrings DEF Pulling
  <2>3. CASE Brought' /\ registryVars' = registryVars
    <3>1. data' = data /\ linked' = linked
      BY <2>3 DEF registryVars, store
    <3>2. \A k \in DOMAIN Refs : Refs[k] \in Image /\ WholeHere(Refs[k])'
      BY <1>0, <2>3, PullAssumption DEF PulledIsWhole, Brought
    <3>3. \A i \in {Refs[k] : k \in DOMAIN Refs} : i \in Image /\ WholeHere(i)
      BY <1>1, <3>1, <3>2
    <3>4. Stocked!Bring
      BY <1>1, <2>1, <2>3, <3>1, <3>3 DEF Stocked!Bring, Brought
    <3> QED
      BY <3>4 DEF Stocked!Next
  <2> QED
    BY <2>1, <2>2, <2>3, StockGains
<1>3. CASE Counting
  <2>1. /\ Judges /\ data' = data /\ linked' = linked /\ Brought' = Brought
    BY <1>0, <1>3, ReaderJudges DEF Counting, pullVars, Brought
  <2>2. ASSUME NEW i \in Image, NEW as \in Counts, counted' = [counted EXCEPT ![i] = as] PROVE Stocked!Next
    <3>1. counted'[i] = as /\ \A j \in Image : j # i => counted'[j] = counted[j]
      BY <1>0, <2>2 DEF CoverageTypeOK
    <3>2. CASE as = "full"
      <4>1. Complete(i) /\ ToldFull' = ToldFull \cup {i}
        BY <1>0, <1>1, <2>1, <3>1, <3>2 DEF FullIsStored, ToldFull
      <4>2. Stocked!Tell(i)
        BY <1>1, <2>1, <4>1 DEF Stocked!Tell, ToldFull, Brought
      <4> QED
        BY <4>2 DEF Stocked!Next
    <3>3. CASE as # "full"
      <4>1. ToldFull' = ToldFull \ {i}
        BY <3>1, <3>3 DEF ToldFull
      <4>2. Stocked!Retract(i)
        BY <1>1, <2>1, <4>1 DEF Stocked!Retract, ToldFull, Brought
      <4> QED
        BY <4>2 DEF Stocked!Next
    <3> QED
      BY <3>2, <3>3
  <2> QED
    BY <2>1, <2>2, StockGains DEF Judges
<1>4. CASE Showing \/ Cleaning \/ UNCHANGED vars
  <2>1. counted' = counted /\ UNCHANGED pullVars
    BY <1>4 DEF Showing, Cleaning, vars, CountsBeside, coverageVars
  <2>2. Brought' = Brought
    BY <2>1 DEF pullVars, Brought
  <2> QED
    BY <2>1, <2>2, StockGains
<1> QED
  BY <1>2, <1>3, <1>4 DEF Next

\* Whatever fails, and however a pull, a reader and a gc are interleaved, their
\* cache is a stock as Stock has it.
THEOREM CacheImplementsStock == Spec => ImplementsStock
<1>1. Init => Stocked!Init
  <2> SUFFICES ASSUME Init PROVE Stocked!Init
    OBVIOUS
  <2>1. [i \in Image |-> WholeHere(i)] \in [Image -> BOOLEAN] /\ [i \in Image |-> Complete(i)] \in [Image -> BOOLEAN]
    BY DEF WholeHere, Complete
  <2>2. ToldFull = {} /\ Brought = FALSE
    BY DEF Init, CoverageInit, PullInit, ToldFull, Brought
  <2> QED
    BY <2>1, <2>2 DEF Stocked!Init, ToldFull, Brought
<1>2. CalmInv /\ CalmInv' /\ [ImagesStay]_vars /\ [Next]_vars => [Stocked!Next]_(Stocked!vars)
  <2>1. vars' = vars => ImagesStay
    BY DEF vars, registryVars, store, ImagesStay, WholeHere, Complete
  <2> QED
    BY <2>1, StockStep
<1> QED
  BY <1>1, <1>2, CalmInvariant, WholeImagesStay, PTL DEF Spec, ImplementsStock, Stocked!Spec
=============================================================================
