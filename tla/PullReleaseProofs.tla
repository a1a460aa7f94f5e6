-------------------------- MODULE PullReleaseProofs --------------------------
(***************************************************************************)
(* What is proved of PullRelease: for any number of workers and images,    *)
(* any plans, any failures and any doings of other clients.                *)
(***************************************************************************)
EXTENDS PullRelease, TLAPS

\* The parts of the state the arguments below rest on: a blob under way is
\* marked as seen, and while the release image is read no worker runs.
PoolInv ==
    /\ wpc \in [Worker -> {"recv", "next", "fetch", "exit"}]
    /\ DOMAIN img = Worker /\ DOMAIN at = Worker
    /\ seen \subseteq Blob
    /\ \A w \in Worker : Fetching(w) \in Blob => Fetching(w) \in seen
    /\ main \in {"manifest", "layers", "own"} => PoolGone
    /\ OneFetcher
    /\ SeenIsServed

UnderWay == [w \in Worker |-> Fetching(w)]

\* What the fetches under way, the marks and the answers so far have to do with
\* each other: f[w] is what w fetches.
Claims(f, marks, got) ==
    /\ \A v \in Worker : f[v] \in Blob => f[v] \in marks
    /\ \A v, w \in Worker : f[v] \in Blob /\ f[v] = f[w] => v = w
    /\ \A b \in marks : b \in got \/ \E w \in Worker : f[w] = b

\* A worker that fetched nothing marks what was not marked, and fetches it.
LEMMA ClaimKeeps ==
    ASSUME NEW f, NEW marks, NEW got, NEW w \in Worker, NEW x,
           DOMAIN f = Worker, Claims(f, marks, got), f[w] \notin Blob, None \notin Blob, f[w] = None,
           marks \subseteq Blob, x \notin marks
    PROVE  Claims([f EXCEPT ![w] = x], marks \cup ({x} \cap Blob), got)
<1> DEFINE g == [f EXCEPT ![w] = x]
<1>1. g[w] = x /\ \A v \in Worker \ {w} : g[v] = f[v]
  OBVIOUS
<1>2. \A v \in Worker \ {w} : f[v] \in Blob => f[v] # x
  BY DEF Claims
<1> HIDE DEF g
<1>3. \A v \in Worker : g[v] \in Blob => g[v] \in marks \cup ({x} \cap Blob)
  BY <1>1 DEF Claims
<1>4. \A u, v \in Worker : g[u] \in Blob /\ g[u] = g[v] => u = v
  BY <1>1, <1>2 DEF Claims
<1>5. \A b \in marks \cup ({x} \cap Blob) : b \in got \/ \E v \in Worker : g[v] = b
  <2> TAKE b \in marks \cup ({x} \cap Blob)
  <2>1. CASE b = x
    BY <1>1, <2>1
  <2>2. CASE b # x
    <3>1. b \in got \/ \E v \in Worker : f[v] = b
      BY <2>2 DEF Claims
    <3>2. f[w] # b
      BY <2>2
    <3> QED  BY <1>1, <3>1, <3>2
  <2> QED  BY <2>1, <2>2
<1>6. Claims(g, marks \cup ({x} \cap Blob), got)
  BY <1>3, <1>4, <1>5 DEF Claims
<1> QED  BY <1>6 DEF g

\* A worker's fetch ends: what it fetched is served, or is no longer marked.
LEMMA EndKeeps ==
    ASSUME NEW f, NEW marks, NEW got, NEW w \in Worker, NEW marksNow, NEW gotNow,
           DOMAIN f = Worker, Claims(f, marks, got), None \notin Blob, marks \subseteq Blob,
           \/ marksNow = marks /\ gotNow = got \cup {f[w]}
           \/ marksNow = marks \ {f[w]} /\ gotNow = got
    PROVE  Claims([f EXCEPT ![w] = None], marksNow, gotNow)
<1> DEFINE g == [f EXCEPT ![w] = None]
<1>1. g[w] = None /\ \A v \in Worker \ {w} : g[v] = f[v]
  OBVIOUS
<1> HIDE DEF g
<1>3. \A v \in Worker : g[v] \in Blob => g[v] \in marksNow
  <2> SUFFICES ASSUME NEW v \in Worker, g[v] \in Blob PROVE g[v] \in marksNow
    OBVIOUS
  <2>1. v # w /\ g[v] = f[v]
    BY <1>1
  <2>2. f[v] \in marks /\ f[v] # f[w]
    BY <2>1 DEF Claims
  <2> QED  BY <2>1, <2>2
<1>4. \A u, v \in Worker : g[u] \in Blob /\ g[u] = g[v] => u = v
  BY <1>1 DEF Claims
<1>5. \A b \in marksNow : b \in gotNow \/ \E v \in Worker : g[v] = b
  <2> SUFFICES ASSUME NEW b \in marksNow, b \notin gotNow PROVE \E v \in Worker : g[v] = b
    OBVIOUS
  <2>1. b \in marks /\ b # f[w] /\ b \notin got
    OBVIOUS
  <2>2. PICK v \in Worker : f[v] = b
    BY <2>1 DEF Claims
  <2> QED  BY <1>1, <2>1, <2>2
<1>6. Claims(g, marksNow, gotNow)
  BY <1>3, <1>4, <1>5 DEF Claims
<1> QED  BY <1>6 DEF g

\* Every step keeps it.
LEMMA PoolNext == PoolInv /\ [Next]_vars => PoolInv'
<1> SUFFICES ASSUME PoolInv, [Next]_vars PROVE PoolInv'
    OBVIOUS
<1>p. /\ None \notin Image \cup Item
      /\ \A k \in 1 .. Len(ReadPlan) : k >= LayersFrom => ReadPlan[k] \in Blob
  BY PullAssumption
<1> USE <1>p DEF PoolInv, OneFetcher, SeenIsServed, Fetching, PoolGone, Claimed, Released, Finish, StartPass, Return, MainGets, Abort, AfterImage, FreshSeen, mainVars, workerVars, proxyVars
<1>1. CASE ReadManifests
  BY <1>1 DEF ReadManifests
<1>2. CASE ReadLayer
  BY <1>2 DEF ReadLayer
<1>3. CASE WarmOwn
  BY <1>3 DEF WarmOwn
<1>4. CASE CloseWork
  BY <1>4 DEF CloseWork
<1>5. CASE Collect
  BY <1>5 DEF Collect
<1>6. CASE VerifyFails
  BY <1>6 DEF VerifyFails
<1>7. CASE VerifyEnds
  BY <1>7 DEF VerifyEnds
<1>8. CASE ReWarm
  <2>1. \A w \in Worker : Fetching(w)' = None
    BY <1>8 DEF ReWarm
  <2>2. None \notin Blob
    BY DEF Item
  <2>3. wpc' = [w \in Worker |-> "recv"] /\ seen' = {} /\ main' = "send" /\ UNCHANGED <<img, at>>
    BY <1>8 DEF ReWarm
  <2> HIDE DEF Fetching
  <2> QED  BY <2>1, <2>2, <2>3
<1>9. ASSUME NEW w \in Worker, Send(w) PROVE PoolInv'
  <2>1. PICK i : img' = [img EXCEPT ![w] = i]
    BY <1>9 DEF Send
  <2>2. /\ wpc' = [wpc EXCEPT ![w] = "next"] /\ at' = [at EXCEPT ![w] = 1]
        /\ main = "send" /\ wpc[w] = "recv" /\ UNCHANGED <<main, seen, served>>
    BY <1>9 DEF Send
  <2>3. \A v \in Worker : Fetching(v)' = Fetching(v)
    BY <2>1, <2>2
  <2>4. wpc' \in [Worker -> {"recv", "next", "fetch", "exit"}] /\ DOMAIN img' = Worker /\ DOMAIN at' = Worker
    BY <2>1, <2>2
  <2> HIDE DEF Fetching
  <2> QED  BY <2>2, <2>3, <2>4
<1>c. Claims(UnderWay, seen, served) /\ None \notin Blob
  BY DEF Claims, UnderWay, Item
<1>k. ASSUME Claims(UnderWay, seen, served)', UNCHANGED main, seen' \subseteq Blob,
             main \notin {"manifest", "layers", "own"},
             wpc' \in [Worker -> {"recv", "next", "fetch", "exit"}], DOMAIN img' = Worker, DOMAIN at' = Worker
      PROVE  PoolInv'
  <2>1. \A v \in Worker : UnderWay'[v] = Fetching(v)'
    BY DEF UnderWay
  <2> HIDE DEF Fetching
  <2>0. /\ \A v \in Worker : UnderWay'[v] \in Blob => UnderWay'[v] \in seen'
        /\ \A v, u \in Worker : UnderWay'[v] \in Blob /\ UnderWay'[v] = UnderWay'[u] => v = u
        /\ \A b \in seen' : b \in served' \/ \E v \in Worker : UnderWay'[v] = b
    BY <1>k DEF Claims
  <2> HIDE DEF PoolInv
  <2>2. \A v \in Worker : Fetching(v)' \in Blob => Fetching(v)' \in seen'
    BY ONLY <2>0, <2>1
  <2>3. OneFetcher'
    <3>1. \A v, u \in Worker : Fetching(v)' \in Blob /\ Fetching(v)' = Fetching(u)' => v = u
      BY ONLY <2>0, <2>1
    <3> QED  BY ONLY <3>1 DEF OneFetcher
  <2>4. SeenIsServed'
    <3>1. \A b \in seen' : b \in served' \/ \E v \in Worker : Fetching(v)' = b
      BY ONLY <2>0, <2>1
    <3> QED  BY ONLY <3>1 DEF SeenIsServed
  <2>5. main' \notin {"manifest", "layers", "own"}
    BY <1>k
  <2> QED  BY <1>k, <2>2, <2>3, <2>4, <2>5 DEF PoolInv
<1>10. ASSUME NEW w \in Worker, WarmNext(w) PROVE PoolInv'
  <2> DEFINE x == Plan[img[w]][at[w]]
  <2>1. \A v \in Worker \ {w} : Fetching(v)' = Fetching(v)
    BY <1>10 DEF WarmNext
  <2>2. Fetching(w) = None /\ main \notin {"manifest", "layers", "own"} /\ UNCHANGED <<main, served>>
    BY <1>10 DEF WarmNext
  <2>3. DOMAIN img' = Worker /\ DOMAIN at' = Worker
    BY <1>10 DEF WarmNext
  <2>4. CASE wpc'[w] = "fetch"
    <3>1. x \notin seen /\ seen' = seen \cup ({x} \cap Blob) /\ Fetching(w)' = x
      BY <1>10, <2>4 DEF WarmNext
    <3>2. wpc' \in [Worker -> {"recv", "next", "fetch", "exit"}]
      <4>1. wpc' = [wpc EXCEPT ![w] = "fetch"]
        BY <1>10, <2>4 DEF WarmNext
      <4> QED  BY <4>1
    <3> HIDE DEF x, Fetching
    <3>3. UnderWay' = [UnderWay EXCEPT ![w] = x]
      BY <2>1, <3>1 DEF UnderWay
    <3>4. DOMAIN UnderWay = Worker /\ UnderWay[w] = None
      BY <2>2 DEF UnderWay
    <3>5. Claims([UnderWay EXCEPT ![w] = x], seen \cup ({x} \cap Blob), served)
      <4> HIDE DEF PoolInv
      <4>1. seen \subseteq Blob
        BY DEF PoolInv
      <4> QED  BY <1>c, <3>1, <3>4, <4>1, ClaimKeeps
    <3>6. Claims(UnderWay, seen, served)'
      BY <2>2, <3>1, <3>3, <3>5 DEF Claims
    <3>7. seen' \subseteq Blob
      BY <3>1
    <3> QED  BY <1>k, <2>2, <2>3, <3>2, <3>6, <3>7
  <2>5. CASE wpc'[w] # "fetch"
    <3>1. Fetching(w)' = None /\ UNCHANGED seen
      BY <1>10, <2>5 DEF WarmNext
    <3>2. wpc' \in [Worker -> {"recv", "next", "fetch", "exit"}]
      <4>1. wpc' = wpc \/ wpc' = [wpc EXCEPT ![w] = "recv"]
        BY <1>10, <2>5 DEF WarmNext
      <4> QED  BY <4>1
    <3> HIDE DEF Fetching
    <3>3. UnderWay' = UnderWay
      BY <2>1, <2>2, <3>1 DEF UnderWay
    <3>4. Claims(UnderWay, seen, served)'
      BY <1>c, <2>2, <3>1, <3>3 DEF Claims
    <3>5. seen' \subseteq Blob
      BY <3>1
    <3> QED  BY <1>k, <2>2, <2>3, <3>2, <3>4, <3>5
  <2> QED  BY <2>4, <2>5
<1>11. ASSUME NEW w \in Worker, Fetched(w) \/ FetchFails(w) PROVE PoolInv'
  <2>1. \A v \in Worker \ {w} : Fetching(v)' = Fetching(v)
    BY <1>11 DEF Fetched, FetchFails
  <2>2. Fetching(w)' = None /\ UNCHANGED main
    BY <1>11 DEF Fetched, FetchFails
  <2>3. \/ seen' = seen /\ served' = served \cup {Fetching(w)}
        \/ seen' = seen \ {Fetching(w)} /\ served' = served
    BY <1>11 DEF Fetched, FetchFails
  <2>4. /\ wpc' \in [Worker -> {"recv", "next", "fetch", "exit"}]
        /\ DOMAIN img' = Worker /\ DOMAIN at' = Worker
        /\ main \notin {"manifest", "layers", "own"}
    <3>1. wpc' = [wpc EXCEPT ![w] = "next"] \/ wpc' = [wpc EXCEPT ![w] = "recv"]
      BY <1>11 DEF Fetched, FetchFails
    <3>2. DOMAIN img' = Worker /\ DOMAIN at' = Worker
      BY <1>11 DEF Fetched, FetchFails
    <3>3. wpc[w] = "fetch"
      BY <1>11 DEF Fetched, FetchFails
    <3> QED  BY <3>1, <3>2, <3>3
  <2> HIDE DEF Fetching
  <2>5. UnderWay' = [UnderWay EXCEPT ![w] = None]
    BY <2>1, <2>2 DEF UnderWay
  <2>6. DOMAIN UnderWay = Worker /\ UnderWay[w] = Fetching(w)
    BY DEF UnderWay
  <2>7. Claims([UnderWay EXCEPT ![w] = None], seen', served')
    <3> HIDE DEF PoolInv
    <3>1. seen \subseteq Blob
      BY DEF PoolInv
    <3> QED  BY <1>c, <2>3, <2>6, <3>1, EndKeeps
  <2>8. Claims(UnderWay, seen, served)'
    BY <2>5, <2>7 DEF Claims
  <2>9. seen' \subseteq Blob
    BY <2>3
  <2> QED  BY <1>k, <2>2, <2>4, <2>8, <2>9
<1>12. ASSUME NEW w \in Worker, WorkerExits(w) PROVE PoolInv'
  BY <1>12 DEF WorkerExits
<1>13. ASSUME NEW b \in Blob, ForeignStarts(b) PROVE PoolInv'
  BY <1>13 DEF ForeignStarts
<1>14. ASSUME NEW b \in Blob, ForeignEnds(b) PROVE PoolInv'
  BY <1>14 DEF ForeignEnds
<1>15. CASE UNCHANGED vars
  BY <1>15 DEF vars
<1> QED  BY <1>1, <1>2, <1>3, <1>4, <1>5, <1>6, <1>7, <1>8, <1>9, <1>10, <1>11, <1>12, <1>13, <1>14, <1>15 DEF Next, Main, Pool, Others

\* For every release and any pool, no blob is fetched by two workers at once,
\* and what later references skip is served or under way.
THEOREM PoolInvariant == Spec => []PoolInv
<1>1. Init => PoolInv
  BY PullAssumption DEF Init, PoolInv, OneFetcher, SeenIsServed, Fetching, PoolGone, Item
<1> QED  BY <1>1, PoolNext, PTL DEF Spec

THEOREM FetchedByOne == Spec => []OneFetcher
<1>1. PoolInv => OneFetcher
  BY DEF PoolInv
<1> QED  BY <1>1, PoolInvariant, PTL

THEOREM SkippedIsServed == Spec => []SeenIsServed
<1>1. PoolInv => SeenIsServed
  BY DEF PoolInv
<1> QED  BY <1>1, PoolInvariant, PTL
=============================================================================
