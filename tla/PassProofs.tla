----------------------------- MODULE PassProofs -----------------------------
(***************************************************************************)
(* What pull-release may say at the end of its passes (PullRelease): the   *)
(* types, that every image has a result, that an unverified success is     *)
(* earned, that an undisturbed re-warm stores what it warms, what the      *)
(* count in the summary can be, and that a run neither goes on for ever    *)
(* nor comes to a stop half way.                                           *)
(***************************************************************************)
EXTENDS PullReleaseProofs, FiniteSetTheorems

InPass == main \in {"send", "wait", "verify"}

\* The types, and what they need: places are within the plans, a worker has an
\* image as long as it is at one, and the pool runs while a pass does.
RunTypes ==
    /\ TypeOK
    /\ main = "layers" => pos <= Len(ReadPlan)
    /\ main = "own" => pos >= 1
    /\ main \in {"manifest", "layers", "own"} => round = 0
    /\ \A w \in Worker : img[w] = None <=> wpc[w] \in {"recv", "exit"}
    /\ \A w \in Worker : img[w] # None => at[w] >= 1
    /\ \A w \in Worker : wpc[w] = "fetch" => at[w] <= Len(Plan[img[w]])
    /\ main \notin {"send", "wait"} => PoolGone

\* The images of this pass that workers have been given
Handed == {All[k] : k \in 1 .. sent} \cap batch

\* Each of them is one worker's or has a result, and no other image has.
HandsInv ==
    InPass =>
        /\ batch \subseteq {Release} \cup Payloads
        /\ \A w \in Worker : img[w] # None => img[w] \in Handed /\ result[img[w]] = "none"
        /\ \A v, w \in Worker : img[v] # None /\ img[v] = img[w] => v = w
        /\ \A i \in Image : result[i] # "none" => i \in Handed
        /\ \A i \in Handed : result[i] # "none" \/ \E w \in Worker : img[w] = i
        /\ main # "send" => batch \subseteq Handed

\* What is fetched now; what is served, and what is stored, when that is done
Under == {Fetching(w) : w \in Worker} \ {None}
Got == served \cup store \cup Under
Storing == store \cup Under

\* Images with a result, and images a worker is at as far as it has come, have
\* all they need in G.
Progress(G, res, im, a) ==
    /\ \A i \in Image \ Unserved : res[i] # "none" => Wanted(i) \subseteq G
    /\ \A w \in Worker : im[w] # None =>
           \A k \in DOMAIN Plan[im[w]] : k < a[w] => Plan[im[w]][k] \in G

Servable(i) == i \notin Unserved /\ (i \in Childless => AnyPlatform)
Earned(i) == Servable(i) /\ Wanted(i) \subseteq served \cup store

\* As long as no image of the pass has failed, what it skipped is under way.
ServedInv ==
    /\ InPass => \A i \in Payloads \ batch : Earned(i)
    /\ InPass => \A i \in Image : result[i] = "ok" => Servable(i)
    /\ InPass /\ (\A i \in Image : result[i] # "err") => Progress(Got, result, img, at)
    /\ main = "verify" /\ warmErr = {} => \A i \in Payloads : Earned(i)
    /\ OkIsServed

\* In a calm pass each fetch stores, and what is skipped is stored.
CalmInv ==
    InPass /\ round > 0 /\ calm =>
        /\ foreign = {}
        /\ seen \subseteq Storing
        /\ \A w \in Worker : wpc[w] = "fetch" =>
               mode[w] = "store" \/ (mode[w] = "hit" /\ Fetching(w) \in store)
        /\ Progress(Storing, result, img, at)

RunInv == RunTypes /\ HandsInv /\ ServedInv /\ CalmInv

\* The count of failed images, "%d of %d payload images" (release.go:149), is right
\* but for the release image, which it may count on top of those the release lists.
FailureIsCounted ==
    /\ report.verdict = "failed" => report.count \in 1 .. Len(Payload) + 1
    /\ report.verdict = "ok" => report.count = 0

-----------------------------------------------------------------------------
(* Facts about the constants, and the types                                *)

\* The order in which images are handed out: each of them once.
LEMMA AllFacts ==
    /\ Len(All) \in Nat /\ DOMAIN All = 1 .. Len(All)
    /\ \A k \in 1 .. Len(All) : All[k] \in Image
    /\ \A j, k \in 1 .. Len(All) : All[j] = All[k] => j = k
    /\ {All[k] : k \in 1 .. Len(All)} = {Release} \cup Payloads
    /\ {Release} \cup Payloads \subseteq Image
<1>1. Payload \in Seq(Image) /\ Release \in Image /\ Release \notin Payloads
      /\ \A j, k \in DOMAIN Payload : Payload[j] = Payload[k] => j = k
  BY PullAssumption
<1>2. All \in Seq(Image) /\ Len(All) = Len(Payload) + 1 /\ Len(Payload) \in Nat
      /\ DOMAIN Payload = 1 .. Len(Payload)
  BY <1>1 DEF All
<1>3. \A k \in 1 .. Len(All) : All[k] = IF k = 1 THEN Release ELSE Payload[k - 1]
  BY <1>1, <1>2 DEF All
<1>4. \A k \in 1 .. Len(Payload) : All[k + 1] = Payload[k] /\ Payload[k] \in Image
  BY <1>1, <1>2, <1>3
<1>5. All[1] = Release
  BY <1>2, <1>3
<1>6. \A j, k \in 1 .. Len(All) : All[j] = All[k] => j = k
  <2> TAKE j, k \in 1 .. Len(All)
  <2>1. j # 1 => j - 1 \in DOMAIN Payload /\ All[j] = Payload[j - 1] /\ All[j] \in Payloads
    BY <1>2, <1>3 DEF Payloads
  <2>2. k # 1 => k - 1 \in DOMAIN Payload /\ All[k] = Payload[k - 1] /\ All[k] \in Payloads
    BY <1>2, <1>3 DEF Payloads
  <2> QED
    BY <1>1, <1>2, <1>5, <2>1, <2>2
<1>7. {All[k] : k \in 1 .. Len(All)} = {Release} \cup Payloads
  <2>1. \A k \in 1 .. Len(All) : All[k] \in {Release} \cup Payloads
    BY <1>2, <1>3 DEF Payloads
  <2>2. \A i \in Payloads : \E k \in 1 .. Len(All) : i = All[k]
    <3> TAKE i \in Payloads
    <3>1. PICK k \in 1 .. Len(Payload) : i = Payload[k]
      BY <1>2 DEF Payloads
    <3>2. k + 1 \in 1 .. Len(All) /\ i = All[k + 1]
      BY <1>2, <1>4, <3>1
    <3> QED
      BY <3>2
  <2>3. Release \in {All[k] : k \in 1 .. Len(All)}
    BY <1>2, <1>5
  <2> QED
    BY <2>1, <2>2, <2>3
<1> QED
  BY <1>1, <1>2, <1>4, <1>6, <1>7 DEF Payloads

\* What an image asks for, item by item.
LEMMA PlanFacts ==
    /\ \A i \in Image : /\ Len(Plan[i]) \in Nat /\ DOMAIN Plan[i] = 1 .. Len(Plan[i])
                        /\ \A k \in 1 .. Len(Plan[i]) : Plan[i][k] \in Item
                        /\ Wanted(i) = {Plan[i][k] : k \in 1 .. Len(Plan[i])}
    /\ None \notin Image \cup Item /\ Blob \subseteq Item /\ Manifest \cap Blob = {}
BY PullAssumption DEF Item, Wanted

\* What reading the release asks for.
LEMMA ReadFacts ==
    /\ Len(ReadPlan) \in Nat /\ DOMAIN ReadPlan = 1 .. Len(ReadPlan)
    /\ \A k \in 1 .. Len(ReadPlan) : ReadPlan[k] \in Item
    /\ LayersFrom \in 1 .. Len(ReadPlan) + 1
BY PullAssumption

\* A count of images is in range.
LEMMA CountFacts ==
    ASSUME NEW S, S \subseteq Image
    PROVE  Cardinality(S) \in 0 .. Cardinality(Image)
<1>1. IsFiniteSet(Image)
  BY PullAssumption
<1>2. Cardinality(Image) \in Nat /\ Cardinality(S) \in Nat /\ Cardinality(S) <= Cardinality(Image)
  BY <1>1, FS_Subset, FS_CardinalityType
<1> QED
  BY <1>2

\* Some request of a worker
LEMMA FetchingFacts ==
    ASSUME RunTypes, NEW w \in Worker, wpc[w] = "fetch"
    PROVE  /\ img[w] \in Image /\ at[w] \in 1 .. Len(Plan[img[w]])
           /\ Fetching(w) = Plan[img[w]][at[w]] /\ Fetching(w) \in Item
<1>1. img[w] # None /\ at[w] \in Nat /\ at[w] >= 1 /\ at[w] <= Len(Plan[img[w]])
  BY DEF RunTypes, TypeOK
<1>2. img[w] \in Image
  BY <1>1 DEF RunTypes, TypeOK
<1>3. at[w] \in 1 .. Len(Plan[img[w]])
  BY <1>1, <1>2, PlanFacts
<1> QED
  BY <1>2, <1>3, PlanFacts DEF Fetching

\* Every step keeps the types.
LEMMA TypesKept == ASSUME RunTypes, [Next]_vars PROVE RunTypes'
<1> USE DEF mainVars, workerVars, proxyVars
<1>a. store' = store \/ (\E x \in Item : store' = store \cup {x}) => store' \subseteq Item
  BY DEF RunTypes, TypeOK
<1>r. \A n \in 0 .. Cardinality(Image), v \in {"none", "ok", "failed", "error"}, b \in BOOLEAN :
          [verdict |-> v, verified |-> b, count |-> n] \in Report
  BY DEF Report
<1>z. Cardinality(Image) \in Nat /\ 0 \in 0 .. Cardinality(Image)
  BY PullAssumption, FS_CardinalityType
<1>1. CASE ReadManifests
  <2>1. report' \in Report
    BY <1>1, <1>r, <1>z DEF ReadManifests, Abort, Return, RunTypes, TypeOK
  <2>2. store' \subseteq Item /\ served' \subseteq Item
    BY <1>1, ReadFacts DEF ReadManifests, RunTypes, TypeOK
  <2>3. pos' \in 0 .. Len(ReadPlan) + 1 /\ main' \in {"layers", "done"} /\ (main' = "layers" => pos' <= Len(ReadPlan))
    BY <1>1, ReadFacts DEF ReadManifests, Abort, Return, RunTypes, TypeOK
  <2>4. calm' \in BOOLEAN
    BY <1>1 DEF ReadManifests, RunTypes, TypeOK
  <2> QED
    BY <1>1, <2>1, <2>2, <2>3, <2>4 DEF ReadManifests, RunTypes, TypeOK, PoolGone
<1>2. CASE ReadLayer
  <2>1. report' \in Report
    BY <1>2, <1>r, <1>z DEF ReadLayer, Abort, Return, RunTypes, TypeOK
  <2>2. pos >= LayersFrom => pos \in 1 .. Len(ReadPlan) /\ ReadPlan[pos] \in Item
    BY <1>2, ReadFacts DEF ReadLayer, RunTypes, TypeOK
  <2>3. store' \subseteq Item /\ served' \subseteq Item /\ seen' \subseteq Blob
    <3>1. CASE UNCHANGED <<store, served, seen>>
      BY <3>1 DEF RunTypes, TypeOK
    <3>2. CASE pos >= LayersFrom /\ MainGets(ReadPlan[pos]) /\ seen' = Claimed(ReadPlan[pos])
      BY <2>2, <3>2 DEF MainGets, Claimed, RunTypes, TypeOK
    <3>3. pos < LayersFrom \/ pos >= LayersFrom
      BY ReadFacts DEF RunTypes, TypeOK
    <3> QED
      BY <1>2, <3>1, <3>2, <3>3 DEF ReadLayer
  <2>4. pos' \in 0 .. Len(ReadPlan) + 1 /\ main' \in {"layers", "own", "done"}
        /\ (main' = "layers" => pos' <= Len(ReadPlan)) /\ (main' = "own" => pos' >= 1)
    BY <1>2, <2>2, ReadFacts DEF ReadLayer, Abort, Return, RunTypes, TypeOK
  <2>5. calm' \in BOOLEAN
    BY <1>2 DEF ReadLayer, RunTypes, TypeOK
  <2> QED
    BY <1>2, <2>1, <2>3, <2>4, <2>5 DEF ReadLayer, RunTypes, TypeOK, PoolGone
<1>3. CASE WarmOwn
  <2>1. report' \in Report
    BY <1>3, <1>r, <1>z DEF WarmOwn, Abort, Return, RunTypes, TypeOK
  <2>2. ~(pos > Len(ReadPlan)) => pos \in 1 .. Len(ReadPlan) /\ ReadPlan[pos] \in Item
    BY <1>3, ReadFacts DEF WarmOwn, RunTypes, TypeOK
  <2>3. store' \subseteq Item /\ served' \subseteq Item /\ seen' \subseteq Blob
    BY <1>3, <2>2 DEF WarmOwn, MainGets, Claimed, StartPass, RunTypes, TypeOK
  <2>4. pos' \in 0 .. Len(ReadPlan) + 1 /\ main' \in {"own", "send", "done"} /\ (main' = "own" => pos' >= 1)
    BY <1>3, <2>2, ReadFacts DEF WarmOwn, Abort, Return, StartPass, RunTypes, TypeOK
  <2>5. calm' \in BOOLEAN
    BY <1>3 DEF WarmOwn, RunTypes, TypeOK
  <2>6. batch' \subseteq Image /\ sent' \in 0 .. Len(All)
    BY <1>3, AllFacts DEF WarmOwn, StartPass, RunTypes, TypeOK
  <2>7. result' \in [Image -> {"none", "ok", "err"}] /\ wpc' \in [Worker -> {"recv", "next", "fetch", "exit"}]
    BY <1>3 DEF WarmOwn, StartPass, RunTypes, TypeOK
  <2>8. /\ \A w \in Worker : wpc'[w] \in {"recv", "exit"} /\ img[w] = None
        /\ main' # "send" => wpc' = wpc
        /\ PoolGone
    BY <1>3 DEF WarmOwn, StartPass, RunTypes, TypeOK, PoolGone
  <2> QED
    BY <1>3, <2>1, <2>3, <2>4, <2>5, <2>6, <2>7, <2>8 DEF WarmOwn, RunTypes, TypeOK, PoolGone
<1>4. CASE CloseWork
  <2>1. calm' \in BOOLEAN
    BY <1>4 DEF CloseWork, RunTypes, TypeOK
  <2> QED
    BY <1>4, <2>1 DEF CloseWork, RunTypes, TypeOK, PoolGone
<1>5. CASE Collect
  <2>1. calm' \in BOOLEAN
    BY <1>5 DEF Collect, RunTypes, TypeOK
  <2> QED
    BY <1>5, <2>1 DEF Collect, RunTypes, TypeOK, PoolGone
<1>6. CASE VerifyFails \/ VerifyEnds
  <2>1. Missing \subseteq Image /\ warmErr \subseteq Image
    BY AllFacts DEF Missing, RunTypes, TypeOK
  <2>2. Cardinality(Missing) \in 0 .. Cardinality(Image) /\ Cardinality(warmErr) \in 0 .. Cardinality(Image)
    BY <2>1, CountFacts
  <2>3. report' \in Report
    <3>1. CASE VerifyFails
      BY <3>1, <2>2, <1>r DEF VerifyFails, Return
    <3>2. CASE VerifyEnds
      BY <3>2, <2>2, <1>r DEF VerifyEnds, Return
    <3> QED
      BY <1>6, <3>1, <3>2
  <2>4. calm' \in BOOLEAN
    BY <1>6 DEF VerifyFails, VerifyEnds, RunTypes, TypeOK
  <2>5. main' = "done"
    BY <1>6 DEF VerifyFails, VerifyEnds, Return
  <2> QED
    BY <1>6, <2>3, <2>4, <2>5 DEF VerifyFails, VerifyEnds, RunTypes, TypeOK, PoolGone
<1>7. CASE ReWarm
  <2>1. Missing \subseteq Image /\ 0 \in 0 .. Len(All)
    BY AllFacts DEF Missing
  <2>2. calm' \in BOOLEAN
    BY <1>7 DEF ReWarm
  <2>3. result' \in [Image -> {"none", "ok", "err"}] /\ wpc' \in [Worker -> {"recv", "next", "fetch", "exit"}]
    BY <1>7 DEF ReWarm, StartPass
  <2>4. round' \in 0 .. VerifyRounds
    BY <1>7 DEF ReWarm, RunTypes, TypeOK, VerifyRounds
  <2>5. \A w \in Worker : img[w] = None /\ wpc'[w] = "recv"
    BY <1>7 DEF ReWarm, StartPass, RunTypes, PoolGone
  <2> QED
    BY <1>7, <2>1, <2>2, <2>3, <2>4, <2>5 DEF ReWarm, StartPass, FreshSeen, RunTypes, TypeOK
<1>8. ASSUME NEW w \in Worker, Send(w) PROVE RunTypes'
  <2>1. PICK k \in Due : sent' = k /\ img' = [img EXCEPT ![w] = All[k]]
    BY <1>8 DEF Send
  <2>2. k \in 0 .. Len(All) /\ All[k] \in Image /\ All[k] # None
    BY <2>1, AllFacts, PlanFacts DEF Due, RunTypes, TypeOK
  <2>3. calm' \in BOOLEAN
    BY <1>8 DEF Send, RunTypes, TypeOK
  <2> QED
    BY <1>8, <2>1, <2>2, <2>3, AllFacts DEF Send, RunTypes, TypeOK, PoolGone
<1>9. ASSUME NEW w \in Worker, WarmNext(w) PROVE RunTypes'
  <2>1. calm' \in BOOLEAN /\ img[w] \in Image /\ at[w] \in Nat /\ at[w] >= 1 /\ img[w] # None
    BY <1>9 DEF WarmNext, RunTypes, TypeOK
  <2>2. at[w] <= Len(Plan[img[w]]) => Plan[img[w]][at[w]] \in Item
    BY <2>1, PlanFacts
  <2>3. CASE /\ Finish(w, Outcome(img[w]))
             /\ UNCHANGED <<mode, seen>>
    BY <1>9, <2>1, <2>3, PlanFacts DEF WarmNext, Finish, AfterImage, Outcome, RunTypes, TypeOK, PoolGone
  <2>4. CASE at' = [at EXCEPT ![w] = @ + 1] /\ UNCHANGED <<wpc, img, mode, result, seen>>
    BY <1>9, <2>1, <2>4 DEF WarmNext, RunTypes, TypeOK, PoolGone
  <2>5. CASE /\ at[w] <= Len(Plan[img[w]])
             /\ wpc' = [wpc EXCEPT ![w] = "fetch"]
             /\ mode' = [mode EXCEPT ![w] = ModeOf(Plan[img[w]][at[w]])]
             /\ seen' = Claimed(Plan[img[w]][at[w]])
             /\ UNCHANGED <<img, at, result>>
    <3>1. ModeOf(Plan[img[w]][at[w]]) \in {"hit", "store", "stream"}
      BY DEF ModeOf
    <3> QED
      BY <1>9, <2>1, <2>2, <2>5, <3>1 DEF WarmNext, Claimed, RunTypes, TypeOK, PoolGone
  <2> QED
    BY <1>9, <2>3, <2>4, <2>5 DEF WarmNext
<1>10. ASSUME NEW w \in Worker, Fetched(w) PROVE RunTypes'
  <2>1. Fetching(w) \in Item /\ img[w] \in Image /\ at[w] \in Nat /\ img[w] # None
    BY <1>10, FetchingFacts, PlanFacts DEF Fetched, RunTypes, TypeOK
  <2>2. calm' \in BOOLEAN
    BY <1>10 DEF Fetched, RunTypes, TypeOK
  <2> QED
    <3>1. store' \subseteq Item /\ served' \subseteq Item
      BY <1>10, <2>1 DEF Fetched, RunTypes, TypeOK
    <3>2. /\ wpc' = [wpc EXCEPT ![w] = "next"] /\ at' = [at EXCEPT ![w] = at[w] + 1] /\ wpc[w] = "fetch"
          /\ UNCHANGED <<mainVars, img, mode, result, foreign, started, seen>>
      BY <1>10 DEF Fetched
    <3>3. TypeOK'
      BY <2>1, <2>2, <3>1, <3>2 DEF RunTypes, TypeOK
    <3> QED
      BY <2>1, <3>2, <3>3 DEF RunTypes, TypeOK, PoolGone
<1>11. ASSUME NEW w \in Worker, FetchFails(w) PROVE RunTypes'
  <2>1. img[w] \in Image
    BY <1>11, FetchingFacts DEF FetchFails
  <2> QED
    BY <1>11, <2>1, PlanFacts DEF FetchFails, Finish, AfterImage, Failure, Released, RunTypes, TypeOK, PoolGone
<1>12. ASSUME NEW w \in Worker, WorkerExits(w) PROVE RunTypes'
  <2>1. calm' \in BOOLEAN
    BY <1>12 DEF WorkerExits, RunTypes, TypeOK
  <2> QED
    BY <1>12, <2>1 DEF WorkerExits, RunTypes, TypeOK, PoolGone
<1>13. ASSUME NEW b \in Blob, ForeignStarts(b) PROVE RunTypes'
  <2>1. MaxForeign \in Nat
    BY PullAssumption
  <2>2. started' \in 0 .. MaxForeign /\ foreign' \subseteq Blob
    BY <1>13, <2>1 DEF ForeignStarts, RunTypes, TypeOK
  <2>3. calm' \in BOOLEAN
    BY <1>13 DEF ForeignStarts
  <2> QED
    BY <1>13, <2>2, <2>3 DEF ForeignStarts, RunTypes, TypeOK, PoolGone
<1>14. ASSUME NEW b \in Blob, ForeignEnds(b) PROVE RunTypes'
  <2>1. calm' \in BOOLEAN
    BY <1>14 DEF ForeignEnds, RunTypes, TypeOK
  <2> QED
    BY <1>14, <2>1, PlanFacts DEF ForeignEnds, RunTypes, TypeOK, PoolGone
<1>15. CASE UNCHANGED vars
  <2>1. calm' \in BOOLEAN
    BY <1>15 DEF vars, RunTypes, TypeOK
  <2> QED
    BY <1>15, <2>1 DEF vars, RunTypes, TypeOK, PoolGone
<1> QED
  BY <1>1, <1>2, <1>3, <1>4, <1>5, <1>6, <1>7, <1>8, <1>9, <1>10, <1>11, <1>12, <1>13, <1>14, <1>15
  DEF Next, Main, Pool, Others

-----------------------------------------------------------------------------
(* How a pass begins, and what the steps of its workers are                *)

Starts ==
    /\ main' = "send" /\ sent' = 0 /\ UNCHANGED <<img, at, served, store, foreign>>
    /\ \A w \in Worker : wpc'[w] = "recv" /\ img[w] = None
    /\ \A i \in Image : result'[i] = "none"

\* The two steps that start a pass.
LEMMA PassStarts ==
    ASSUME RunTypes, WarmOwn \/ ReWarm, main' = "send"
    PROVE  /\ Starts
           /\ WarmOwn => batch' = Payloads /\ round' = round
           /\ ReWarm => /\ batch' = Missing /\ seen' = {}
                        /\ calm' = (foreign = {})
<1>1. \A w \in Worker : img[w] = None
  BY DEF RunTypes, PoolGone, WarmOwn, ReWarm
<1>2. CASE WarmOwn
  <2>1. StartPass(Payloads, seen) /\ UNCHANGED <<img, at, served, store, foreign, round>>
    BY <1>2 DEF WarmOwn, Abort, Return
  <2>2. ~ReWarm
    BY <1>2 DEF WarmOwn, ReWarm
  <2> QED
    BY <1>1, <2>1, <2>2 DEF StartPass, Starts
<1>3. CASE ReWarm
  <2>1. StartPass(Missing, {}) /\ UNCHANGED <<img, at, served, store, foreign>> /\ calm' = (foreign = {})
    BY <1>3 DEF ReWarm, FreshSeen, proxyVars
  <2>2. ~WarmOwn
    BY <1>3 DEF WarmOwn, ReWarm
  <2> QED
    BY <1>1, <2>1, <2>2 DEF StartPass, Starts
<1> QED
  BY <1>2, <1>3

\* The worker is done with its image.
Finishes(w, verdict) ==
    /\ img[w] \in Image
    /\ result' = [result EXCEPT ![img[w]] = verdict]
    /\ img' = [img EXCEPT ![w] = None]
    /\ at' = [at EXCEPT ![w] = 0]
    /\ UNCHANGED <<main, batch, sent>>

\* It goes on with it.
GoesAhead(w) ==
    /\ img[w] \in Image
    /\ \/ at' = at
       \/ /\ at' = [at EXCEPT ![w] = at[w] + 1]
          /\ at[w] \in 1 .. Len(Plan[img[w]])
          /\ Plan[img[w]][at[w]] \in seen \cup Under
    /\ UNCHANGED <<main, batch, sent, img, result>>

\* What a worker's step comes to.
LEMMA WorkerSteps ==
    ASSUME RunTypes, NEW w \in Worker
    PROVE  /\ WarmNext(w) => \/ /\ Finishes(w, Outcome(img[w]))
                                /\ img[w] \notin Unserved => Len(Plan[img[w]]) < at[w]
                             \/ GoesAhead(w)
           /\ FetchFails(w) => Finishes(w, "err")
           /\ Fetched(w) => GoesAhead(w)
<1>1. ASSUME WarmNext(w)
      PROVE  \/ /\ Finishes(w, Outcome(img[w]))
                /\ img[w] \notin Unserved => Len(Plan[img[w]]) < at[w]
             \/ GoesAhead(w)
  <2>1. img[w] \in Image /\ at[w] \in Nat /\ at[w] >= 1 /\ UNCHANGED <<main, batch, sent>>
    BY <1>1 DEF WarmNext, RunTypes, TypeOK, mainVars
  <2>2. Len(Plan[img[w]]) \in Nat
    BY <2>1, PlanFacts
  <2>3. CASE img[w] \notin Unserved /\ at[w] <= Len(Plan[img[w]])
    <3>1. at[w] \in 1 .. Len(Plan[img[w]])
      BY <2>1, <2>2, <2>3
    <3> QED
      BY <1>1, <2>1, <2>3, <3>1 DEF WarmNext, GoesAhead
  <2>4. CASE ~(img[w] \notin Unserved /\ at[w] <= Len(Plan[img[w]]))
    BY <1>1, <2>1, <2>2, <2>4 DEF WarmNext, Finish, Finishes
  <2> QED
    BY <2>3, <2>4
<1>2. ASSUME FetchFails(w) PROVE Finishes(w, "err")
  BY <1>2, FetchingFacts DEF FetchFails, Finish, Failure, Finishes, mainVars
<1>3. ASSUME Fetched(w) PROVE GoesAhead(w)
  <2>1. Fetching(w) \in Under
    BY <1>3, FetchingFacts, PlanFacts DEF Fetched, Under
  <2> QED
    BY <1>3, <2>1, FetchingFacts DEF Fetched, GoesAhead, mainVars
<1> QED
  BY <1>1, <1>2, <1>3

-----------------------------------------------------------------------------
(* Every image has one worker, or a result                                 *)

\* No step loses or doubles an image of the pass.
LEMMA HandsKept == ASSUME RunTypes, HandsInv, [Next]_vars PROVE HandsInv'
<1>1. ASSUME ~InPass' PROVE HandsInv'
  BY <1>1 DEF HandsInv
<1>2. CASE ReadManifests \/ ReadLayer \/ VerifyFails \/ VerifyEnds
  <2>1. ~InPass'
    BY <1>2 DEF ReadManifests, ReadLayer, VerifyFails, VerifyEnds, Abort, Return, InPass
  <2> QED
    BY <1>1, <2>1
<1>3. CASE WarmOwn \/ ReWarm
  <2>1. CASE main' = "send"
    <3>1. Starts /\ batch' \subseteq {Release} \cup Payloads
      BY <1>3, <2>1, PassStarts DEF Missing
    <3>2. Handed' = {}
      BY <3>1 DEF Starts, Handed
    <3> QED
      BY <3>1, <3>2 DEF Starts, HandsInv
  <2>2. CASE main' # "send"
    BY <1>1, <1>3, <2>2 DEF WarmOwn, ReWarm, StartPass, Abort, Return, InPass
  <2> QED
    BY <2>1, <2>2
<1>4. ASSUME UNCHANGED <<batch, sent, img, result>>, InPass, main' # "send" => batch \subseteq Handed
      PROVE  HandsInv'
  <2>1. Handed' = Handed
    BY <1>4 DEF Handed
  <2> QED
    BY <1>4, <2>1 DEF HandsInv
<1>5. CASE CloseWork
  <2>1. \A i \in batch : i \in Handed
    <3> TAKE i \in batch
    <3>1. i \in {Release} \cup Payloads
      BY <1>5 DEF HandsInv, InPass, CloseWork
    <3>2. PICK k \in 1 .. Len(All) : All[k] = i
      BY <3>1, AllFacts
    <3>3. sent \in Nat /\ ~(k \in sent + 1 .. Len(All))
      BY <1>5, <3>2 DEF CloseWork, Due, RunTypes, TypeOK
    <3>4. k \in 1 .. sent
      BY <3>2, <3>3, AllFacts
    <3> QED
      BY <3>2, <3>4 DEF Handed
  <2> QED
    BY <1>4, <1>5, <2>1 DEF CloseWork, workerVars, InPass
<1>6. CASE Collect
  BY <1>4, <1>6 DEF Collect, workerVars, InPass, HandsInv
<1>7. ASSUME NEW w \in Worker, Send(w) PROVE HandsInv'
  <2>1. PICK k \in Due : (\A j \in Due : k <= j) /\ sent' = k /\ img' = [img EXCEPT ![w] = All[k]]
    BY <1>7 DEF Send
  <2>2. UNCHANGED <<main, batch, result>> /\ img[w] = None /\ InPass /\ main = "send"
    BY <1>7 DEF Send, RunTypes, InPass
  <2>3. sent \in Nat /\ k \in sent + 1 .. Len(All) /\ Len(All) \in Nat /\ All[k] \in batch /\ All[k] \in Image
    BY <2>1, AllFacts DEF Due, RunTypes, TypeOK
  <2>4. All[k] \notin Handed
    BY <2>3, AllFacts DEF Handed
  <2>5. Handed' = Handed \cup {All[k]}
    <3>1. \A j \in 1 .. k : All[j] \in batch => j \in 1 .. sent \/ j = k
      BY <2>1, <2>3 DEF Due
    <3>2. (1 .. sent) \cup {k} \subseteq 1 .. k
      BY <2>3
    <3> QED
      BY <2>1, <2>2, <2>3, <3>1, <3>2 DEF Handed
  <2>6. \A v \in Worker \ {w} : img'[v] = img[v]
    BY <2>1 DEF RunTypes, TypeOK
  <2>7. img'[w] = All[k] /\ All[k] # None
    BY <2>1, <2>3, PlanFacts DEF RunTypes, TypeOK
  <2>8. result[All[k]] = "none"
    BY <2>2, <2>3, <2>4 DEF HandsInv
  <2>9. \A i \in Handed : result[i] # "none" \/ \E v \in Worker : img'[v] = i
    <3> TAKE i \in Handed
    <3>1. i # None
      BY <2>2, AllFacts, PlanFacts DEF HandsInv, Handed
    <3> QED
      BY <2>2, <2>6, <3>1 DEF HandsInv
  <2> QED
    BY <2>2, <2>4, <2>5, <2>6, <2>7, <2>8, <2>9 DEF HandsInv, InPass
<1>8. ASSUME NEW w \in Worker, NEW verdict \in {"ok", "err"}, Finishes(w, verdict), InPass PROVE HandsInv'
  <2>1. Handed' = Handed /\ UNCHANGED <<main, batch>>
    BY <1>8 DEF Finishes, Handed
  <2>2. \A v \in Worker \ {w} : img'[v] = img[v]
    BY <1>8 DEF Finishes, RunTypes, TypeOK
  <2>3. img'[w] = None /\ img[w] # None /\ result'[img[w]] = verdict
    BY <1>8, PlanFacts DEF Finishes, RunTypes, TypeOK
  <2>4. \A i \in Image \ {img[w]} : result'[i] = result[i]
    BY <1>8 DEF Finishes, RunTypes, TypeOK
  <2>5. img[w] \in Handed /\ img[w] \in Image
    BY <1>8, <2>3 DEF HandsInv, Finishes
  <2>6. \A v \in Worker : img'[v] # None => img'[v] \in Handed /\ result'[img'[v]] = "none"
    <3> TAKE v \in Worker
    <3> HAVE img'[v] # None
    <3>1. v # w /\ img'[v] = img[v] /\ img[v] \in Image
      BY <2>2, <2>3 DEF RunTypes, TypeOK
    <3>2. img[v] # img[w]
      BY <1>8, <2>3, <3>1 DEF HandsInv
    <3> QED
      BY <1>8, <2>4, <3>1, <3>2, PlanFacts DEF HandsInv
  <2>7. \A i \in Handed : i \in Image
    BY <1>8, AllFacts DEF HandsInv, Handed
  <2>8. \A i \in Handed : result'[i] # "none" \/ \E v \in Worker : img'[v] = i
    <3> TAKE i \in Handed
    <3>1. CASE i = img[w]
      BY <2>3, <3>1
    <3>2. CASE i # img[w]
      BY <1>8, <2>2, <2>4, <2>7, <3>2 DEF HandsInv
    <3> QED
      BY <3>1, <3>2
  <2>9. \A u, v \in Worker : img'[u] # None /\ img'[u] = img'[v] => u = v
    BY <1>8, <2>2, <2>3 DEF HandsInv
  <2>10. \A i \in Image : result'[i] # "none" => i \in Handed
    BY <1>8, <2>4, <2>5 DEF HandsInv
  <2> QED
    BY <1>8, <2>1, <2>6, <2>8, <2>9, <2>10 DEF HandsInv, InPass
<1>9. ASSUME NEW w \in Worker, GoesAhead(w) PROVE HandsInv'
  <2>1. Handed' = Handed /\ InPass' = InPass
    BY <1>9 DEF GoesAhead, Handed, InPass
  <2> QED
    BY <1>9, <2>1 DEF GoesAhead, HandsInv
<1>10. ASSUME NEW w \in Worker, WarmNext(w) \/ Fetched(w) \/ FetchFails(w) PROVE HandsInv'
  <2>1. InPass
    BY <1>10 DEF RunTypes, PoolGone, InPass, WarmNext, Fetched, FetchFails
  <2>2. Outcome(img[w]) \in {"ok", "err"}
    BY DEF Outcome
  <2> QED
    BY <1>8, <1>9, <1>10, <2>1, <2>2, WorkerSteps
<1>11. ASSUME UNCHANGED <<main, batch, sent, img, result>> PROVE HandsInv'
  <2>1. Handed' = Handed /\ InPass' = InPass
    BY <1>11 DEF Handed, InPass
  <2> QED
    BY <1>11, <2>1 DEF HandsInv
<1>12. ASSUME NEW w \in Worker, WorkerExits(w) PROVE HandsInv'
  BY <1>11, <1>12 DEF WorkerExits, mainVars
<1>13. ASSUME NEW b \in Blob, ForeignStarts(b) \/ ForeignEnds(b) PROVE HandsInv'
  BY <1>11, <1>13 DEF ForeignStarts, ForeignEnds, mainVars, workerVars
<1>14. CASE UNCHANGED vars
  BY <1>11, <1>14 DEF vars, mainVars, workerVars
<1> QED
  BY <1>2, <1>3, <1>5, <1>6, <1>7, <1>10, <1>12, <1>13, <1>14 DEF Next, Main, Pool, Others

\* When the workers are gone every image of the pass has a result.
LEMMA ResultsAreIn == ASSUME RunTypes, HandsInv PROVE AllResultsIn
<1> SUFFICES ASSUME main = "verify", NEW i \in batch PROVE result[i] # "none"
  BY DEF AllResultsIn
<1>1. InPass /\ PoolGone
  BY DEF InPass, RunTypes
<1>2. i \in Handed /\ i \in Image
  BY <1>1, AllFacts DEF HandsInv
<1>3. \A w \in Worker : img[w] # i
  BY <1>1, <1>2, PlanFacts DEF RunTypes, PoolGone
<1> QED
  BY <1>1, <1>2, <1>3 DEF HandsInv

-----------------------------------------------------------------------------
(* What is under way                                                       *)

\* A step of one worker leaves the fetches of the others alone.
LEMMA UnderApart ==
    ASSUME RunTypes, NEW w \in Worker, Send(w) \/ WarmNext(w) \/ Fetched(w) \/ FetchFails(w) \/ WorkerExits(w)
    PROVE  \A v \in Worker \ {w} : Fetching(v)' = Fetching(v) /\ wpc'[v] = wpc[v] /\ img'[v] = img[v]
<1>1. \A v \in Worker \ {w} : wpc'[v] = wpc[v] /\ img'[v] = img[v] /\ at'[v] = at[v]
  BY DEF Send, WarmNext, Fetched, FetchFails, WorkerExits, Finish, RunTypes, TypeOK
<1> QED
  BY <1>1 DEF Fetching

\* A fetch does not stop being under way but by its end.
LEMMA UnderKept ==
    ASSUME RunTypes, [Next]_vars, NEW b \in Under, b \notin Under'
    PROVE  \E w \in Worker : b = Fetching(w) /\ wpc[w] = "fetch" /\ (Fetched(w) \/ FetchFails(w))
<1>1. PICK w \in Worker : b = Fetching(w) /\ wpc[w] = "fetch"
  BY DEF Under, Fetching
<1>2. b # None /\ main \in {"send", "wait"}
  BY <1>1 DEF Under, RunTypes, PoolGone
<1>3. ASSUME Fetching(w)' = Fetching(w) PROVE FALSE
  BY <1>1, <1>2, <1>3 DEF Under
<1>4. ASSUME UNCHANGED <<wpc, img, at>> PROVE FALSE
  BY <1>3, <1>4 DEF Fetching
<1>5. ~Main
  <2>1. ~CloseWork /\ ~Collect
    BY <1>4 DEF CloseWork, Collect, workerVars
  <2> QED
    BY <1>2, <2>1 DEF Main, ReadManifests, ReadLayer, WarmOwn, VerifyFails, VerifyEnds, ReWarm
<1>6. ~Others /\ ~UNCHANGED vars
  BY <1>4 DEF Others, ForeignStarts, ForeignEnds, vars, workerVars
<1>7. PICK v \in Worker : Send(v) \/ WarmNext(v) \/ Fetched(v) \/ FetchFails(v) \/ WorkerExits(v)
  BY <1>5, <1>6 DEF Next, Pool
<1>8. v = w
  BY <1>3, <1>7, UnderApart
<1> QED
  BY <1>1, <1>7, <1>8 DEF Send, WarmNext, WorkerExits

\* Nothing that is served or stored is lost, and a fetch that ends well has
\* served; if it was to be stored, or was a hit, it is stored too.
LEMMA StoreGrows == ASSUME [Next]_vars PROVE store \subseteq store' /\ served \subseteq served'
<1>1. Main => store \subseteq store' /\ served \subseteq served'
  BY DEF Main, ReadManifests, ReadLayer, WarmOwn, CloseWork, Collect, VerifyFails, VerifyEnds, ReWarm,
       MainGets, proxyVars
<1>2. Pool => store \subseteq store' /\ served \subseteq served'
  BY DEF Pool, Send, WarmNext, Fetched, FetchFails, WorkerExits, proxyVars
<1>3. Others => store \subseteq store' /\ served \subseteq served'
  BY DEF Others, ForeignStarts, ForeignEnds
<1> QED
  BY <1>1, <1>2, <1>3 DEF Next, vars, proxyVars

\* Unless a fetch fails, what is served or under way stays so.
LEMMA GotGrows ==
    ASSUME RunTypes, [Next]_vars, \A w \in Worker : ~FetchFails(w)
    PROVE  Got \subseteq Got'
<1> SUFFICES ASSUME NEW b \in Under, b \notin Under' PROVE b \in Got'
  BY StoreGrows DEF Got
<1>1. PICK w \in Worker : b = Fetching(w) /\ Fetched(w)
  BY UnderKept
<1> QED
  BY <1>1 DEF Fetched, Got

\* So does what is stored or will be, when no fetch is beside another client's.
LEMMA StoringGrows ==
    ASSUME RunTypes, [Next]_vars, \A w \in Worker : ~FetchFails(w),
           \A w \in Worker : wpc[w] = "fetch" => mode[w] = "store" \/ (mode[w] = "hit" /\ Fetching(w) \in store)
    PROVE  Storing \subseteq Storing'
<1> SUFFICES ASSUME NEW b \in Under, b \notin Under' PROVE b \in Storing'
  BY StoreGrows DEF Storing
<1>1. PICK w \in Worker : b = Fetching(w) /\ wpc[w] = "fetch" /\ Fetched(w)
  BY UnderKept
<1>2. CASE mode[w] = "store"
  BY <1>1, <1>2 DEF Fetched, Storing
<1>3. CASE Fetching(w) \in store
  BY <1>1, <1>3, StoreGrows DEF Storing
<1> QED
  BY <1>1, <1>2, <1>3

-----------------------------------------------------------------------------
(* Progress                                                                *)

\* The more there is, the better.
LEMMA ProgressGrows ==
    ASSUME NEW G, NEW H, G \subseteq H, NEW res, NEW im, NEW a, Progress(G, res, im, a)
    PROVE  Progress(H, res, im, a)
BY DEF Progress

\* A worker gets an image; goes on with it; is done with it.
LEMMA ProgressSends ==
    ASSUME NEW G, NEW res, NEW im \in [Worker -> Image \cup {None}], NEW a \in [Worker -> Nat],
           Progress(G, res, im, a), NEW w \in Worker, NEW i \in Image
    PROVE  Progress(G, res, [im EXCEPT ![w] = i], [a EXCEPT ![w] = 1])
<1> DEFINE im2 == [im EXCEPT ![w] = i]
           a2 == [a EXCEPT ![w] = 1]
<1>1. /\ \A v \in Worker \ {w} : im2[v] = im[v] /\ a2[v] = a[v]
      /\ im2[w] = i /\ a2[w] = 1
  OBVIOUS
<1>2. \A k \in DOMAIN Plan[i] : ~(k < 1)
  BY PlanFacts
<1> HIDE DEF im2, a2
<1>3. Progress(G, res, im2, a2)
  BY <1>1, <1>2 DEF Progress
<1> QED
  BY <1>3 DEF im2, a2

\* What it was at is there: the worker is past it.
LEMMA ProgressAhead ==
    ASSUME NEW G, NEW res, NEW im \in [Worker -> Image \cup {None}], NEW a \in [Worker -> Nat],
           Progress(G, res, im, a), NEW w \in Worker, im[w] \in Image, Plan[im[w]][a[w]] \in G
    PROVE  Progress(G, res, im, [a EXCEPT ![w] = a[w] + 1])
<1> DEFINE a2 == [a EXCEPT ![w] = a[w] + 1]
<1>1. /\ \A v \in Worker \ {w} : a2[v] = a[v]
      /\ a2[w] = a[w] + 1 /\ a[w] \in Nat
  OBVIOUS
<1>2. \A k \in DOMAIN Plan[im[w]] : k < a[w] + 1 => k < a[w] \/ k = a[w]
  BY <1>1, PlanFacts
<1> HIDE DEF a2
<1>3. Progress(G, res, im, a2)
  BY <1>1, <1>2, PlanFacts DEF Progress
<1> QED
  BY <1>3 DEF a2

\* Past the end of its plan, the image has its verdict.
LEMMA ProgressEnds ==
    ASSUME NEW G, NEW res, NEW im \in [Worker -> Image \cup {None}], NEW a \in [Worker -> Nat],
           res \in [Image -> {"none", "ok", "err"}], NEW verdict,
           Progress(G, res, im, a), NEW w \in Worker, im[w] \in Image,
           im[w] \notin Unserved => Len(Plan[im[w]]) < a[w]
    PROVE  Progress(G, [res EXCEPT ![im[w]] = verdict], [im EXCEPT ![w] = None], [a EXCEPT ![w] = 0])
<1> DEFINE im2 == [im EXCEPT ![w] = None]
           a2 == [a EXCEPT ![w] = 0]
           res2 == [res EXCEPT ![im[w]] = verdict]
<1>1. /\ \A v \in Worker \ {w} : im2[v] = im[v] /\ a2[v] = a[v]
      /\ im2[w] = None /\ \A i \in Image \ {im[w]} : res2[i] = res[i]
  OBVIOUS
<1>2. im[w] \notin Unserved => Wanted(im[w]) \subseteq G
  <2> SUFFICES ASSUME im[w] \notin Unserved PROVE Wanted(im[w]) \subseteq G
    OBVIOUS
  <2>1. \A k \in 1 .. Len(Plan[im[w]]) : k < a[w]
    BY PlanFacts
  <2>2. im[w] # None
    BY PlanFacts
  <2> QED
    BY <2>1, <2>2, PlanFacts DEF Progress
<1> HIDE DEF im2, a2, res2
<1>3. Progress(G, res2, im2, a2)
  BY <1>1, <1>2 DEF Progress
<1> QED
  BY <1>3 DEF im2, a2, res2

\* As long as no fetch fails, what workers have got so far is in any set that has
\* what is marked as seen and what is under way.
LEMMA ProgressKept ==
    ASSUME RunTypes, InPass, InPass', [Next]_vars, \A w \in Worker : ~FetchFails(w), ~ReWarm,
           NEW G, Progress(G, result, img, at), seen \cup Under \subseteq G
    PROVE  Progress(G, result', img', at')
<1>1. ASSUME UNCHANGED <<result, img, at>> PROVE Progress(G, result', img', at')
  BY <1>1
<1>t. /\ img \in [Worker -> Image \cup {None}] /\ at \in [Worker -> Nat]
      /\ result \in [Image -> {"none", "ok", "err"}]
  BY DEF RunTypes, TypeOK
<1>2. CASE Main
  <2>1. CASE CloseWork \/ Collect
    BY <1>1, <2>1 DEF CloseWork, Collect, workerVars
  <2> QED
    BY <1>2, <2>1 DEF Main, InPass, ReadManifests, ReadLayer, WarmOwn, VerifyFails, VerifyEnds, Return
<1>3. CASE Others \/ UNCHANGED vars
  BY <1>1, <1>3 DEF Others, ForeignStarts, ForeignEnds, vars, workerVars
<1>4. ASSUME NEW w \in Worker, Send(w) PROVE Progress(G, result', img', at')
  <2>1. PICK k \in Due : img' = [img EXCEPT ![w] = All[k]]
    BY <1>4 DEF Send
  <2>2. at' = [at EXCEPT ![w] = 1] /\ result' = result
    BY <1>4 DEF Send
  <2>3. All[k] \in Image
    BY AllFacts DEF Due, RunTypes, TypeOK
  <2> QED
    BY <1>t, <2>1, <2>2, <2>3, ProgressSends
<1>5. ASSUME NEW w \in Worker, GoesAhead(w) PROVE Progress(G, result', img', at')
  <2>1. CASE at' = at
    BY <1>1, <1>5, <2>1 DEF GoesAhead
  <2>2. CASE at' = [at EXCEPT ![w] = at[w] + 1] /\ Plan[img[w]][at[w]] \in seen \cup Under
    <3>1. Plan[img[w]][at[w]] \in G /\ UNCHANGED <<result, img>> /\ img[w] \in Image
      BY <1>5, <2>2 DEF GoesAhead
    <3> QED
      BY <1>t, <2>2, <3>1, ProgressAhead
  <2> QED
    BY <1>5, <2>1, <2>2 DEF GoesAhead
<1>6. ASSUME NEW w \in Worker, NEW verdict, Finishes(w, verdict), img[w] \notin Unserved => Len(Plan[img[w]]) < at[w]
      PROVE  Progress(G, result', img', at')
  BY <1>t, <1>6, ProgressEnds DEF Finishes
<1>7. ASSUME NEW w \in Worker, WarmNext(w) \/ Fetched(w) PROVE Progress(G, result', img', at')
  BY <1>5, <1>6, <1>7, WorkerSteps
<1>8. ASSUME NEW w \in Worker, WorkerExits(w) PROVE Progress(G, result', img', at')
  BY <1>1, <1>8 DEF WorkerExits
<1> QED
  BY <1>2, <1>3, <1>4, <1>7, <1>8 DEF Next, Pool

\* Nobody works on anything yet.
LEMMA ProgressStarts ==
    ASSUME Starts, NEW G PROVE Progress(G, result', img', at')
BY DEF Starts, Progress

-----------------------------------------------------------------------------
(* An unverified success is earned                                         *)

\* Once served, always served.
LEMMA EarnedStays == ASSUME [Next]_vars, NEW i, Earned(i) PROVE Earned(i)'
BY StoreGrows DEF Earned, Servable, Wanted

\* What is found on disk was served.
LEMMA OnDiskIsEarned == ASSUME NEW i, OnDisk(i) PROVE Earned(i)
BY DEF OnDisk, Earned, Servable

\* A pass goes on, or one begins.
LEMMA InPassBefore ==
    ASSUME InPass', [Next]_vars
    PROVE  \/ (WarmOwn \/ ReWarm) /\ main' = "send"
           \/ InPass /\ ~WarmOwn /\ ~ReWarm /\ UNCHANGED <<batch, round>>
<1>1. CASE Main
  <2>1. CASE WarmOwn \/ ReWarm
    BY <2>1 DEF WarmOwn, ReWarm, StartPass, Abort, Return, InPass
  <2>2. CASE CloseWork \/ Collect
    BY <2>2 DEF CloseWork, Collect, WarmOwn, ReWarm, InPass
  <2>3. CASE ReadManifests \/ ReadLayer \/ VerifyFails \/ VerifyEnds
    BY <2>3 DEF ReadManifests, ReadLayer, VerifyFails, VerifyEnds, Abort, Return, InPass
  <2> QED
    BY <1>1, <2>1, <2>2, <2>3 DEF Main
<1>2. ASSUME UNCHANGED <<main, batch, round>> PROVE InPass /\ ~WarmOwn /\ ~ReWarm
  <2>1. InPass
    BY <1>2 DEF InPass
  <2> QED
    BY <1>2, <2>1 DEF WarmOwn, ReWarm, InPass, StartPass
<1>3. CASE Pool \/ Others \/ UNCHANGED vars
  <2>1. UNCHANGED <<main, batch, round>>
    BY <1>3 DEF Pool, Others, Send, WarmNext, Fetched, FetchFails, WorkerExits, ForeignStarts, ForeignEnds,
         vars, mainVars
  <2> QED
    BY <1>2, <2>1
<1> QED
  BY <1>1, <1>3 DEF Next

\* What has failed stays so until the next pass.
LEMMA FailedStays ==
    ASSUME RunTypes, HandsInv, InPass, [Next]_vars, ~WarmOwn, ~ReWarm, NEW i \in Image
    PROVE  /\ result[i] # "none" => result'[i] = result[i]
           /\ result'[i] = "ok" => result[i] = "ok" \/ Servable(i)
<1>1. ASSUME UNCHANGED result
      PROVE  /\ result[i] # "none" => result'[i] = result[i]
             /\ result'[i] = "ok" => result[i] = "ok" \/ Servable(i)
  BY <1>1
<1>2. ASSUME NEW w \in Worker, NEW verdict, Finishes(w, verdict), verdict = "ok" => Servable(img[w])
      PROVE  /\ result[i] # "none" => result'[i] = result[i]
             /\ result'[i] = "ok" => result[i] = "ok" \/ Servable(i)
  <2>1. img[w] \in Image /\ img[w] # None /\ result[img[w]] = "none"
    BY <1>2, PlanFacts DEF Finishes, HandsInv
  <2>2. result'[img[w]] = verdict /\ (i # img[w] => result'[i] = result[i])
    BY <1>2, <2>1 DEF Finishes, RunTypes, TypeOK
  <2>3. CASE i = img[w]
    BY <1>2, <2>1, <2>2, <2>3
  <2>4. CASE i # img[w]
    BY <2>2, <2>4
  <2> QED
    BY <2>3, <2>4
<1>3. CASE Main
  BY <1>1, <1>3 DEF Main, InPass, ReadManifests, ReadLayer, CloseWork, Collect, VerifyFails, VerifyEnds, workerVars
<1>4. CASE Others \/ UNCHANGED vars
  BY <1>1, <1>4 DEF Others, ForeignStarts, ForeignEnds, vars, workerVars
<1>5. ASSUME NEW w \in Worker, Send(w) \/ WorkerExits(w) PROVE UNCHANGED result
  BY <1>5 DEF Send, WorkerExits
<1>6. ASSUME NEW w \in Worker, WarmNext(w) \/ Fetched(w) \/ FetchFails(w)
      PROVE  \/ UNCHANGED result
             \/ \E verdict : Finishes(w, verdict) /\ (verdict = "ok" => Servable(img[w]))
  <2>1. Outcome(img[w]) = "ok" => Servable(img[w])
    BY DEF Outcome, Servable
  <2> QED
    BY <1>6, <2>1, WorkerSteps DEF GoesAhead
<1> QED
  BY <1>1, <1>2, <1>3, <1>4, <1>5, <1>6 DEF Next, Pool

\* No step skips what is neither served nor under way.
LEMMA ServedKept ==
    ASSUME RunTypes, HandsInv, PoolInv, ServedInv, [Next]_vars
    PROVE  ServedInv'
<1>0. InPass' => \/ (WarmOwn \/ ReWarm) /\ main' = "send" /\ Starts
                 \/ InPass /\ ~WarmOwn /\ ~ReWarm /\ UNCHANGED <<batch, round>>
  BY InPassBefore, PassStarts
<1>1. InPass' => \A i \in Payloads \ batch' : Earned(i)'
  <2> SUFFICES ASSUME InPass', NEW i \in Payloads \ batch' PROVE Earned(i)'
    OBVIOUS
  <2>1. CASE WarmOwn /\ main' = "send"
    BY <2>1, PassStarts
  <2>2. CASE ReWarm /\ main' = "send"
    <3>1. OnDisk(i)
      BY <2>2, PassStarts DEF Missing
    <3> QED
      BY <3>1, OnDiskIsEarned, EarnedStays
  <2>3. CASE InPass /\ UNCHANGED batch
    BY <2>3, EarnedStays DEF ServedInv
  <2> QED
    BY <1>0, <2>1, <2>2, <2>3
<1>2. InPass' => \A i \in Image : result'[i] = "ok" => Servable(i)
  <2> SUFFICES ASSUME InPass', NEW i \in Image, result'[i] = "ok" PROVE Servable(i)
    OBVIOUS
  <2>1. ~Starts
    BY DEF Starts
  <2> QED
    BY <1>0, <2>1, FailedStays DEF ServedInv
<1>3. InPass' /\ (\A i \in Image : result'[i] # "err") => Progress(Got', result', img', at')
  <2> SUFFICES ASSUME InPass', \A i \in Image : result'[i] # "err" PROVE Progress(Got', result', img', at')
    OBVIOUS
  <2>1. CASE Starts
    BY <2>1, ProgressStarts
  <2>2. CASE InPass /\ ~WarmOwn /\ ~ReWarm
    <3>1. \A i \in Image : result[i] # "err"
      <4> TAKE i \in Image
      <4> QED
        BY <2>2, FailedStays
    <3>2. \A w \in Worker : ~FetchFails(w)
      <4> SUFFICES ASSUME NEW w \in Worker, FetchFails(w) PROVE FALSE
        OBVIOUS
      <4>1. Finishes(w, "err")
        BY WorkerSteps
      <4> QED
        BY <4>1 DEF Finishes, RunTypes, TypeOK
    <3>3. Got \subseteq Got'
      BY <3>2, GotGrows
    <3>4. seen \cup Under \subseteq Got
      <4>1. \A b \in seen : b \in served \/ \E w \in Worker : Fetching(w) = b
        BY DEF PoolInv, SeenIsServed
      <4>2. \A b \in seen : b # None
        BY PlanFacts DEF PoolInv
      <4> QED
        BY <4>1, <4>2 DEF Got, Under
    <3>5. Progress(Got, result, img, at)
      BY <2>2, <3>1 DEF ServedInv
    <3>6. Progress(Got', result, img, at) /\ seen \cup Under \subseteq Got'
      BY <3>3, <3>4, <3>5, ProgressGrows
    <3> QED
      BY <2>2, <3>2, <3>6, ProgressKept
  <2> QED
    BY <1>0, <2>1, <2>2
<1>4. main' = "verify" /\ warmErr' = {} => \A i \in Payloads : Earned(i)'
  <2> SUFFICES ASSUME main' = "verify", warmErr' = {}, NEW i \in Payloads PROVE Earned(i)'
    OBVIOUS
  <2>1. CASE Collect
    <3>1. \A j \in Image : result[j] # "err" /\ result'[j] = result[j]
      BY <2>1 DEF Collect, workerVars, RunTypes, TypeOK
    <3>2. InPass /\ PoolGone /\ UNCHANGED <<batch, served, store>>
      BY <2>1 DEF Collect, InPass, proxyVars
    <3>3. CASE i \notin batch
      BY <3>2, <3>3, EarnedStays DEF ServedInv
    <3>4. CASE i \in batch
      <4>1. AllResultsIn' /\ i \in Image
        <5>1. HandsInv' /\ RunTypes'
          BY HandsKept, TypesKept
        <5>2. AllResultsIn'
          BY <5>1, ResultsAreIn, PTL
        <5> QED
          BY <5>2, AllFacts
      <4>2. result[i] # "none"
        BY <3>1, <3>2, <3>4, <4>1 DEF AllResultsIn
      <4>3. result[i] = "ok"
        BY <3>1, <4>1, <4>2 DEF RunTypes, TypeOK
      <4>4. Servable(i) /\ Wanted(i) \subseteq Got
        BY <3>1, <3>2, <4>1, <4>3 DEF ServedInv, Progress, Servable
      <4>5. Under = {}
        BY <3>2 DEF Under, Fetching, PoolGone
      <4> QED
        BY <4>4, <4>5, EarnedStays DEF Got, Earned
    <3> QED
      BY <3>3, <3>4
  <2>2. CASE ~Collect
    <3>1. main = "verify" /\ warmErr = {}
      BY <2>2 DEF Next, Main, Pool, Others, ReadManifests, ReadLayer, WarmOwn, CloseWork, VerifyFails, VerifyEnds,
           ReWarm, StartPass, Abort, Return, Send, WarmNext, Fetched, FetchFails, WorkerExits, ForeignStarts,
           ForeignEnds, vars, mainVars
    <3> QED
      BY <3>1, EarnedStays DEF ServedInv
  <2> QED
    BY <2>1, <2>2
<1>5. OkIsServed'
  <2> SUFFICES ASSUME report'.verdict = "ok", NEW i \in Payloads PROVE Earned(i)'
    BY DEF OkIsServed, Earned, Servable, Wanted
  <2>1. CASE report' = report
    <3>1. Earned(i)
      BY <2>1 DEF ServedInv, OkIsServed, Earned, Servable
    <3> QED
      BY <3>1, EarnedStays
  <2>2. CASE VerifyFails
    <3>1. main = "verify" /\ warmErr = {}
      BY <2>2 DEF VerifyFails, Return
    <3> QED
      BY <3>1, EarnedStays DEF ServedInv
  <2>3. CASE VerifyEnds
    <3>1. AllOnDisk
      BY <2>3 DEF VerifyEnds, Return
    <3> QED
      BY <3>1, OnDiskIsEarned, EarnedStays DEF AllOnDisk
  <2>4. CASE ReadManifests \/ ReadLayer \/ WarmOwn
    BY <2>1, <2>4 DEF ReadManifests, ReadLayer, WarmOwn, Abort, Return
  <2>5. CASE CloseWork \/ Collect \/ ReWarm \/ Pool \/ Others \/ UNCHANGED vars
    BY <2>1, <2>5 DEF CloseWork, Collect, ReWarm, Pool, Others, Send, WarmNext, Fetched, FetchFails, WorkerExits,
       ForeignStarts, ForeignEnds, vars, mainVars
  <2> QED
    BY <2>2, <2>3, <2>4, <2>5 DEF Next, Main
<1> QED
  BY <1>1, <1>2, <1>3, <1>4, <1>5 DEF ServedInv, Servable, Progress

-----------------------------------------------------------------------------
(* A calm re-warm stores                                                   *)

InModes == \A w \in Worker : wpc[w] = "fetch" => mode[w] = "store" \/ (mode[w] = "hit" /\ Fetching(w) \in store)

\* Without another client a fetch is a hit or stores.
LEMMA ModesKept ==
    ASSUME RunTypes, [Next]_vars, InPass, ~WarmOwn, ~ReWarm, foreign = {}, InModes
    PROVE  InModes'
<1>1. ASSUME UNCHANGED <<wpc, img, at, mode>> PROVE InModes'
  BY <1>1, StoreGrows DEF InModes, Fetching
<1>2. CASE Main
  BY <1>1, <1>2 DEF Main, InPass, ReadManifests, ReadLayer, CloseWork, Collect, VerifyFails, VerifyEnds, workerVars
<1>3. CASE Others \/ UNCHANGED vars
  BY <1>1, <1>3 DEF Others, ForeignStarts, ForeignEnds, vars, workerVars
<1>4. ASSUME NEW w \in Worker, Send(w) \/ WarmNext(w) \/ Fetched(w) \/ FetchFails(w) \/ WorkerExits(w)
      PROVE  InModes'
  <2>1. \A v \in Worker \ {w} : Fetching(v)' = Fetching(v) /\ wpc'[v] = wpc[v] /\ mode'[v] = mode[v]
    <3>1. \A v \in Worker \ {w} : mode'[v] = mode[v]
      BY <1>4 DEF Send, WarmNext, Fetched, FetchFails, WorkerExits, RunTypes, TypeOK
    <3> QED
      BY <1>4, <3>1, UnderApart
  <2>2. wpc'[w] = "fetch" => mode'[w] = "store" \/ (mode'[w] = "hit" /\ Fetching(w)' \in store')
    <3> SUFFICES ASSUME wpc'[w] = "fetch"
                 PROVE  mode'[w] = "store" \/ (mode'[w] = "hit" /\ Fetching(w)' \in store')
      OBVIOUS
    <3>1. WarmNext(w)
      BY <1>4 DEF Send, WarmNext, Fetched, FetchFails, WorkerExits, Finish, AfterImage, RunTypes, TypeOK
    <3>2. /\ mode'[w] = ModeOf(Plan[img[w]][at[w]]) /\ img'[w] = img[w] /\ at'[w] = at[w]
          /\ wpc'[w] = "fetch" /\ store' = store
      BY <3>1 DEF WarmNext, Finish, AfterImage, RunTypes, TypeOK, proxyVars
    <3>3. Fetching(w)' = Plan[img[w]][at[w]]
      BY <3>2 DEF Fetching
    <3> QED
      BY <3>2, <3>3 DEF ModeOf
  <2> QED
    BY <2>1, <2>2, StoreGrows DEF InModes
<1> QED
  BY <1>2, <1>3, <1>4 DEF Next, Pool

\* What is marked as seen is marked by a fetch.
LEMMA SeenKept ==
    ASSUME RunTypes, [Next]_vars, InPass, ~WarmOwn, ~ReWarm, \A w \in Worker : ~FetchFails(w),
           NEW b \in seen', b \notin seen
    PROVE  b \in Under'
<1>1. ~Main /\ ~Others /\ ~UNCHANGED vars
  BY DEF Main, InPass, ReadManifests, ReadLayer, CloseWork, Collect, VerifyFails, VerifyEnds, Others,
         ForeignStarts, ForeignEnds, vars
<1>2. PICK w \in Worker : WarmNext(w)
  BY <1>1 DEF Next, Pool, Send, Fetched, WorkerExits
<1>3. /\ seen' = Claimed(Plan[img[w]][at[w]]) /\ wpc' = [wpc EXCEPT ![w] = "fetch"]
      /\ UNCHANGED <<img, at>>
  BY <1>2 DEF WarmNext
<1>4. b \in Blob /\ b = Plan[img[w]][at[w]] /\ wpc'[w] = "fetch"
  BY <1>3 DEF Claimed, RunTypes, TypeOK
<1>5. Fetching(w)' = b /\ b # None
  BY <1>3, <1>4, PlanFacts DEF Fetching
<1> QED
  BY <1>5 DEF Under

\* In a calm pass each step stores what it passes.
LEMMA CalmKept ==
    ASSUME RunTypes, CalmInv, [Next]_vars
    PROVE  CalmInv'
<1> SUFFICES ASSUME InPass', round' > 0, calm'
             PROVE  /\ foreign' = {}
                    /\ seen' \subseteq Storing'
                    /\ InModes'
                    /\ Progress(Storing', result', img', at')
  BY DEF CalmInv, InModes, Progress, Wanted
<1>1. CASE ReWarm
  <2>1. main' = "send"
    BY <1>1 DEF ReWarm, StartPass
  <2>2. Starts /\ seen' = {} /\ calm' = (foreign = {})
    BY <1>1, <2>1, PassStarts
  <2>3. foreign' = {} /\ InModes'
    BY <2>2 DEF Starts, InModes
  <2> QED
    BY <2>2, <2>3, ProgressStarts
<1>2. CASE WarmOwn
  <2>1. round' = round /\ main' = "send"
    BY <1>2, InPassBefore DEF WarmOwn
  <2>2. round = 0
    BY <1>2 DEF WarmOwn, RunTypes
  <2> QED
    BY <2>1, <2>2
<1>3. CASE ~ReWarm /\ ~WarmOwn
  <2>1. InPass /\ UNCHANGED round
    BY <1>3, InPassBefore
  <2>2. calm /\ \A w \in Worker : ~FetchFails(w)
    <3>1. CASE Main
      BY <1>3, <2>1, <3>1 DEF Main, InPass, ReadManifests, ReadLayer, CloseWork, Collect, VerifyFails, VerifyEnds, FetchFails
    <3>2. CASE Pool
      BY <3>2 DEF Pool, Send, WarmNext, Fetched, FetchFails, WorkerExits
    <3>3. CASE Others \/ UNCHANGED vars
      BY <3>3 DEF Others, ForeignStarts, ForeignEnds, FetchFails, vars
    <3> QED
      BY <3>1, <3>2, <3>3 DEF Next
  <2>3. foreign = {} /\ seen \subseteq Storing /\ InModes /\ Progress(Storing, result, img, at)
    BY <2>1, <2>2 DEF CalmInv, InModes
  <2>4. Storing \subseteq Storing'
    BY <2>2, <2>3, StoringGrows DEF InModes
  <2>5. InModes'
    BY <1>3, <2>1, <2>3, ModesKept
  <2>6. seen' \subseteq Storing'
    BY <1>3, <2>1, <2>2, <2>3, <2>4, SeenKept DEF Storing
  <2>7. Progress(Storing', result, img, at) /\ seen \cup Under \subseteq Storing'
    BY <2>3, <2>4, ProgressGrows DEF Storing
  <2>8. Progress(Storing', result', img', at')
    BY <1>3, <2>1, <2>2, <2>7, ProgressKept
  <2>9. foreign' = {}
    BY <2>2, <2>3 DEF Next, Main, Pool, Others, ReadManifests, ReadLayer, WarmOwn, CloseWork, Collect, VerifyFails,
       VerifyEnds, ReWarm, Send, WarmNext, Fetched, FetchFails, WorkerExits, ForeignStarts, ForeignEnds, vars, proxyVars
  <2> QED
    BY <2>5, <2>6, <2>8, <2>9
<1> QED
  BY <1>1, <1>2, <1>3

-----------------------------------------------------------------------------
(* The theorems                                                            *)

\* It holds before the first step.
LEMMA RunStarts == Init => RunInv
<1> SUFFICES ASSUME Init PROVE RunInv
  OBVIOUS
<1>1. TypeOK
  <2>1. report \in Report
    <3>1. 0 \in 0 .. Cardinality(Image)
      BY PullAssumption, FS_CardinalityType
    <3> QED
      BY <3>1 DEF Init, NoReport, Report
  <2>2. store \subseteq Item /\ 0 \in 0 .. MaxForeign
    BY PullAssumption DEF Init
  <2>3. pos \in 0 .. Len(ReadPlan) + 1 /\ sent \in 0 .. Len(All) /\ round \in 0 .. VerifyRounds
    BY ReadFacts, AllFacts DEF Init, VerifyRounds
  <2>4. calm \in BOOLEAN
    BY DEF Init
  <2> QED
    BY <2>1, <2>2, <2>3, <2>4 DEF Init, TypeOK
<1>2. RunTypes
  BY <1>1 DEF Init, RunTypes, PoolGone
<1>3. HandsInv /\ CalmInv
  BY DEF Init, HandsInv, CalmInv, InPass
<1>4. ServedInv
  BY DEF Init, ServedInv, OkIsServed, NoReport, InPass
<1> QED
  BY <1>2, <1>3, <1>4 DEF RunInv

\* A run of pull-release keeps the inductive invariant.
THEOREM RunInvariant == Spec => []RunInv
<1>1. RunInv /\ PoolInv /\ [Next]_vars => RunInv'
  BY TypesKept, HandsKept, ServedKept, CalmKept DEF RunInv
<1> QED
  BY <1>1, RunStarts, PoolInvariant, PTL DEF Spec

\* Every variable has its type.
THEOREM ReleaseTypes == Spec => []TypeOK
<1>1. RunInv => TypeOK
  BY DEF RunInv, RunTypes
<1> QED
  BY <1>1, RunInvariant, PTL

\* An unverified success means that every item of every payload image was served
\* in full, although workers skip what others are still fetching.
THEOREM UnverifiedIsEarned == Spec => []OkIsServed
<1>1. RunInv => OkIsServed
  BY DEF RunInv, ServedInv
<1> QED
  BY <1>1, RunInvariant, PTL

\* No image is lost between the channel and the results.
THEOREM NoResultIsLost == Spec => []AllResultsIn
<1>1. RunInv => AllResultsIn
  BY ResultsAreIn DEF RunInv
<1> QED
  BY <1>1, RunInvariant, PTL

\* A re-warm that nothing disturbs stores its images completely.
THEOREM CalmPassesStore == Spec => []CalmPassStores
<1>1. RunInv => CalmPassStores
  <2> SUFFICES ASSUME RunInv, main = "verify", round > 0, calm, NEW i \in batch \ Unserved PROVE Wanted(i) \subseteq store
    BY DEF CalmPassStores
  <2>1. InPass /\ PoolGone /\ i \in Image /\ result[i] # "none"
    BY ResultsAreIn DEF RunInv, RunTypes, TypeOK, InPass, AllResultsIn
  <2>2. Wanted(i) \subseteq Storing
    BY <2>1 DEF RunInv, CalmInv, Progress
  <2>3. Under = {}
    BY <2>1 DEF Under, Fetching, PoolGone
  <2> QED
    BY <2>2, <2>3 DEF Storing
<1> QED
  BY <1>1, RunInvariant, PTL
-----------------------------------------------------------------------------
(* The count of the summary line                                           *)

\* Failures are of images this run is about, and a failure has been counted.
CountInv ==
    /\ warmErr \subseteq {Release} \cup Payloads
    /\ FailureIsCounted

\* There are as many images to count as the release lists, and one.
LEMMA ImagesInAll ==
    ASSUME NEW S, S \subseteq {Release} \cup Payloads
    PROVE  /\ Cardinality(S) \in 0 .. Len(Payload) + 1
           /\ Cardinality(S) = 0 <=> S = {}
<1> DEFINE f == [k \in 1 .. Len(All) |-> All[k]]
<1>1. Len(All) = Len(Payload) + 1 /\ Len(Payload) \in Nat
  BY PullAssumption DEF All
<1>2. f \in Surjection(1 .. Len(All), {Release} \cup Payloads)
  BY AllFacts DEF Surjection
<1>3. IsFiniteSet(1 .. Len(All)) /\ Cardinality(1 .. Len(All)) = Len(All)
  BY <1>1, FS_Interval
<1>4. /\ IsFiniteSet({Release} \cup Payloads)
      /\ Cardinality({Release} \cup Payloads) <= Len(All)
  BY <1>2, <1>3, FS_Surjection
<1>5. /\ IsFiniteSet(S) /\ Cardinality(S) <= Cardinality({Release} \cup Payloads)
      /\ Cardinality(S) \in Nat /\ Cardinality({Release} \cup Payloads) \in Nat
  BY <1>4, FS_Subset, FS_CardinalityType
<1>6. Cardinality(S) = 0 <=> S = {}
  BY <1>5, FS_EmptySet
<1> QED
  BY <1>1, <1>4, <1>5, <1>6

\* A count of failures is of the images this run is about, and never 0.
LEMMA CountKept == ASSUME RunInv, CountInv, [Next]_vars PROVE CountInv'
<1>1. CASE Collect
  <2>1. InPass /\ UNCHANGED report
    BY <1>1 DEF Collect, InPass
  <2>2. \A i \in Image : result[i] # "none" => i \in {Release} \cup Payloads
    BY <2>1 DEF RunInv, HandsInv, Handed
  <2>3. \A i \in warmErr' : i \in warmErr \/ (i \in Image /\ result[i] # "none")
    BY <1>1 DEF Collect
  <2> QED
    BY <2>1, <2>2, <2>3 DEF CountInv, FailureIsCounted
<1>2. CASE VerifyFails
  <2>1. report' = [verdict |-> IF warmErr = {} THEN "ok" ELSE "failed", verified |-> FALSE, count |-> Cardinality(warmErr)]
    BY <1>2 DEF VerifyFails, Return
  <2>2. Cardinality(warmErr) \in 0 .. Len(Payload) + 1 /\ (Cardinality(warmErr) = 0 <=> warmErr = {})
    BY ImagesInAll DEF CountInv
  <2>3. report'.verdict = "failed" => report'.count \in 1 .. Len(Payload) + 1
    BY <2>1, <2>2
  <2>4. report'.verdict = "ok" => report'.count = 0
    BY <2>1, <2>2
  <2>5. warmErr' = warmErr
    BY <1>2 DEF VerifyFails
  <2> QED
    BY <2>3, <2>4, <2>5 DEF CountInv, FailureIsCounted
<1>3. CASE VerifyEnds
  <2>1. report' = [verdict |-> IF AllOnDisk THEN "ok" ELSE "failed", verified |-> TRUE, count |-> Cardinality(Missing)]
    BY <1>3 DEF VerifyEnds, Return
  <2>2. Missing \subseteq {Release} \cup Payloads /\ (Missing = {} <=> AllOnDisk)
    BY DEF Missing, AllOnDisk
  <2>3. Cardinality(Missing) \in 0 .. Len(Payload) + 1 /\ (Cardinality(Missing) = 0 <=> AllOnDisk)
    BY <2>2, ImagesInAll
  <2>4. report'.verdict = "failed" => report'.count \in 1 .. Len(Payload) + 1
    BY <2>1, <2>3
  <2>5. report'.verdict = "ok" => report'.count = 0
    BY <2>1, <2>3
  <2>6. warmErr' = warmErr
    BY <1>3 DEF VerifyEnds
  <2> QED
    BY <2>4, <2>5, <2>6 DEF CountInv, FailureIsCounted
<1>4. ASSUME UNCHANGED warmErr, report' = report \/ report'.verdict = "error" PROVE CountInv'
  BY <1>4 DEF CountInv, FailureIsCounted
<1>5. CASE ReadManifests \/ ReadLayer \/ WarmOwn
  BY <1>4, <1>5 DEF ReadManifests, ReadLayer, WarmOwn, Abort, Return
<1>6. CASE CloseWork \/ ReWarm \/ Pool \/ Others \/ UNCHANGED vars
  BY <1>4, <1>6 DEF CloseWork, ReWarm, Pool, Others, Send, WarmNext, Fetched, FetchFails, WorkerExits, ForeignStarts,
     ForeignEnds, vars, mainVars
<1> QED
  BY <1>1, <1>2, <1>3, <1>5, <1>6 DEF Next, Main

\* A run that failed says so of at least one image and of at most one more than
\* the release lists, the release image itself; a run that went well counts none.
THEOREM FailuresAreCounted == Spec => []FailureIsCounted
<1>1. Init => CountInv
  BY DEF Init, NoReport, CountInv, FailureIsCounted
<1>2. RunInv /\ CountInv /\ [Next]_vars => CountInv'
  BY CountKept
<1>3. CountInv => FailureIsCounted
  BY DEF CountInv
<1> QED
  BY <1>1, <1>2, <1>3, RunInvariant, PTL DEF Spec
-----------------------------------------------------------------------------
(* A run comes to its end                                                  *)

\* The order of the stages within a round
Stage(m) == IF m = "manifest" THEN 0 ELSE IF m = "layers" THEN 1 ELSE IF m = "own" THEN 2 ELSE
            IF m = "send" THEN 3 ELSE IF m = "wait" THEN 4 ELSE IF m = "verify" THEN 5 ELSE 6

\* The worker is nearer to the end of its image, or done with it, or gone; the
\* others are where they were.
WorkerGoesOn(w) ==
    /\ \A v \in Worker \ {w} : wpc'[v] = wpc[v] /\ img'[v] = img[v] /\ at'[v] = at[v]
    /\ \/ wpc[w] \in {"next", "fetch"} /\ wpc'[w] = "recv"
       \/ wpc[w] = "recv" /\ wpc'[w] = "exit"
       \/ wpc[w] = "next" /\ wpc'[w] = "fetch" /\ img'[w] = img[w] /\ at'[w] = at[w]
       \/ /\ wpc[w] \in {"next", "fetch"} /\ wpc'[w] = "next" /\ img'[w] = img[w]
          /\ at[w] \in 1 .. Len(Plan[img[w]]) /\ at'[w] = at[w] + 1

\* The rounds go up to their bound, within a round the stages follow each other,
\* and within a stage the release's plan, the images and the workers' places do.
RunGoesOn ==
    \/ main # "done" /\ main' = "done"
    \/ round < VerifyRounds /\ round' = round + 1
    \/ round' = round /\ Stage(main) < Stage(main')
    \/ /\ round' = round /\ main' = main
       /\ \/ main = "layers" /\ pos \in 1 .. Len(ReadPlan) /\ pos' = pos - 1
          \/ main = "own" /\ pos \in 1 .. Len(ReadPlan) /\ pos' = pos + 1
          \/ main = "send" /\ sent < sent' /\ sent' <= Len(All)
          \/ main \in {"send", "wait"} /\ sent' = sent /\ \E w \in Worker : WorkerGoesOn(w)

RunComesToAnEnd ==
    /\ Main \/ Pool => RunGoesOn
    /\ ~(Main \/ Pool) => UNCHANGED <<main, pos, round, sent, wpc, img, at>>

\* A step of the main goroutine.
LEMMA MainGoesOn == ASSUME RunTypes, Main PROVE RunGoesOn
<1>1. CASE ReadManifests \/ CloseWork \/ Collect \/ VerifyFails \/ VerifyEnds
  BY <1>1 DEF ReadManifests, CloseWork, Collect, VerifyFails, VerifyEnds, Abort, Return, RunGoesOn, Stage
<1>2. CASE ReadLayer
  <2>1. main = "layers" /\ round' = round
    BY <1>2 DEF ReadLayer
  <2>2. pos < LayersFrom => main' = "done"
    BY <1>2 DEF ReadLayer, Return
  <2>3. ~(pos < LayersFrom) => pos \in 1 .. Len(ReadPlan)
    BY <2>1, ReadFacts DEF RunTypes, TypeOK
  <2>4. ~(pos < LayersFrom) => main' \in {"done", "own"} \/ (main' = main /\ pos' = pos - 1)
    BY <1>2 DEF ReadLayer, Abort, Return
  <2> QED
    BY <2>1, <2>2, <2>3, <2>4 DEF RunGoesOn, Stage
<1>3. CASE WarmOwn
  <2>1. main = "own" /\ round' = round
    BY <1>3 DEF WarmOwn
  <2>2. pos > Len(ReadPlan) => main' = "send"
    BY <1>3 DEF WarmOwn, StartPass
  <2>3. ~(pos > Len(ReadPlan)) => pos \in 1 .. Len(ReadPlan)
    BY <2>1, ReadFacts DEF RunTypes, TypeOK
  <2>4. ~(pos > Len(ReadPlan)) => main' = "done" \/ (main' = main /\ pos' = pos + 1)
    BY <1>3 DEF WarmOwn, Abort, Return
  <2> QED
    BY <2>1, <2>2, <2>3, <2>4 DEF RunGoesOn, Stage
<1>4. CASE ReWarm
  BY <1>4 DEF ReWarm, RunGoesOn
<1> QED
  BY <1>1, <1>2, <1>3, <1>4 DEF Main

\* A step of a worker.
LEMMA PoolGoesOn == ASSUME RunTypes, NEW w \in Worker,
                           Send(w) \/ WarmNext(w) \/ Fetched(w) \/ FetchFails(w) \/ WorkerExits(w)
                    PROVE  RunGoesOn
<1>1. CASE Send(w)
  <2>1. PICK k \in Due : sent' = k
    BY <1>1 DEF Send
  <2>2. k \in sent + 1 .. Len(All) /\ sent \in Nat /\ Len(All) \in Nat
    BY AllFacts DEF Due, RunTypes, TypeOK
  <2>3. main = "send" /\ main' = main /\ round' = round
    BY <1>1 DEF Send
  <2> QED
    BY <2>1, <2>2, <2>3 DEF RunGoesOn
<1>2. CASE WarmNext(w) \/ Fetched(w) \/ FetchFails(w) \/ WorkerExits(w)
  <2>1. main \in {"send", "wait"}
    BY <1>2 DEF WarmNext, Fetched, FetchFails, WorkerExits, RunTypes, PoolGone
  <2>2. main' = main /\ round' = round /\ sent' = sent
    BY <1>2 DEF WarmNext, Fetched, FetchFails, WorkerExits, mainVars
  <2>3. \A v \in Worker \ {w} : wpc'[v] = wpc[v] /\ img'[v] = img[v] /\ at'[v] = at[v]
    BY <1>2 DEF WarmNext, Fetched, FetchFails, WorkerExits, Finish, RunTypes, TypeOK
  <2>4. CASE WarmNext(w)
    <3>1. wpc[w] = "next" /\ img[w] \in Image /\ at[w] \in Nat /\ at[w] >= 1
      BY <2>4 DEF WarmNext, RunTypes, TypeOK
    <3>2. at[w] <= Len(Plan[img[w]]) => at[w] \in 1 .. Len(Plan[img[w]])
      BY <3>1, PlanFacts
    <3>3. \/ wpc'[w] = "recv"
          \/ at[w] <= Len(Plan[img[w]]) /\ wpc'[w] = "next" /\ img'[w] = img[w] /\ at'[w] = at[w] + 1
          \/ wpc'[w] = "fetch" /\ img'[w] = img[w] /\ at'[w] = at[w]
      BY <2>4, <3>1 DEF WarmNext, Finish, AfterImage, RunTypes, TypeOK
    <3> QED
      BY <2>1, <2>2, <2>3, <3>1, <3>2, <3>3 DEF RunGoesOn, WorkerGoesOn
  <2>5. CASE Fetched(w)
    <3>1. wpc[w] = "fetch" /\ img[w] \in Image /\ at[w] \in 1 .. Len(Plan[img[w]])
      BY <2>5, FetchingFacts DEF Fetched
    <3>2. wpc'[w] = "next" /\ img'[w] = img[w] /\ at'[w] = at[w] + 1
      BY <2>5 DEF Fetched, RunTypes, TypeOK
    <3> QED
      BY <2>1, <2>2, <2>3, <3>1, <3>2 DEF RunGoesOn, WorkerGoesOn
  <2>6. CASE FetchFails(w)
    <3>1. wpc[w] = "fetch" /\ wpc'[w] = "recv"
      BY <2>6 DEF FetchFails, Finish, AfterImage, RunTypes, TypeOK
    <3> QED
      BY <2>1, <2>2, <2>3, <3>1 DEF RunGoesOn, WorkerGoesOn
  <2>7. CASE WorkerExits(w)
    <3>1. wpc[w] = "recv" /\ wpc'[w] = "exit"
      BY <2>7 DEF WorkerExits, RunTypes, TypeOK
    <3> QED
      BY <2>1, <2>2, <2>3, <3>1 DEF RunGoesOn, WorkerGoesOn
  <2> QED
    BY <1>2, <2>4, <2>5, <2>6, <2>7
<1> QED
  BY <1>1, <1>2

\* Each step of the run brings it nearer to its end, in an order in which nothing
\* can go on for ever, and other clients do not set it back.
THEOREM RunsAreFinite == Spec => [][RunComesToAnEnd]_vars
<1>1. RunInv /\ [Next]_vars => RunComesToAnEnd
  <2> SUFFICES ASSUME RunInv, [Next]_vars PROVE RunComesToAnEnd
    OBVIOUS
  <2>1. RunTypes
    BY DEF RunInv
  <2>2. Main \/ Pool => RunGoesOn
    BY <2>1, MainGoesOn, PoolGoesOn DEF Pool
  <2>3. Others \/ UNCHANGED vars => UNCHANGED <<main, pos, round, sent, wpc, img, at>>
    BY DEF Others, ForeignStarts, ForeignEnds, vars, mainVars, workerVars
  <2> QED
    BY <2>2, <2>3 DEF RunComesToAnEnd, Next
<1> QED
  BY <1>1, RunInvariant, PTL DEF Spec

\* Until the run is done, somebody is at a step it can take: the main goroutine
\* reads or verifies; or it has an image to hand out, and a worker to take it or one
\* that is busy; or it has none left; or a worker can leave, is busy, or all are gone.
SomebodyCanGo ==
    \/ main \in {"manifest", "layers", "own", "done"}
    \/ main = "verify" /\ (AllOnDisk \/ round = VerifyRounds \/ round < VerifyRounds)
    \/ main = "send" /\ (Due = {} \/ \E w \in Worker : wpc[w] \in {"recv", "next", "fetch"})
    \/ main = "wait" /\ (PoolGone \/ \E w \in Worker : wpc[w] \in {"recv", "next", "fetch"})

\* While images are handed out no worker has left: leaving is for when the channel
\* is closed.
NobodyLeaves == main = "send" => \A w \in Worker : wpc[w] # "exit"

\* No send is without a worker to take it, and no wait without one to wait for.
THEOREM RunsDoNotStick == Spec => [](NobodyLeaves /\ SomebodyCanGo)
<1>1. Init => NobodyLeaves
  BY DEF Init, NobodyLeaves
<1>2. RunInv /\ NobodyLeaves /\ [Next]_vars => NobodyLeaves'
  <2> SUFFICES ASSUME RunTypes, NobodyLeaves, [Next]_vars, main' = "send", NEW w \in Worker PROVE wpc'[w] # "exit"
    BY DEF RunInv, NobodyLeaves
  <2>1. CASE WarmOwn \/ ReWarm
    BY <2>1, PassStarts DEF Starts
  <2>2. CASE ReadManifests \/ ReadLayer \/ CloseWork \/ Collect \/ VerifyFails \/ VerifyEnds
    BY <2>2 DEF ReadManifests, ReadLayer, CloseWork, Collect, VerifyFails, VerifyEnds, Abort, Return
  <2>3. ASSUME NEW v \in Worker, Send(v) \/ WarmNext(v) \/ Fetched(v) \/ FetchFails(v) \/ WorkerExits(v)
        PROVE  wpc'[w] # "exit"
    BY <2>3 DEF Send, WarmNext, Fetched, FetchFails, WorkerExits, Finish, AfterImage, mainVars, RunTypes, TypeOK, NobodyLeaves
  <2>4. CASE Others \/ UNCHANGED vars
    BY <2>4 DEF Others, ForeignStarts, ForeignEnds, vars, mainVars, workerVars, NobodyLeaves
  <2> QED
    BY <2>1, <2>2, <2>3, <2>4 DEF Next, Main, Pool
<1>3. RunInv /\ NobodyLeaves => SomebodyCanGo
  <2> SUFFICES ASSUME RunTypes, NobodyLeaves PROVE SomebodyCanGo
    BY DEF RunInv
  <2>1. \A w \in Worker : wpc[w] # "exit" => wpc[w] \in {"recv", "next", "fetch"}
    BY DEF RunTypes, TypeOK
  <2>2. \E w \in Worker : TRUE
    BY PullAssumption
  <2>3. round = VerifyRounds \/ round < VerifyRounds
    BY DEF RunTypes, TypeOK, VerifyRounds
  <2>4. main \in {"manifest", "layers", "own", "send", "wait", "verify", "done"}
    BY DEF RunTypes, TypeOK
  <2> QED
    BY <2>1, <2>2, <2>3, <2>4 DEF SomebodyCanGo, NobodyLeaves, PoolGone
<1> QED
  BY <1>1, <1>2, <1>3, RunInvariant, PTL DEF Spec
-----------------------------------------------------------------------------
(* The pool and the main goroutine are one of the shared map's behaviours  *)

\* What is marked and not under way
Landed == seen \ {Fetching(w) : w \in Worker}

\* Of a fetch under way Flights sees the blob.
LEMMA JobFacts ==
    ASSUME NEW w \in Worker
    PROVE  /\ None \notin Blob
           /\ Fetching(w) \in Blob => Job(w) = Fetching(w) /\ Job(w) # None
           /\ Fetching(w) \notin Blob => Job(w) = None
           /\ wpc[w] # "fetch" => Fetching(w) = None /\ Job(w) = None
BY PlanFacts DEF Job, Fetching

\* A step that starts and ends no fetch of a blob, and marks and serves none, is
\* not seen in Flights.
LEMMA FlightStands ==
    ASSUME \A w \in Worker : Job(w)' = Job(w), Landed' = Landed, (served \cap Blob)' = served \cap Blob
    PROVE  UNCHANGED Flight!vars
BY DEF Flight!vars, Landed

\* A main goroutine that is alone reads a blob and marks it, or takes a new map.
LEMMA ReadsFlight ==
    ASSUME PoolGone, \A w \in Worker : wpc'[w] # "fetch",
           \/ \E b \in Blob : seen' = seen \cup {b} /\ served' = served \cup {b}
           \/ seen' = {} /\ served' = served
    PROVE  Flight!Next
<1>1. \A w \in Worker : /\ Fetching(w) = None /\ Job(w) = None
                        /\ Fetching(w)' = None /\ Job(w)' = None
  BY PlanFacts DEF PoolGone, Job, Fetching
<1>2. None \notin Blob
  BY PlanFacts
<1>3. Flight!NobodyFlies /\ [w \in Worker |-> Job(w)]' = [w \in Worker |-> Job(w)]
  BY <1>1 DEF Flight!NobodyFlies
<1>4. ASSUME NEW b \in Blob, seen' = seen \cup {b}, served' = served \cup {b} PROVE Flight!Next
  <2>1. Landed' = Landed \cup {b}
    BY <1>1, <1>2, <1>4 DEF Landed
  <2>2. (served \cap Blob)' = (served \cap Blob) \cup {b}
    BY <1>4
  <2>3. Flight!Reads(b)
    BY <1>3, <2>1, <2>2 DEF Flight!Reads, Landed
  <2> QED
    BY <2>3 DEF Flight!Next
<1>5. ASSUME seen' = {}, served' = served PROVE Flight!Next
  <2>1. Landed' = {} /\ (served \cap Blob)' = served \cap Blob
    BY <1>5 DEF Landed
  <2>2. Flight!Anew
    BY <1>3, <2>1 DEF Flight!Anew, Landed
  <2> QED
    BY <2>2 DEF Flight!Next
<1> QED
  BY <1>4, <1>5

\* Each step of the main goroutine.
LEMMA MainFlight == ASSUME RunTypes, Main PROVE [Flight!Next]_(Flight!vars)
<1>1. CASE ReadManifests \/ CloseWork \/ Collect \/ VerifyFails \/ VerifyEnds
  <2>1. seen' = seen /\ UNCHANGED <<wpc, img, at>>
    BY <1>1 DEF ReadManifests, CloseWork, Collect, VerifyFails, VerifyEnds, workerVars
  <2>2. served' \cap Blob = served \cap Blob
    BY <1>1, PlanFacts DEF ReadManifests, CloseWork, Collect, VerifyFails, VerifyEnds
  <2>3. \A w \in Worker : Fetching(w)' = Fetching(w) /\ Job(w)' = Job(w)
    BY <2>1 DEF Fetching, Job
  <2>4. Landed' = Landed
    BY <2>1, <2>3 DEF Landed
  <2> QED
    BY <2>2, <2>3, <2>4, FlightStands
<1>2. CASE ReadLayer \/ WarmOwn \/ ReWarm
  <2>1. PoolGone /\ \A w \in Worker : wpc'[w] # "fetch"
    BY <1>2 DEF ReadLayer, WarmOwn, ReWarm, StartPass, RunTypes, PoolGone, workerVars
  <2>2. \/ UNCHANGED <<seen, served>>
        \/ \E b \in Blob : seen' = seen \cup {b} /\ served' = served \cup {b}
        \/ seen' = {} /\ served' = served
    <3>1. CASE ReadLayer
      <4>1. pos >= LayersFrom => pos \in 1 .. Len(ReadPlan)
        BY <3>1, ReadFacts DEF ReadLayer, RunTypes, TypeOK
      <4>2. pos >= LayersFrom => ReadPlan[pos] \in Blob
        BY <4>1, PullAssumption
      <4>3. pos < LayersFrom \/ pos >= LayersFrom
        BY ReadFacts DEF RunTypes, TypeOK
      <4>4. pos >= LayersFrom => Claimed(ReadPlan[pos]) = seen \cup {ReadPlan[pos]}
        BY <4>2 DEF Claimed
      <4> QED
        BY <3>1, <4>2, <4>3, <4>4 DEF ReadLayer, MainGets
    <3>2. CASE WarmOwn
      <4>1. ~(pos > Len(ReadPlan)) => pos \in 1 .. Len(ReadPlan) /\ ReadPlan[pos] \in Item
        BY <3>2, ReadFacts DEF WarmOwn, RunTypes, TypeOK
      <4>2. ~(pos > Len(ReadPlan)) /\ ReadPlan[pos] \notin seen \cup Manifest =>
                ReadPlan[pos] \in Blob /\ Claimed(ReadPlan[pos]) = seen \cup {ReadPlan[pos]}
        BY <4>1 DEF Claimed, Item
      <4> QED
        BY <3>2, <4>2 DEF WarmOwn, StartPass, MainGets
    <3>3. CASE ReWarm
      BY <3>3 DEF ReWarm, StartPass, FreshSeen
    <3> QED
      BY <1>2, <3>1, <3>2, <3>3
  <2>3. ASSUME UNCHANGED <<seen, served>> PROVE UNCHANGED Flight!vars
    <3>1. \A w \in Worker : Fetching(w)' = Fetching(w) /\ Job(w)' = Job(w)
      BY <2>1 DEF Fetching, Job, PoolGone
    <3>2. Landed' = Landed
      BY <2>3, <3>1 DEF Landed
    <3> QED
      BY <2>3, <3>1, <3>2, FlightStands
  <2> QED
    BY <2>1, <2>2, <2>3, ReadsFlight
<1> QED
  BY <1>1, <1>2 DEF Main

\* Each step of a worker.
LEMMA WorkerFlight ==
    ASSUME RunTypes, PoolInv, NEW w \in Worker,
           Send(w) \/ WarmNext(w) \/ Fetched(w) \/ FetchFails(w) \/ WorkerExits(w)
    PROVE  [Flight!Next]_(Flight!vars)
<1> DEFINE x == Fetching(w)
           y == Fetching(w)'
<1>1. \A v \in Worker \ {w} : Fetching(v)' = Fetching(v) /\ Job(v)' = Job(v)
  BY UnderApart DEF Job
<1>2. seen \subseteq Blob /\ None \notin Blob /\ (x \in Blob => x \in seen)
      /\ \A v \in Worker \ {w} : Fetching(v) \in Blob => Fetching(v) \in seen /\ Fetching(v) # x
  BY PlanFacts DEF PoolInv, OneFetcher
\* What changes when w's part does
<1>3. /\ \A b : b \in Landed <=> b \in seen /\ b # x /\ \A v \in Worker \ {w} : Fetching(v) # b
      /\ \A b : b \in Landed' <=> b \in seen' /\ b # y /\ \A v \in Worker \ {w} : Fetching(v) # b
  BY <1>1 DEF Landed
<1>4. ASSUME NEW b, Job(w)' = b
      PROVE  [v \in Worker |-> Job(v)]' = [[v \in Worker |-> Job(v)] EXCEPT ![w] = b]
  BY <1>1, <1>4
<1>x. Job(w) = (IF x \in Blob THEN x ELSE None) /\ Job(w)' = (IF y \in Blob THEN y ELSE None)
  BY DEF Job
<1>5. ASSUME x \notin Blob, y \notin Blob, seen' = seen, served' \cap Blob = served \cap Blob
      PROVE  UNCHANGED Flight!vars
  <2>1. \A v \in Worker : Job(v)' = Job(v)
    BY <1>1, <1>5, <1>x
  <2>2. Landed' = Landed
    BY <1>2, <1>3, <1>5
  <2> QED
    BY <1>5, <2>1, <2>2, FlightStands
<1>6. ASSUME x = None, y \in Blob, y \notin seen, seen' = seen \cup {y}, served' = served
      PROVE  Flight!Next
  <2>1. Landed' = Landed /\ y \notin Landed
    BY <1>2, <1>3, <1>6
  <2>2. \A v \in Worker : Job(v) # y
    BY <1>2, <1>6 DEF Job
  <2>3. Job(w) = None /\ Job(w)' = y
    BY <1>2, <1>6, <1>x
  <2>4. Flight!Starts(w, y)
    BY <1>4, <1>6, <2>1, <2>2, <2>3 DEF Flight!Starts, Landed
  <2> QED
    BY <1>6, <2>4 DEF Flight!Next
<1>7. ASSUME x \in Blob, y = None,
             \/ seen' = seen /\ served' = served \cup {x}
             \/ seen' = seen \ {x} /\ served' = served
      PROVE  Flight!Next
  <2>1. Job(w) = x /\ Job(w) # None /\ Job(w)' = None
    BY <1>2, <1>7, <1>x
  <2>2. ASSUME seen' = seen, served' = served \cup {x} PROVE Flight!Lands(w)
    <3>1. Landed' = Landed \cup {x} /\ (served \cap Blob)' = (served \cap Blob) \cup {x}
      BY <1>2, <1>3, <1>7, <2>2
    <3> QED
      BY <1>4, <2>1, <3>1 DEF Flight!Lands, Landed
  <2>3. ASSUME seen' = seen \ {x}, served' = served PROVE Flight!Fails(w)
    <3>1. Landed' = Landed /\ (served \cap Blob)' = served \cap Blob
      BY <1>2, <1>3, <1>7, <2>3
    <3> QED
      BY <1>4, <2>1, <3>1 DEF Flight!Fails, Landed
  <2> QED
    BY <1>7, <2>2, <2>3 DEF Flight!Next
<1>8. CASE Send(w) \/ WorkerExits(w)
  <2>1. x = None /\ y = None /\ UNCHANGED <<seen, served>>
    BY <1>8 DEF Send, WorkerExits, Fetching, RunTypes, TypeOK
  <2> QED
    BY <1>2, <1>5, <2>1
<1>9. CASE WarmNext(w)
  <2>1. x = None /\ UNCHANGED served /\ img[w] \in Image /\ at[w] \in Nat /\ at[w] >= 1
    BY <1>9 DEF WarmNext, Fetching, RunTypes, TypeOK
  <2>2. CASE Finish(w, Outcome(img[w])) /\ UNCHANGED seen
    <3>1. y = None
      BY <2>2 DEF Finish, AfterImage, Fetching, RunTypes, TypeOK
    <3> QED
      BY <1>2, <1>5, <2>1, <2>2, <3>1
  <2>3. CASE UNCHANGED <<wpc, seen>>
    <3>1. y = None
      BY <1>9, <2>3 DEF WarmNext, Fetching
    <3> QED
      BY <1>2, <1>5, <2>1, <2>3, <3>1
  <2>4. CASE /\ at[w] <= Len(Plan[img[w]])
             /\ Plan[img[w]][at[w]] \notin seen
             /\ wpc' = [wpc EXCEPT ![w] = "fetch"]
             /\ seen' = Claimed(Plan[img[w]][at[w]])
             /\ UNCHANGED <<img, at>>
    <3>1. y = Plan[img[w]][at[w]]
      BY <2>4 DEF Fetching, RunTypes, TypeOK
    <3>2. y \in Item /\ y \notin seen /\ seen' = seen \cup ({y} \cap Blob)
      BY <2>1, <2>4, <3>1, PlanFacts DEF Claimed
    <3>3. CASE y \in Blob
      BY <1>6, <2>1, <3>2, <3>3
    <3>4. CASE y \notin Blob
      <4>1. seen' = seen
        BY <3>2, <3>4
      <4> QED
        BY <1>2, <1>5, <2>1, <3>4, <4>1
    <3> QED
      BY <3>3, <3>4
  <2> QED
    BY <1>9, <2>2, <2>3, <2>4 DEF WarmNext
<1>10. CASE Fetched(w)
  <2>1. x \in Item /\ y = None /\ seen' = seen /\ served' = served \cup {x}
    BY <1>10, FetchingFacts DEF Fetched, Fetching, RunTypes, TypeOK
  <2> QED
    BY <1>2, <1>5, <1>7, <2>1
<1>11. CASE FetchFails(w)
  <2>1. x \in Item /\ y = None /\ seen' = seen \ {x} /\ served' = served
    BY <1>11, FetchingFacts DEF FetchFails, Finish, AfterImage, Released, Fetching, RunTypes, TypeOK
  <2>2. x \notin Blob => seen' = seen
    BY <1>2, <2>1
  <2> QED
    BY <1>2, <1>5, <1>7, <2>1, <2>2
<1> QED
  BY <1>8, <1>9, <1>10, <1>11

\* Whatever the pool, the failures and the other clients do, the workers share the
\* map that Flights promises.
THEOREM PoolImplementsFlights == Spec => ImplementsFlights
<1>1. Init => Flight!Init
  <2> SUFFICES ASSUME Init PROVE Flight!Init
    OBVIOUS
  <2>1. \A w \in Worker : Job(w) = None
    BY JobFacts DEF Init
  <2>2. [w \in Worker |-> Job(w)] = [w \in Worker |-> None]
    BY <2>1
  <2> QED
    BY <2>2 DEF Init, Flight!Init
<1>2. RunInv /\ PoolInv /\ [Next]_vars => [Flight!Next]_(Flight!vars)
  <2> SUFFICES ASSUME RunTypes, PoolInv, [Next]_vars PROVE [Flight!Next]_(Flight!vars)
    BY DEF RunInv
  <2>1. CASE Others \/ UNCHANGED vars
    <3>1. UNCHANGED <<wpc, img, at, seen, served>>
      BY <2>1 DEF Others, ForeignStarts, ForeignEnds, workerVars, vars
    <3>2. \A w \in Worker : Fetching(w)' = Fetching(w) /\ Job(w)' = Job(w)
      BY <3>1 DEF Fetching, Job
    <3>3. Landed' = Landed
      BY <3>1, <3>2 DEF Landed
    <3> QED
      BY <3>1, <3>2, <3>3, FlightStands
  <2> QED
    BY <2>1, MainFlight, WorkerFlight DEF Next, Pool
<1> QED
  BY <1>1, <1>2, RunInvariant, PoolInvariant, PTL DEF Spec, ImplementsFlights, Flight!Spec
=============================================================================
