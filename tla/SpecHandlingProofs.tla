------------------------- MODULE SpecHandlingProofs -------------------------
(***************************************************************************)
(* Theorems about SpecHandling for any sets of specs and requests and any  *)
(* number of hang-ups and faults.  First that what a row names is whole: a *)
(* request owns what it made until its row is recorded, and from then on   *)
(* only a cleaner whose query returned the row changes it.  Then what the  *)
(* order of requests settles.  Last what one failure leaves behind.        *)
(***************************************************************************)
EXTENDS SpecHandling, FiniteSetTheorems, TLAPS

\* A request that has begun is about a spec.
SpecInv == \A r \in Req : pc[r] # "idle" => spec[r] \in SpecID

\* A request that is recording has finished its image and its container.
OwnerInv ==
  \A p \in Poster :
    /\ row[p] # "none" => pc[p] = "over"
    /\ pc[p] \in Forward \ {"generate", "build"} => image[p] # NoImage
    /\ pc[p] \in {"start", "inspect", "record"} => box[p] = "stopped"

\* A cleaner works on what its one query returned, rows that are recorded.
FoundInv ==
  \A k \in Cleaner :
    /\ todo[k] \subseteq found[k]
    /\ \A i \in found[k] : row[i] # "none"
    /\ pc[k] \notin {"clean", "over"} => found[k] = {}

IndInv == TypeOK /\ SpecInv /\ OwnerInv /\ FoundInv /\ RecordedIsWhole

\* The initial state satisfies the invariant.
LEMMA InitInv == Init => IndInv
<1> SUFFICES ASSUME Init PROVE IndInv
  OBVIOUS
<1> USE DEF Init
<1>1. TypeOK
  <2>1. image \in [Poster -> Poster \cup {NoImage, ByTag}]
    BY Zenon
  <2>2. hang \in 0..HangUps /\ docker \in 0..DockerFaults /\ db \in 0..DbFaults
    BY FaultAssumption
  <2> QED BY <2>1, <2>2 DEF TypeOK
<1>2. SpecInv /\ OwnerInv /\ FoundInv /\ RecordedIsWhole
  BY DEF SpecInv, OwnerInv, FoundInv, RecordedIsWhole, Forward, Req
<1> QED BY <1>1, <1>2 DEF IndInv
-----------------------------------------------------------------------------
\* What a step does to the budgets: it spends one of a fault or of a hang-up, or nothing.
LEMMA Budgets ==
  [Next]_vars => UNCHANGED left \/ DockerFails \/ DbFails \/ \E p \in Poster : HangUp(p)
<1> SUFFICES ASSUME [Next]_vars
             PROVE  UNCHANGED left \/ DockerFails \/ DbFails \/ \E p \in Poster : HangUp(p)
  OBVIOUS
<1>1. ASSUME NEW r \in Req, (\E s \in SpecID : Begin(r, s)) \/ FindSpec(r) \/ InsertSpec(r)
      PROVE  UNCHANGED left \/ DbFails
  BY <1>1 DEF Begin, FindSpec, InsertSpec, Works
<1>2. ASSUME NEW p \in Poster,
             FindActive(p) \/ Generate(p) \/ BuildImage(p) \/ CreateContainer(p)
               \/ StartContainer(p) \/ PerformActions(p)
      PROVE  UNCHANGED left \/ DockerFails \/ DbFails
  BY <1>2 DEF FindActive, Generate, BuildImage, CreateContainer, StartContainer,
              PerformActions, Step, CallWorks, CallFails, Works
<1>3. ASSUME NEW p \in Poster,
             Disconnect(p) \/ StopContainer(p) \/ Inspect(p) \/ Kill(p) \/ Remove(p)
               \/ RemoveImage(p) \/ Record(p)
      PROVE  UNCHANGED left \/ DockerFails \/ DbFails
  BY <1>3 DEF Disconnect, StopContainer, Inspect, Kill, Remove, RemoveImage, Record, Step,
              CallWorks, CallFails, Works
<1>4. ASSUME NEW k \in Cleaner, CleanStep(k) PROVE UNCHANGED left \/ DockerFails \/ DbFails
  BY <1>4 DEF CleanStep, QueryUncleaned, CleanRow, CleanDone, Works
<1>5. ASSUME NEW p \in Poster, Expire(p) PROVE UNCHANGED left
  BY <1>5 DEF Expire
<1>6. CASE UNCHANGED vars
  BY <1>6 DEF vars
<1> QED
  BY <1>1, <1>2, <1>3, <1>4, <1>5, <1>6, Zenon DEF Next, PostStep

\* The budgets of hang-ups and faults are only spent.
LEMMA StepLeft ==
  TypeOK /\ [Next]_vars =>
    hang' \in 0..HangUps /\ docker' \in 0..DockerFaults /\ db' \in 0..DbFaults
<1> SUFFICES ASSUME TypeOK, [Next]_vars
             PROVE  hang' \in 0..HangUps /\ docker' \in 0..DockerFaults /\ db' \in 0..DbFaults
  OBVIOUS
<1> USE FaultAssumption DEF TypeOK
<1>1. CASE UNCHANGED left
  BY <1>1 DEF left
<1>2. CASE DockerFails \/ DbFails
  BY <1>2 DEF DockerFails, DbFails
<1>3. ASSUME NEW p \in Poster, HangUp(p)
      PROVE  hang' \in 0..HangUps /\ docker' \in 0..DockerFaults /\ db' \in 0..DbFaults
  BY <1>3 DEF HangUp
<1> QED
  BY <1>1, <1>2, <1>3, Budgets

\* A row's CreatedAt is a number.
LEMMA CountIsNat == TypeOK => Cardinality({i \in Poster : row[i] # "none"}) \in Nat
BY NamesAssumption, FS_Subset, FS_CardinalityType

\* A request's tag comes to name an image, or none.
LEMMA Names ==
  ASSUME NEW S, NEW f \in [Poster -> S], NEW p \in Poster, NEW h \in S
  PROVE  [f EXCEPT ![p] = h] \in [Poster -> S]
OBVIOUS

\* A build comes to an image.
LEMMA BuiltIsImage ==
  ASSUME TypeOK, NEW p \in Poster, NEW h \in Built(p)
  PROVE  h \in Poster \cup {ByTag} /\ h # NoImage
<1>1. h = p \/ h = ByTag \/ \E q \in Poster : h = image[q] /\ h \notin {NoImage, ByTag}
  BY DEF Built
<1> QED BY <1>1, NamesAssumption DEF TypeOK

\* Requests, what they made and what they recorded keep their types.
LEMMA StepTypes == TypeOK /\ SpecInv /\ [Next]_vars => TypeOK'
<1> SUFFICES ASSUME TypeOK, SpecInv, [Next]_vars PROVE TypeOK'
  OBVIOUS
<1>0. hang' \in 0..HangUps /\ docker' \in 0..DockerFaults /\ db' \in 0..DbFaults
  BY StepLeft
<1> USE <1>0, NamesAssumption
        DEF TypeOK, Req, Cleaner, Forward, Back, Goto, request, made, rows, cleaning
<1>1. ASSUME NEW r \in Req, NEW s \in SpecID, Begin(r, s) PROVE TypeOK'
  BY <1>1 DEF Begin
<1>2. ASSUME NEW r \in Req, FindSpec(r) \/ InsertSpec(r) PROVE TypeOK'
  <2>1. specs' \subseteq SpecID
    BY <1>2 DEF FindSpec, InsertSpec, SpecInv, Ends, GoOn
  <2>2. /\ pc' \in [Req -> {"idle", "lookup", "insert", "find", "query", "clean", "stuck", "over"}
                            \cup Forward \cup Back]
        /\ answered' \subseteq Req /\ answer' \in [Poster -> Poster \cup {NoInst}]
    BY <1>2 DEF FindSpec, InsertSpec, GoOn, Ends
  <2>3. UNCHANGED <<spec, seen, image, box, unheard, row, at, todo, found, missed, gone>>
    BY <1>2 DEF FindSpec, InsertSpec
  <2> QED BY <2>1, <2>2, <2>3
<1>3. ASSUME NEW p \in Poster, FindActive(p) \/ Generate(p) PROVE TypeOK'
  BY <1>3, SMTT(30) DEF FindActive, Generate, Ends, Newest, ActiveRows
<1>4. ASSUME NEW p \in Poster, BuildImage(p) PROVE TypeOK'
  <2>1. \A h \in Built(p) : h \in Poster \cup {NoImage, ByTag}
    BY BuiltIsImage
  <2>2. image' \in [Poster -> Poster \cup {NoImage, ByTag}]
    <3>1. image' = image \/ \E h \in Built(p) : image' = [image EXCEPT ![p] = h]
      BY <1>4 DEF BuildImage
    <3> QED BY ONLY TypeOK, <2>1, <3>1, Names DEF TypeOK
  <2>3. /\ pc' \in [Req -> {"idle", "lookup", "insert", "find", "query", "clean", "stuck", "over"}
                            \cup Forward \cup Back]
        /\ answered' \subseteq Req /\ answer' \in [Poster -> Poster \cup {NoInst}]
    BY <1>4 DEF BuildImage, Ends
  <2>4. unheard' \subseteq Poster /\ UNCHANGED <<specs, spec, seen, box, row, at, todo, found, missed, gone>>
    BY <1>4 DEF BuildImage
  <2> QED BY <2>2, <2>3, <2>4
<1>5. ASSUME NEW p \in Poster, CreateContainer(p) \/ StartContainer(p) \/ StopContainer(p)
      PROVE  TypeOK'
  BY <1>5, SMTT(30) DEF CreateContainer, StartContainer, StopContainer, Step, Becomes
<1>6. ASSUME NEW p \in Poster, PerformActions(p) \/ Disconnect(p) \/ Inspect(p) PROVE TypeOK'
  BY <1>6 DEF PerformActions, Disconnect, Inspect, Step
<1>7. ASSUME NEW p \in Poster, Kill(p) \/ Remove(p) PROVE TypeOK'
  BY <1>7 DEF Kill, Remove
<1>8. ASSUME NEW p \in Poster, RemoveImage(p) PROVE TypeOK'
  <2>1. image' \in [Poster -> Poster \cup {NoImage, ByTag}]
    <3>1. \/ image' = image
          \/ image' = [image EXCEPT ![p] = NoImage]
          \/ image' = [image EXCEPT ![p] = image[p]]
      BY <1>8 DEF RemoveImage
    <3> QED BY ONLY TypeOK, <3>1, Names DEF TypeOK
  <2>2. /\ pc' \in [Req -> {"idle", "lookup", "insert", "find", "query", "clean", "stuck", "over"}
                            \cup Forward \cup Back]
        /\ answered' \subseteq Req /\ answer' \in [Poster -> Poster \cup {NoInst}]
    BY <1>8 DEF RemoveImage, Ends
  <2>3. UNCHANGED <<specs, spec, seen, box, unheard, row, at, todo, found, missed, gone>>
    BY <1>8 DEF RemoveImage
  <2> QED BY <2>1, <2>2, <2>3
<1>9. ASSUME NEW p \in Poster, Record(p) PROVE TypeOK'
  <2>1. row' \in [Poster -> {"none", "active", "inactive", "cleaned"}] /\ at' \in [Poster -> Nat]
    BY <1>9, CountIsNat, SMTT(30) DEF Record
  <2>2. /\ pc' \in [Req -> {"idle", "lookup", "insert", "find", "query", "clean", "stuck", "over"}
                            \cup Forward \cup Back]
        /\ answered' \subseteq Req /\ answer' \in [Poster -> Poster \cup {NoInst}]
    BY <1>9, SMTT(30) DEF Record, Ends
  <2>3. UNCHANGED <<specs, spec, seen, image, box, unheard, todo, found, missed, gone>>
    BY <1>9 DEF Record
  <2> QED BY <2>1, <2>2, <2>3
<1>10. ASSUME NEW k \in Cleaner, QueryUncleaned(k) \/ CleanDone(k) PROVE TypeOK'
  BY <1>10 DEF QueryUncleaned, CleanDone, Uncleaned, Ends
<1>11. ASSUME NEW k \in Cleaner, NEW i \in Poster, CleanRow(k, i) PROVE TypeOK'
  BY <1>11 DEF CleanRow
<1>12. ASSUME NEW p \in Poster, HangUp(p) \/ Expire(p) PROVE TypeOK'
  BY <1>12 DEF HangUp, Expire
<1>13. CASE UNCHANGED vars
  BY <1>13 DEF vars, left
<1> QED
  BY <1>1, <1>2, <1>3, <1>4, <1>5, <1>6, <1>7, <1>8, <1>9, <1>10, <1>11, <1>12, <1>13
     DEF Next, PostStep, CleanStep

\* Only Begin leaves idle, and sets the spec.
LEMMA StepSpec == TypeOK /\ SpecInv /\ [Next]_vars => SpecInv'
<1> SUFFICES ASSUME TypeOK, SpecInv, [Next]_vars, NEW r \in Req, pc'[r] # "idle"
             PROVE  spec'[r] \in SpecID
  BY DEF SpecInv
<1> USE DEF TypeOK, SpecInv, Req, Cleaner, Goto, Ends, request
<1>1. ASSUME pc[r] # "idle", UNCHANGED spec PROVE spec'[r] \in SpecID
  BY <1>1
<1>2. ASSUME NEW q \in Req, NEW s \in SpecID, Begin(q, s) PROVE spec'[r] \in SpecID
  BY <1>2 DEF Begin
<1>3. ASSUME NEW q \in Req, FindSpec(q) \/ InsertSpec(q) PROVE spec'[r] \in SpecID
  BY <1>1, <1>3 DEF FindSpec, InsertSpec, GoOn
<1>4. ASSUME NEW p \in Poster, PostStep(p) PROVE spec'[r] \in SpecID
  BY <1>1, <1>4 DEF PostStep, FindActive, Generate, BuildImage, CreateContainer, StartContainer,
                    PerformActions, Disconnect, StopContainer, Inspect, Step, Kill, Remove,
                    RemoveImage, Record
<1>5. ASSUME NEW p \in Poster, HangUp(p) \/ Expire(p) PROVE spec'[r] \in SpecID
  BY <1>1, <1>5 DEF HangUp, Expire
<1>6. ASSUME NEW k \in Cleaner, CleanStep(k) PROVE spec'[r] \in SpecID
  BY <1>1, <1>6 DEF CleanStep, QueryUncleaned, CleanRow, CleanDone
<1>7. CASE UNCHANGED vars
  BY <1>1, <1>7 DEF vars
<1> QED BY <1>2, <1>3, <1>4, <1>5, <1>6, <1>7 DEF Next

\* A request changes what it made, or a cleaner does after the request is over.
LEMMA StepOwner == TypeOK /\ OwnerInv /\ FoundInv /\ [Next]_vars => OwnerInv'
<1> SUFFICES ASSUME TypeOK, OwnerInv, FoundInv, [Next]_vars, NEW p \in Poster
             PROVE  /\ row'[p] # "none" => pc'[p] = "over"
                    /\ pc'[p] \in Forward \ {"generate", "build"} => image'[p] # NoImage
                    /\ pc'[p] \in {"start", "inspect", "record"} => box'[p] = "stopped"
  BY DEF OwnerInv
<1> USE NamesAssumption
        DEF TypeOK, OwnerInv, Req, Cleaner, Forward, Back, Goto, Ends, request, made, rows,
            cleaning
<1> DEFINE Goal == /\ row'[p] # "none" => pc'[p] = "over"
                   /\ pc'[p] \in Forward \ {"generate", "build"} => image'[p] # NoImage
                   /\ pc'[p] \in {"start", "inspect", "record"} => box'[p] = "stopped"
<1>1. ASSUME NEW r \in Req, (\E s \in SpecID : Begin(r, s)) \/ FindSpec(r) \/ InsertSpec(r)
      PROVE  Goal
  BY <1>1 DEF Begin, FindSpec, InsertSpec, GoOn
<1>2. ASSUME NEW q \in Poster, FindActive(q) \/ Generate(q) PROVE Goal
  BY <1>2 DEF FindActive, Generate
<1>3. ASSUME NEW q \in Poster, BuildImage(q) PROVE Goal
  <2>1. \A h \in Built(q) : h # NoImage
    BY BuiltIsImage
  <2>2. p = q => pc'[p] = "over" \/ (pc'[p] = "create" /\ image'[p] # NoImage)
    BY <1>3, <2>1 DEF BuildImage
  <2>3. p = q => row'[p] = "none"
    BY <1>3 DEF BuildImage
  <2>4. p # q => pc'[p] = pc[p] /\ image'[p] = image[p]
    BY <1>3 DEF BuildImage
  <2>5. UNCHANGED <<row, box>>
    BY <1>3 DEF BuildImage
  <2> QED BY <2>2, <2>3, <2>4, <2>5
<1>4. ASSUME NEW q \in Poster, CreateContainer(q) \/ StartContainer(q) \/ StopContainer(q)
      PROVE  Goal
  BY <1>4 DEF CreateContainer, StartContainer, StopContainer, Step, Becomes
<1>5. ASSUME NEW q \in Poster, PerformActions(q) \/ Disconnect(q) \/ Inspect(q) PROVE Goal
  BY <1>5 DEF PerformActions, Disconnect, Inspect, Step
<1>6. ASSUME NEW q \in Poster, Kill(q) \/ Remove(q) PROVE Goal
  BY <1>6 DEF Kill, Remove
<1>7. ASSUME NEW q \in Poster, RemoveImage(q) PROVE Goal
  BY <1>7 DEF RemoveImage
<1>8. ASSUME NEW q \in Poster, Record(q) PROVE Goal
  BY <1>8 DEF Record
<1>9. ASSUME NEW k \in Cleaner, QueryUncleaned(k) \/ CleanDone(k) PROVE Goal
  BY <1>9 DEF QueryUncleaned, CleanDone
<1>10. ASSUME NEW k \in Cleaner, NEW i \in Poster, CleanRow(k, i) PROVE Goal
  <2>1. pc[i] = "over" /\ row[i] # "none"
    BY <1>10 DEF CleanRow, FoundInv
  <2>2. CASE p # i
    BY <1>10, <2>2 DEF CleanRow
  <2>3. CASE p = i
    BY <1>10, <2>1, <2>3 DEF CleanRow
  <2> QED BY <2>2, <2>3
<1>11. ASSUME NEW q \in Poster, HangUp(q) \/ Expire(q) PROVE Goal
  BY <1>11 DEF HangUp, Expire
<1>12. CASE UNCHANGED vars
  BY <1>12 DEF vars
<1> QED
  BY <1>1, <1>2, <1>3, <1>4, <1>5, <1>6, <1>7, <1>8, <1>9, <1>10, <1>11, <1>12
     DEF Next, PostStep, CleanStep

\* A cleaner queries once.
LEMMA StepFound == TypeOK /\ FoundInv /\ [Next]_vars => FoundInv'
<1> SUFFICES ASSUME TypeOK, FoundInv, [Next]_vars, NEW k \in Cleaner
             PROVE  /\ todo'[k] \subseteq found'[k]
                    /\ \A i \in found'[k] : row'[i] # "none"
                    /\ pc'[k] \notin {"clean", "over"} => found'[k] = {}
  BY DEF FoundInv
<1> USE NamesAssumption
        DEF TypeOK, FoundInv, Req, Cleaner, Goto, Ends, request, made, rows, cleaning
<1> DEFINE Goal == /\ todo'[k] \subseteq found'[k]
                   /\ \A i \in found'[k] : row'[i] # "none"
                   /\ pc'[k] \notin {"clean", "over"} => found'[k] = {}
<1>1. ASSUME UNCHANGED <<todo, found>>, \A i \in Poster : row[i] # "none" => row'[i] # "none",
             pc'[k] \notin {"clean", "over"} => pc[k] \notin {"clean", "over"}
      PROVE  Goal
  BY <1>1
<1>2. ASSUME NEW r \in Req, (\E s \in SpecID : Begin(r, s)) \/ FindSpec(r) \/ InsertSpec(r)
      PROVE  Goal
  BY <1>1, <1>2 DEF Begin, FindSpec, InsertSpec, GoOn
<1>3. ASSUME NEW p \in Poster, Record(p) \/ Expire(p) \/ HangUp(p) PROVE Goal
  BY <1>1, <1>3 DEF Record, Expire, HangUp
<1>4. ASSUME NEW p \in Poster,
             FindActive(p) \/ Generate(p) \/ BuildImage(p) \/ CreateContainer(p)
               \/ StartContainer(p) \/ PerformActions(p) \/ Disconnect(p) \/ StopContainer(p)
               \/ Inspect(p) \/ Kill(p) \/ Remove(p) \/ RemoveImage(p)
      PROVE  Goal
  BY <1>1, <1>4 DEF FindActive, Generate, BuildImage, CreateContainer, StartContainer,
                    PerformActions, Disconnect, StopContainer, Inspect, Step, Kill, Remove,
                    RemoveImage
<1>5. ASSUME NEW q \in Cleaner, QueryUncleaned(q) PROVE Goal
  <2>1. UNCHANGED row /\ found' = [found EXCEPT ![q] = todo'[q]]
    BY <1>5 DEF QueryUncleaned
  <2>2. CASE q = k
    <3>1. pc'[k] = "clean"
      BY <1>5, <2>2 DEF QueryUncleaned
    <3>2. \A i \in todo'[k] : row[i] # "none"
      BY <1>5, <2>2 DEF QueryUncleaned, Uncleaned
    <3> QED BY <2>1, <2>2, <3>1, <3>2
  <2>3. CASE q # k
    <3>1. todo'[k] = todo[k] /\ pc'[k] = pc[k]
      BY <1>5, <2>3 DEF QueryUncleaned
    <3> QED BY <2>1, <2>3, <3>1
  <2> QED BY <2>2, <2>3
<1>6. ASSUME NEW q \in Cleaner, CleanDone(q) PROVE Goal
  BY <1>1, <1>6 DEF CleanDone
<1>7. ASSUME NEW q \in Cleaner, NEW i \in Poster, CleanRow(q, i) PROVE Goal
  BY <1>7 DEF CleanRow
<1>8. CASE UNCHANGED vars
  BY <1>1, <1>8 DEF vars
<1> QED
  BY <1>2, <1>3, <1>4, <1>5, <1>6, <1>7, <1>8 DEF Next, PostStep, CleanStep

\* Record finds the image and the container as it needs them, and cleaners take what
\* they have found.
LEMMA StepWhole ==
  TypeOK /\ OwnerInv /\ FoundInv /\ RecordedIsWhole /\ [Next]_vars => RecordedIsWhole'
<1> SUFFICES ASSUME TypeOK, OwnerInv, FoundInv, RecordedIsWhole, [Next]_vars, NEW i \in Poster,
                    row'[i] \in {"active", "inactive"}
             PROVE  (image'[i] # NoImage /\ box'[i] = "stopped") \/ \E k \in Cleaner : i \in found'[k]
  BY DEF RecordedIsWhole
<1> USE NamesAssumption
        DEF TypeOK, RecordedIsWhole, Req, Cleaner, Goto, Ends, request, made, rows, cleaning
<1> DEFINE Goal == (image'[i] # NoImage /\ box'[i] = "stopped") \/ \E k \in Cleaner : i \in found'[k]
<1>1. ASSUME row[i] \in {"active", "inactive"}, UNCHANGED found,
             image'[i] = image[i], box[i] = "stopped" => box'[i] = "stopped"
      PROVE  Goal
  BY <1>1
<1>2. ASSUME NEW r \in Req, (\E s \in SpecID : Begin(r, s)) \/ FindSpec(r) \/ InsertSpec(r)
      PROVE  Goal
  BY <1>1, <1>2 DEF Begin, FindSpec, InsertSpec
<1>3. ASSUME NEW p \in Poster,
             FindActive(p) \/ Generate(p) \/ PerformActions(p) \/ Disconnect(p) \/ Inspect(p)
               \/ HangUp(p) \/ Expire(p)
      PROVE  Goal
  BY <1>1, <1>3 DEF FindActive, Generate, PerformActions, Disconnect, Inspect, Step, HangUp,
                    Expire
<1>4. ASSUME NEW p \in Poster,
             BuildImage(p) \/ CreateContainer(p) \/ StartContainer(p) \/ StopContainer(p)
               \/ Kill(p) \/ Remove(p) \/ RemoveImage(p)
      PROVE  Goal
  <2>1. pc[p] # "over" /\ UNCHANGED <<row, found>>
    BY <1>4 DEF BuildImage, CreateContainer, StartContainer, StopContainer, Step, Kill, Remove,
                RemoveImage
  <2>2. p # i
    BY <2>1 DEF OwnerInv
  <2>3. image'[i] = image[i] /\ box'[i] = box[i]
    BY <1>4, <2>2 DEF BuildImage, CreateContainer, StartContainer, StopContainer, Step, Becomes,
                      Kill, Remove, RemoveImage
  <2> QED BY <1>1, <2>1, <2>3
<1>5. ASSUME NEW p \in Poster, Record(p) PROVE Goal
  <2>1. CASE p = i
    BY <1>5, <2>1 DEF Record, OwnerInv, Forward
  <2>2. CASE p # i
    BY <1>1, <1>5, <2>2 DEF Record
  <2> QED BY <2>1, <2>2
<1>6. ASSUME NEW k \in Cleaner, QueryUncleaned(k) PROVE Goal
  <2>1. found[k] = {} /\ UNCHANGED <<row, image, box>>
    BY <1>6 DEF QueryUncleaned, FoundInv
  <2> QED BY <1>6, <2>1 DEF QueryUncleaned
<1>7. ASSUME NEW k \in Cleaner, NEW j \in Poster, CleanRow(k, j) PROVE Goal
  <2>1. CASE i = j
    BY <1>7, <2>1 DEF CleanRow, FoundInv
  <2>2. CASE i # j
    BY <1>1, <1>7, <2>2 DEF CleanRow
  <2> QED BY <2>1, <2>2
<1>8. CASE UNCHANGED vars \/ \E k \in Cleaner : CleanDone(k)
  BY <1>1, <1>8 DEF vars, CleanDone
<1> QED
  BY <1>2, <1>3, <1>4, <1>5, <1>6, <1>7, <1>8 DEF Next, PostStep, CleanStep
-----------------------------------------------------------------------------
\* Every step preserves the invariant.
LEMMA StepInv == IndInv /\ [Next]_vars => IndInv'
BY StepTypes, StepSpec, StepOwner, StepFound, StepWhole DEF IndInv

\* The invariant holds in every reachable state.
THEOREM Invariance == Spec => []IndInv
BY InitInv, StepInv, PTL DEF Spec

\* The types of requests, of what they make, and of the rows.
THEOREM TypeCorrect == Spec => []TypeOK
BY Invariance, PTL DEF IndInv

\* A recorded instance has its image and its stopped container until a cleaner finds it,
\* whatever fails and whoever hangs up.
THEOREM RecordedIsWholeHolds == Spec => []RecordedIsWhole
BY Invariance, PTL DEF IndInv
-----------------------------------------------------------------------------
(***************************************************************************)
(* The order of requests.  What a request had been preceded by (seen) is   *)
(* settled: a row that was recorded then is never active again once it is  *)
(* not, and a clean request that was answered then has cleaned.            *)
(***************************************************************************)

\* A post, and a clean that runs in its request, is over when it is answered.
SeenInv ==
  /\ \A r \in Req : seen[r] \subseteq answered
  /\ \A r \in Poster \cup SyncCleaner : r \in answered => pc[r] = "over"

\* An answer names a recorded instance of the spec.
AnswerInv ==
  \A q \in Poster : answer[q] # NoInst =>
    q \in answered /\ row[answer[q]] # "none" /\ spec[answer[q]] = spec[q]

\* A request that creates an instance found no active one, so none that was there
\* before it is active.
TwinInv ==
  \A p \in Poster : \A q \in Poster \cap seen[p] :
    (pc[p] \in Forward \/ row[p] # "none") /\ spec[q] = spec[p] => row[q] # "active"

\* The same for the instances that had been answered, and the order of the answers.
ForwardInv ==
  \A p \in Poster : \A q \in Poster \cap seen[p] :
    answer[q] # NoInst /\ spec[q] = spec[p] /\ row[answer[q]] = "active" =>
      pc[p] \notin Forward /\ (answer[p] # NoInst => at[answer[q]] <= at[answer[p]])

\* A cleaner that missed nothing has cleaned what it has visited.
VisitedInv ==
  \A k \in Cleaner :
    /\ pc[k] = "over" => todo[k] = {}
    /\ k \notin missed => \A i \in found[k] : i \in todo[k] \/ row[i] = "cleaned"

\* What a clean request has found is settled for those who come later.
ResetInv ==
  \A p \in Poster : \A k \in SyncCleaner \cap seen[p] :
    p \notin found[k] /\ (k \notin missed => answer[p] \notin found[k])

OrderInv == SeenInv /\ AnswerInv /\ TwinInv /\ ForwardInv /\ VisitedInv /\ ResetInv

\* The initial state satisfies the invariant.
LEMMA InitOrder == Init => OrderInv
BY DEF Init, OrderInv, SeenInv, AnswerInv, TwinInv, ForwardInv, VisitedInv, ResetInv, Req, Cleaner,
       Forward

\* Requests are answered when they end, asynchronous cleans before.
LEMMA StepSeen == TypeOK /\ SeenInv /\ [Next]_vars => SeenInv'
<1> SUFFICES ASSUME TypeOK, SeenInv, [Next]_vars PROVE SeenInv'
  OBVIOUS
<1> USE NamesAssumption DEF TypeOK, SeenInv, Req, Cleaner, Goto, Ends, request
<1>1. ASSUME UNCHANGED <<seen, answered>>,
             \A r \in Req : pc[r] = "over" => pc'[r] = "over"
      PROVE  SeenInv'
  BY <1>1
<1>2. ASSUME NEW r \in Req, NEW s \in SpecID, Begin(r, s) PROVE SeenInv'
  BY <1>2 DEF Begin
<1>3. ASSUME NEW r \in Req, FindSpec(r) \/ InsertSpec(r) PROVE SeenInv'
  BY <1>3 DEF FindSpec, InsertSpec, GoOn
<1>4. ASSUME NEW p \in Poster,
             FindActive(p) \/ Generate(p) \/ BuildImage(p) \/ RemoveImage(p) \/ Record(p)
      PROVE  SeenInv'
  BY <1>4 DEF FindActive, Generate, BuildImage, RemoveImage, Record
<1>5. ASSUME NEW p \in Poster,
             CreateContainer(p) \/ StartContainer(p) \/ PerformActions(p) \/ Disconnect(p)
               \/ StopContainer(p) \/ Inspect(p) \/ Kill(p) \/ Remove(p)
      PROVE  SeenInv'
  BY <1>1, <1>5 DEF CreateContainer, StartContainer, PerformActions, Disconnect, StopContainer,
                    Inspect, Step, Kill, Remove
<1>6. ASSUME NEW p \in Poster, HangUp(p) \/ Expire(p) PROVE SeenInv'
  BY <1>1, <1>6 DEF HangUp, Expire
<1>7. ASSUME NEW k \in Cleaner, QueryUncleaned(k) \/ \E i \in Poster : CleanRow(k, i)
      PROVE  SeenInv'
  BY <1>1, <1>7 DEF QueryUncleaned, CleanRow
<1>8. ASSUME NEW k \in Cleaner, CleanDone(k) PROVE SeenInv'
  BY <1>8 DEF CleanDone
<1>9. CASE UNCHANGED vars
  BY <1>1, <1>9 DEF vars
<1> QED
  BY <1>2, <1>3, <1>4, <1>5, <1>6, <1>7, <1>8, <1>9 DEF Next, PostStep, CleanStep

\* What no step changes: the past of a request, its answer, and a recorded row, which
\* only moves on to inactive and cleaned.
LEMMA Settled ==
  ASSUME TypeOK, OwnerInv, FoundInv, SeenInv, [Next]_vars
  PROVE  /\ \A r \in Req : pc[r] # "idle" => spec'[r] = spec[r] /\ seen'[r] = seen[r]
         /\ \A r \in Req : pc'[r] = "idle" => pc[r] = "idle"
         /\ \A p \in Poster : p \in answered => answer'[p] = answer[p] /\ p \in answered'
         /\ \A p \in Poster : row[p] # "none" =>
              /\ row'[p] # "none" /\ at'[p] = at[p]
              /\ row'[p] = "active" => row[p] = "active"
<1> DEFINE Goal ==
      /\ \A r \in Req : pc[r] # "idle" => spec'[r] = spec[r] /\ seen'[r] = seen[r]
      /\ \A r \in Req : pc'[r] = "idle" => pc[r] = "idle"
      /\ \A p \in Poster : p \in answered => answer'[p] = answer[p] /\ p \in answered'
      /\ \A p \in Poster : row[p] # "none" =>
           /\ row'[p] # "none" /\ at'[p] = at[p]
           /\ row'[p] = "active" => row[p] = "active"
<1> USE NamesAssumption
        DEF TypeOK, SeenInv, Req, Cleaner, Goto, Ends, request, made, rows, cleaning
<1>1. ASSUME NEW r \in Req, NEW s \in SpecID, Begin(r, s) PROVE Goal
  BY <1>1 DEF Begin
<1>2. ASSUME NEW r \in Req, FindSpec(r) \/ InsertSpec(r) PROVE Goal
  BY <1>2 DEF FindSpec, InsertSpec, GoOn
<1>3. ASSUME NEW p \in Poster,
             FindActive(p) \/ Generate(p) \/ BuildImage(p) \/ RemoveImage(p)
      PROVE  Goal
  BY <1>3 DEF FindActive, Generate, BuildImage, RemoveImage
<1>4. ASSUME NEW p \in Poster, Record(p) PROVE Goal
  BY <1>4 DEF Record, OwnerInv
<1>5. ASSUME NEW p \in Poster,
             CreateContainer(p) \/ StartContainer(p) \/ PerformActions(p) \/ Disconnect(p)
               \/ StopContainer(p) \/ Inspect(p) \/ Kill(p) \/ Remove(p)
      PROVE  Goal
  BY <1>5 DEF CreateContainer, StartContainer, PerformActions, Disconnect, StopContainer,
              Inspect, Step, Kill, Remove
<1>6. ASSUME NEW p \in Poster, HangUp(p) \/ Expire(p) PROVE Goal
  BY <1>6 DEF HangUp, Expire
<1>7. ASSUME NEW k \in Cleaner, QueryUncleaned(k) \/ CleanDone(k) PROVE Goal
  BY <1>7 DEF QueryUncleaned, CleanDone
<1>8. ASSUME NEW k \in Cleaner, NEW i \in Poster, CleanRow(k, i) PROVE Goal
  BY <1>8 DEF CleanRow, FoundInv
<1>9. CASE UNCHANGED vars
  BY <1>9 DEF vars
<1> QED
  BY <1>1, <1>2, <1>3, <1>4, <1>5, <1>6, <1>7, <1>8, <1>9 DEF Next, PostStep, CleanStep

\* How a step can begin to create an instance, answer, or record.
LEMMA Changes ==
  ASSUME TypeOK, FoundInv, [Next]_vars, NEW p \in Poster
  PROVE  /\ pc'[p] \in Forward /\ pc[p] \notin Forward =>
              pc[p] # "idle" /\ ActiveRows(spec[p]) = {} /\ UNCHANGED <<row, answer>>
         /\ answer'[p] # answer[p] /\ answer'[p] # NoInst =>
              \/ pc[p] = "find" /\ answer'[p] \in Newest(ActiveRows(spec[p]))
                   /\ UNCHANGED <<row, at>> /\ p \in answered'
              \/ pc[p] = "record" /\ answer'[p] = p /\ row'[p] # "none" /\ p \in answered'
         /\ row[p] = "none" /\ row'[p] # "none" => pc[p] = "record" /\ Record(p)
<1> DEFINE Goal ==
      /\ pc'[p] \in Forward /\ pc[p] \notin Forward =>
           pc[p] # "idle" /\ ActiveRows(spec[p]) = {} /\ UNCHANGED <<row, answer>>
      /\ answer'[p] # answer[p] /\ answer'[p] # NoInst =>
           \/ pc[p] = "find" /\ answer'[p] \in Newest(ActiveRows(spec[p]))
                /\ UNCHANGED <<row, at>> /\ p \in answered'
           \/ pc[p] = "record" /\ answer'[p] = p /\ row'[p] # "none" /\ p \in answered'
      /\ row[p] = "none" /\ row'[p] # "none" => pc[p] = "record" /\ Record(p)
<1> USE NamesAssumption
        DEF TypeOK, Req, Cleaner, Goto, Ends, request, made, rows, cleaning, Forward
<1>1. ASSUME NEW r \in Req, (\E s \in SpecID : Begin(r, s)) \/ FindSpec(r) \/ InsertSpec(r)
      PROVE  Goal
  BY <1>1 DEF Begin, FindSpec, InsertSpec, GoOn
<1>2. ASSUME NEW q \in Poster, FindActive(q) PROVE Goal
  BY <1>2 DEF FindActive
<1>3. ASSUME NEW q \in Poster, Generate(q) \/ BuildImage(q) \/ RemoveImage(q) PROVE Goal
  BY <1>3 DEF Generate, BuildImage, RemoveImage
<1>4. ASSUME NEW q \in Poster, Record(q) PROVE Goal
  BY <1>4 DEF Record
<1>5. ASSUME NEW q \in Poster,
             CreateContainer(q) \/ StartContainer(q) \/ PerformActions(q) \/ Disconnect(q)
               \/ StopContainer(q) \/ Inspect(q) \/ Kill(q) \/ Remove(q)
      PROVE  Goal
  BY <1>5 DEF CreateContainer, StartContainer, PerformActions, Disconnect, StopContainer,
              Inspect, Step, Kill, Remove
<1>6. ASSUME NEW q \in Poster, HangUp(q) \/ Expire(q) PROVE Goal
  BY <1>6 DEF HangUp, Expire
<1>7. ASSUME NEW k \in Cleaner, QueryUncleaned(k) \/ CleanDone(k) PROVE Goal
  BY <1>7 DEF QueryUncleaned, CleanDone
<1>8. ASSUME NEW k \in Cleaner, NEW i \in Poster, CleanRow(k, i) PROVE Goal
  BY <1>8 DEF CleanRow, FoundInv
<1>9. CASE UNCHANGED vars
  BY <1>9 DEF vars
<1> QED
  BY <1>1, <1>2, <1>3, <1>4, <1>5, <1>6, <1>7, <1>8, <1>9 DEF Next, PostStep, CleanStep
-----------------------------------------------------------------------------
\* An answer stays what it was; a new one names an active row, or the one just recorded.
LEMMA StepAnswer == IndInv /\ SeenInv /\ AnswerInv /\ [Next]_vars => AnswerInv'
<1> SUFFICES ASSUME IndInv, SeenInv, AnswerInv, [Next]_vars,
                    NEW q \in Poster, answer'[q] # NoInst
             PROVE  q \in answered' /\ row'[answer'[q]] # "none" /\ spec'[answer'[q]] = spec'[q]
  BY DEF AnswerInv
<1> USE NamesAssumption DEF IndInv, TypeOK, OwnerInv, SeenInv, Req
<1>1. \A i \in Poster : row[i] # "none" => row'[i] # "none" /\ spec'[i] = spec[i]
  BY Settled
<1>2. CASE answer'[q] = answer[q]
  <2>1. q \in answered /\ answer[q] \in Poster /\ row[answer[q]] # "none" /\ spec[answer[q]] = spec[q]
    BY <1>2 DEF AnswerInv
  <2>2. q \in answered' /\ spec'[q] = spec[q]
    BY <2>1, Settled
  <2> QED BY <1>1, <1>2, <2>1, <2>2
<1>3. CASE pc[q] = "find" /\ answer'[q] \in Newest(ActiveRows(spec[q]))
             /\ UNCHANGED <<row, at>> /\ q \in answered'
  <2>1. answer'[q] \in Poster /\ row[answer'[q]] = "active" /\ spec[answer'[q]] = spec[q]
    BY <1>3 DEF Newest, ActiveRows
  <2>2. spec'[q] = spec[q]
    BY <1>3, Settled
  <2> QED BY <1>1, <1>3, <2>1, <2>2
<1>4. CASE pc[q] = "record" /\ answer'[q] = q /\ row'[q] # "none" /\ q \in answered'
  BY <1>4
<1> QED BY <1>2, <1>3, <1>4, Changes

\* Who goes on to create an instance has just seen that none is active.
LEMMA StepTwin == IndInv /\ SeenInv /\ TwinInv /\ [Next]_vars => TwinInv'
<1> SUFFICES ASSUME IndInv, SeenInv, TwinInv, [Next]_vars,
                    NEW p \in Poster, NEW q \in Poster, q \in seen'[p],
                    pc'[p] \in Forward \/ row'[p] # "none", spec'[q] = spec'[p]
             PROVE  row'[q] # "active"
  BY DEF TwinInv
<1> USE NamesAssumption DEF IndInv, TypeOK, OwnerInv, SeenInv, Req
<1>1. pc[p] # "idle"
  BY Changes DEF Forward
<1>2. seen'[p] = seen[p] /\ spec'[p] = spec[p]
  BY <1>1, Settled
<1>3. q \in seen[p] /\ pc[q] = "over"
  BY <1>2
<1>4. spec[q] = spec[p]
  BY <1>2, <1>3, Settled
<1>5. row'[q] = "active" => row[q] = "active"
  <2>1. row[q] = "none" => row'[q] = "none"
    BY <1>3, Changes
  <2> QED BY <2>1, Settled
<1>6. CASE pc[p] \in Forward \/ row[p] # "none"
  BY <1>3, <1>4, <1>5, <1>6 DEF TwinInv
<1>7. CASE pc[p] \notin Forward /\ row[p] = "none"
  <2>1. pc'[p] \in Forward
    BY <1>7, Changes DEF Forward
  <2>2. ActiveRows(spec[p]) = {}
    BY <1>7, <2>1, Changes
  <2> QED BY <1>4, <1>5, <2>2 DEF ActiveRows
<1> QED BY <1>6, <1>7

\* A request answers with the newest active row, and goes on to create only without one.
LEMMA StepForward ==
  IndInv /\ SeenInv /\ AnswerInv /\ ForwardInv /\ [Next]_vars => ForwardInv'
<1> SUFFICES ASSUME IndInv, SeenInv, AnswerInv, ForwardInv, [Next]_vars,
                    NEW p \in Poster, NEW q \in Poster, q \in seen'[p],
                    answer'[q] # NoInst, spec'[q] = spec'[p], row'[answer'[q]] = "active"
             PROVE  pc'[p] \notin Forward
                      /\ (answer'[p] # NoInst => at'[answer'[q]] <= at'[answer'[p]])
  BY DEF ForwardInv
<1> USE NamesAssumption DEF IndInv, TypeOK, OwnerInv, SeenInv, Req
<1>1. CASE pc[p] = "idle"
  <2>1. pc'[p] \notin Forward
    BY <1>1, Changes DEF Forward
  <2>2. answer[p] = NoInst
    BY <1>1 DEF AnswerInv
  <2>3. answer'[p] = NoInst
    BY <1>1, <2>2, Changes
  <2> QED BY <2>1, <2>3
<1>2. CASE pc[p] # "idle"
  <2>1. q \in seen[p] /\ q \in answered /\ pc[q] = "over" /\ spec'[p] = spec[p]
    BY <1>2, Settled
  <2>2. answer'[q] = answer[q] /\ spec[q] = spec[p]
    BY <2>1, Settled
  <2> DEFINE i == answer[q]
  <2>3. i \in Poster /\ row[i] # "none" /\ spec[i] = spec[p]
    BY <2>2 DEF AnswerInv
  <2>4. row[i] = "active" /\ at'[i] = at[i]
    BY <2>2, <2>3, Settled
  <2>5. pc[p] \notin Forward /\ (answer[p] # NoInst => at[i] <= at[answer[p]])
    BY <2>1, <2>2, <2>3, <2>4 DEF ForwardInv
  <2>6. i \in ActiveRows(spec[p])
    BY <2>3, <2>4 DEF ActiveRows
  <2>7. pc'[p] \notin Forward
    BY <2>5, <2>6, Changes
  <2>8. ASSUME answer'[p] # NoInst PROVE at'[i] <= at'[answer'[p]]
    <3>1. CASE answer'[p] = answer[p]
      <4>1. answer[p] \in Poster /\ row[answer[p]] # "none"
        BY <2>8, <3>1 DEF AnswerInv
      <4>2. at'[answer[p]] = at[answer[p]]
        BY <4>1, Settled
      <4> QED BY <2>4, <2>5, <2>8, <3>1, <4>2
    <3>2. CASE answer'[p] \in Newest(ActiveRows(spec[p])) /\ UNCHANGED <<row, at>>
      BY <2>6, <3>2 DEF Newest
    <3>3. CASE pc[p] = "record"
      BY <2>5, <3>3 DEF Forward
    <3> QED BY <2>8, <3>1, <3>2, <3>3, Changes
  <2> QED BY <2>2, <2>7, <2>8
<1> QED BY <1>1, <1>2

\* A cleaner that is over neither finds nor visits, and what it missed stays missed.
LEMMA StepVisited ==
  IndInv /\ VisitedInv /\ [Next]_vars =>
    /\ VisitedInv'
    /\ missed \subseteq missed'
    /\ \A k \in Cleaner : pc[k] = "over" => found'[k] = found[k]
<1> DEFINE Goal == /\ VisitedInv'
                   /\ missed \subseteq missed'
                   /\ \A k \in Cleaner : pc[k] = "over" => found'[k] = found[k]
<1> SUFFICES ASSUME IndInv, VisitedInv, [Next]_vars PROVE Goal
  OBVIOUS
<1> USE NamesAssumption DEF IndInv, TypeOK, VisitedInv, Req, Cleaner, Goto, Ends, rows, cleaning
<1>1. ASSUME UNCHANGED <<row, cleaning>>,
             \A k \in Cleaner : pc'[k] = "over" => pc[k] = "over" \/ todo[k] = {}
      PROVE  Goal
  BY <1>1
<1>2. ASSUME NEW r \in Req, (\E s \in SpecID : Begin(r, s)) \/ FindSpec(r) \/ InsertSpec(r)
      PROVE  Goal
  <2>1. pc[r] \in {"idle", "lookup", "insert"} /\ UNCHANGED <<row, cleaning>>
    BY <1>2 DEF Begin, FindSpec, InsertSpec, GoOn
  <2>2. r \in Cleaner => todo[r] = {}
    BY <2>1 DEF FoundInv
  <2>3. \A k \in Cleaner : k # r => pc'[k] = pc[k]
    BY <1>2 DEF Begin, FindSpec, InsertSpec, GoOn
  <2> QED BY <1>1, <2>1, <2>2, <2>3
<1>3. ASSUME NEW p \in Poster,
             FindActive(p) \/ Generate(p) \/ BuildImage(p) \/ RemoveImage(p)
      PROVE  Goal
  BY <1>1, <1>3 DEF FindActive, Generate, BuildImage, RemoveImage
<1>4. ASSUME NEW p \in Poster,
             CreateContainer(p) \/ StartContainer(p) \/ PerformActions(p) \/ Disconnect(p)
               \/ StopContainer(p) \/ Inspect(p) \/ Kill(p) \/ Remove(p)
      PROVE  Goal
  BY <1>1, <1>4 DEF CreateContainer, StartContainer, PerformActions, Disconnect, StopContainer,
                    Inspect, Step, Kill, Remove
<1>5. ASSUME NEW p \in Poster, Record(p) \/ Expire(p) \/ HangUp(p) PROVE Goal
  <2>1. UNCHANGED cleaning /\ \A k \in Cleaner : pc'[k] = pc[k]
    BY <1>5 DEF Record, Expire, HangUp, request
  <2>2. \A i \in Poster : row[i] = "cleaned" => row'[i] = "cleaned"
    BY <1>5 DEF Record, Expire, HangUp, OwnerInv
  <2> QED BY <2>1, <2>2
<1>6. ASSUME NEW k \in Cleaner, QueryUncleaned(k) PROVE Goal
  BY <1>6 DEF QueryUncleaned
<1>7. ASSUME NEW k \in Cleaner, NEW i \in Poster, CleanRow(k, i) PROVE Goal
  BY <1>7 DEF CleanRow, request
<1>8. ASSUME NEW k \in Cleaner, CleanDone(k) PROVE Goal
  BY <1>1, <1>8 DEF CleanDone
<1>9. CASE UNCHANGED vars
  BY <1>1, <1>9 DEF vars, request
<1> QED
  BY <1>2, <1>3, <1>4, <1>5, <1>6, <1>7, <1>8, <1>9 DEF Next, PostStep, CleanStep

\* What a clean that was over before found is cleaned, and is answered no more.
LEMMA StepReset ==
  IndInv /\ IndInv' /\ SeenInv /\ AnswerInv /\ VisitedInv /\ ResetInv /\ [Next]_vars => ResetInv'
<1> SUFFICES ASSUME IndInv, IndInv', SeenInv, AnswerInv, VisitedInv, ResetInv, [Next]_vars,
                    NEW p \in Poster, NEW k \in SyncCleaner, k \in seen'[p]
             PROVE  p \notin found'[k] /\ (k \notin missed' => answer'[p] \notin found'[k])
  BY DEF ResetInv
<1> USE NamesAssumption DEF IndInv, TypeOK, OwnerInv, SeenInv, Req, Cleaner
<1>0. NoInst \notin found'[k]
  OBVIOUS
<1>1. CASE pc[p] = "idle"
  <2>1. row'[p] = "none"
    BY <1>1, Changes
  <2>2. p \notin found'[k]
    BY <2>1 DEF FoundInv
  <2>3. answer[p] = NoInst
    BY <1>1 DEF AnswerInv
  <2>4. answer'[p] = NoInst
    BY <1>1, <2>3, Changes
  <2> QED BY <1>0, <2>2, <2>4
<1>2. CASE pc[p] # "idle"
  <2>1. k \in seen[p] /\ pc[k] = "over"
    BY <1>2, Settled
  <2>2. found'[k] = found[k] /\ (k \notin missed' => k \notin missed)
    BY <2>1, StepVisited
  <2>3. p \notin found[k] /\ (k \notin missed => answer[p] \notin found[k])
    BY <2>1 DEF ResetInv
  <2>4. ASSUME k \notin missed, answer'[p] # answer[p], answer'[p] # NoInst
        PROVE  answer'[p] \notin found[k]
    <3>1. \A i \in found[k] : row[i] = "cleaned"
      BY <2>1, <2>4 DEF VisitedInv
    <3>2. CASE answer'[p] \in Newest(ActiveRows(spec[p]))
      BY <3>1, <3>2 DEF Newest, ActiveRows
    <3>3. CASE answer'[p] = p
      BY <2>3, <3>3
    <3> QED BY <2>4, <3>2, <3>3, Changes
  <2> QED BY <1>0, <2>2, <2>3, <2>4
<1> QED BY <1>1, <1>2

\* The order of requests holds in every reachable state.
THEOREM OrderHolds == Spec => []OrderInv
<1>1. IndInv /\ IndInv' /\ OrderInv /\ [Next]_vars => OrderInv'
  BY StepSeen, StepAnswer, StepTwin, StepForward, StepVisited, StepReset DEF IndInv, OrderInv
<1> QED BY <1>1, InitOrder, Invariance, PTL DEF Spec

\* Clients that ask one after the other are not sent back to an older active instance.
THEOREM AnswersMoveForwardHolds == Spec => []AnswersMoveForward
<1>1. OrderInv => AnswersMoveForward
  BY DEF OrderInv, ForwardInv, AnswersMoveForward
<1> QED BY <1>1, OrderHolds, PTL

\* Two instances of a spec are active only when the requests that made them overlapped.
THEOREM TwinsOverlapHolds == Spec => []TwinsOverlap
<1>1. OrderInv => TwinsOverlap
  BY DEF OrderInv, TwinInv, TwinsOverlap, ActiveRows
<1> QED BY <1>1, OrderHolds, PTL

\* Who asks after the answer of a clean without failures gets nothing that it found.
THEOREM SyncResetsHolds == Spec => []SyncResets
<1>1. OrderInv => SyncResets
  BY DEF OrderInv, ResetInv, SyncResets
<1> QED BY <1>1, OrderHolds, PTL
-----------------------------------------------------------------------------
(***************************************************************************)
(* Taking back.  Going back costs a hang-up or a failing call to Docker,   *)
(* so with one of them everything that takes back works.                   *)
(***************************************************************************)
OneFailure == db = DbFaults /\ (HangUps - hang) + (DockerFaults - docker) <= 1
Spent == hang < HangUps \/ docker < DockerFaults
Begun == {"idle", "lookup", "insert", "find", "generate", "build"}

\* Without a row, this is what is left: nothing, or an image another request names too.
Nothing(p) == box[p] = "none" /\ (image[p] = NoImage \/ Shared(p))

\* What a request has left to take back, at each place, while there was one failure.
Kept(p) ==
  /\ pc[p] \in Back => Spent
  /\ pc[p] \in Begun => image[p] = NoImage
  /\ pc[p] \in Begun \cup {"create"} => box[p] = "none"
  /\ pc[p] = "unimage" => box[p] = "none" \/ p \in unheard
  /\ pc[p] = "remove" => box[p] # "running"
  /\ pc[p] = "over" /\ row[p] = "none" => p \in unheard \/ Nothing(p)

BackInv == OneFailure => (gone # {} => Spent) /\ \A p \in Poster : Kept(p)

\* The initial state satisfies the invariant.
LEMMA InitBack == Init => BackInv
BY DEF Init, BackInv, Kept, Back, Begun, Req

\* While there is one failure at most, a failing call is the first.
LEMMA Budget ==
  ASSUME TypeOK, [Next]_vars, OneFailure'
  PROVE  /\ OneFailure
         /\ ~DbFails
         /\ DockerFails => ~Spent /\ Spent'
         /\ Spent => Spent'
         /\ \A p \in Poster : HangUp(p) => Spent'
<1> USE FaultAssumption DEF TypeOK, OneFailure, Spent
<1>1. CASE UNCHANGED left
  BY <1>1 DEF left, DockerFails, DbFails, HangUp
<1>2. CASE DockerFails
  BY <1>2 DEF DockerFails, DbFails, HangUp
<1>3. CASE DbFails
  BY <1>3 DEF DbFails
<1>4. ASSUME NEW p \in Poster, HangUp(p) PROVE OneFailure /\ ~DbFails /\ ~DockerFails /\ Spent'
  BY <1>4 DEF HangUp, DbFails, DockerFails
<1> QED
  BY <1>1, <1>2, <1>3, <1>4, Budgets

\* An image that two requests name keeps both names: neither request has it removed, nor
\* has a cleaner.
LEMMA SharedStays ==
  ASSUME TypeOK, OwnerInv, FoundInv, [Next]_vars,
         \A q \in Poster : pc[q] = "build" => image[q] = NoImage,
         NEW p \in Poster, Shared(p)
  PROVE  image'[p] = image[p] /\ Shared(p)'
<1>0. PICK q \in Poster \ {p} : image[p] \in Poster /\ image[q] = image[p]
  BY DEF Shared
<1>1. SUFFICES image'[p] = image[p] /\ image'[q] = image[q]
  BY <1>0 DEF Shared
<1> USE <1>0, NamesAssumption DEF TypeOK, made
<1>2. ASSUME UNCHANGED image PROVE image'[p] = image[p] /\ image'[q] = image[q]
  BY <1>2
<1>3. ASSUME NEW i \in Poster, BuildImage(i) PROVE image'[p] = image[p] /\ image'[q] = image[q]
  <2>1. i # p /\ i # q
    BY <1>3 DEF BuildImage, Goto, Ends, CallFails
  <2> QED BY <1>3, <2>1 DEF BuildImage
<1>4. ASSUME NEW i \in Poster, RemoveImage(i) PROVE image'[p] = image[p] /\ image'[q] = image[q]
  <2>1. i \in {p, q} => ~Releases(i)
    BY DEF Releases, Shared
  <2> QED BY <1>4, <2>1 DEF RemoveImage
<1>5. ASSUME NEW k \in Cleaner, NEW i \in Poster, CleanRow(k, i)
      PROVE  image'[p] = image[p] /\ image'[q] = image[q]
  <2>1. i \in {p, q} => Shared(i)
    BY DEF Shared
  <2> QED BY <1>5, <2>1 DEF CleanRow
<1> QED
  BY <1>2, <1>3, <1>4, <1>5
     DEF Next, PostStep, CleanStep, vars, Begin, FindSpec, InsertSpec, FindActive, Generate,
         CreateContainer, StartContainer, PerformActions, Disconnect, StopContainer,
         Inspect, Step, Kill, Remove, Record, Expire, HangUp, QueryUncleaned, CleanDone

\* What a request that is over has left is only taken away.
LEMMA NothingStays ==
  ASSUME TypeOK, OwnerInv, FoundInv, [Next]_vars,
         \A q \in Poster : pc[q] = "build" => image[q] = NoImage,
         NEW p \in Poster, pc[p] = "over", Nothing(p)
  PROVE  Nothing(p)'
<1> DEFINE Goal == box'[p] = "none" /\ image'[p] \in {image[p], NoImage}
<1>1. box[p] = "none" /\ (image[p] = NoImage \/ Shared(p))
  BY DEF Nothing
<1> USE <1>1, NamesAssumption DEF TypeOK, made, Goto, Ends
<1>2. ASSUME UNCHANGED <<image, box>> PROVE Goal
  BY <1>2
<1>3. ASSUME NEW q \in Poster, BuildImage(q) \/ RemoveImage(q) PROVE Goal
  <2>1. q # p /\ UNCHANGED box
    BY <1>3 DEF BuildImage, RemoveImage
  <2> QED BY <1>3, <2>1 DEF BuildImage, RemoveImage
<1>4. ASSUME NEW q \in Poster, CreateContainer(q) \/ StartContainer(q) \/ StopContainer(q)
      PROVE  Goal
  BY <1>4 DEF CreateContainer, StartContainer, StopContainer, Step, Becomes
<1>5. ASSUME NEW q \in Poster, Kill(q) \/ Remove(q) PROVE Goal
  BY <1>5 DEF Kill, Remove
<1>6. ASSUME NEW k \in Cleaner, NEW i \in Poster, CleanRow(k, i) PROVE Goal
  BY <1>6 DEF CleanRow
<1>7. Goal
  BY <1>2, <1>3, <1>4, <1>5, <1>6
     DEF Next, PostStep, CleanStep, vars, Begin, FindSpec, InsertSpec, FindActive, Generate,
         PerformActions, Disconnect, Inspect, Step, Record, Expire, HangUp, QueryUncleaned,
         CleanDone
<1>8. Shared(p) => Shared(p)'
  BY SharedStays
<1> QED BY <1>7, <1>8 DEF Nothing

\* Each step keeps what is to be taken back.
LEMMA StepBack == IndInv /\ BackInv /\ [Next]_vars => BackInv'
<1> DEFINE Goal == (gone # {} => Spent)' /\ \A p \in Poster : Kept(p)'
<1> SUFFICES ASSUME IndInv, BackInv, [Next]_vars, OneFailure' PROVE Goal
  BY DEF BackInv
<1>0. /\ ~DbFails
      /\ DockerFails => ~Spent /\ Spent'
      /\ Spent => Spent'
      /\ \A p \in Poster : HangUp(p) => Spent'
      /\ gone # {} => Spent
      /\ \A p \in Poster : Kept(p)
  BY Budget DEF IndInv, BackInv
<1>a. TypeOK /\ OwnerInv /\ FoundInv
  BY DEF IndInv
<1>b. \A q \in Poster : pc[q] = "build" => image[q] = NoImage
  BY <1>0 DEF Kept, Begun
<1>c. \A p \in Poster : pc[p] = "over" /\ Nothing(p) => Nothing(p)'
  BY <1>a, <1>b, NothingStays
\* What is left to take back before the end; at the end there is Nothing.
<1> DEFINE Early(p) ==
      /\ pc[p] \in Back => Spent
      /\ pc[p] \in Begun => image[p] = NoImage
      /\ pc[p] \in Begun \cup {"create"} => box[p] = "none"
      /\ pc[p] = "unimage" => box[p] = "none" \/ p \in unheard
      /\ pc[p] = "remove" => box[p] # "running"
    Last(p) == pc[p] = "over" /\ row[p] = "none" => p \in unheard \/ Nothing(p)
<1>d. \A p \in Poster : (Kept(p) <=> Early(p) /\ Last(p)) /\ (Kept(p)' <=> Early(p)' /\ Last(p)')
  BY DEF Kept
<1>e. \A p \in Poster : Early(p) /\ Last(p)
  BY <1>0, <1>d
<1> HIDE DEF Last
\* A step that leaves a request alone, or one that is over.
<1>f. ASSUME NEW p \in Poster, pc[p] = "over", pc'[p] = "over", row'[p] = "none" => row[p] = "none",
             unheard \subseteq unheard'
      PROVE  Last(p)'
  BY <1>c, <1>e, <1>f DEF Last
<1>g. ASSUME NEW p \in Poster, pc'[p] # "over" \/ row'[p] # "none" PROVE Last(p)'
  BY <1>g DEF Last
<1>h. unheard \subseteq unheard' /\ \A p \in Poster : pc[p] = "over" => Last(p)'
  <2>1. unheard \subseteq unheard'
    BY DEF Next, PostStep, CleanStep, vars, made, Begin, FindSpec, InsertSpec, FindActive,
           Generate, BuildImage, CreateContainer, StartContainer, PerformActions, Disconnect,
           StopContainer, Inspect, Kill, Remove, RemoveImage, Record, Expire, HangUp,
           QueryUncleaned, CleanRow, CleanDone
  <2>2. ASSUME NEW p \in Poster, pc[p] = "over"
        PROVE  pc'[p] = "over" /\ (row'[p] = "none" => row[p] = "none")
    <3> USE <2>2, <1>a, NamesAssumption DEF TypeOK, Req, Cleaner, Goto, Ends, request, rows, made
    <3>1. CASE UNCHANGED <<pc, row>>
      BY <3>1
    <3>2. ASSUME NEW r \in Req, (\E s \in SpecID : Begin(r, s)) \/ FindSpec(r) \/ InsertSpec(r)
          PROVE  pc'[p] = "over" /\ (row'[p] = "none" => row[p] = "none")
      BY <3>2 DEF Begin, FindSpec, InsertSpec, GoOn
    <3>3. ASSUME NEW q \in Poster, PostStep(q)
          PROVE  pc'[p] = "over" /\ (row'[p] = "none" => row[p] = "none")
      BY <3>3 DEF PostStep, FindActive, Generate, BuildImage, CreateContainer, StartContainer,
                  PerformActions, Disconnect, StopContainer, Inspect, Step, Kill, Remove,
                  RemoveImage, Record
    <3>4. ASSUME NEW k \in Cleaner, CleanStep(k)
          PROVE  pc'[p] = "over" /\ (row'[p] = "none" => row[p] = "none")
      BY <3>4 DEF CleanStep, QueryUncleaned, CleanRow, CleanDone
    <3> QED BY <3>1, <3>2, <3>3, <3>4 DEF Next, vars, Expire, HangUp
  <2> QED BY <1>f, <2>1, <2>2
<1> USE NamesAssumption, <1>0
        DEF IndInv, TypeOK, Req, Cleaner, Goto, Ends, request, made, rows, cleaning, Back, Begun
<1> SUFFICES (gone # {} => Spent)'
               /\ \A p \in Poster : Early(p)' /\ (pc[p] # "over" => Last(p)')
  BY <1>d, <1>h
<1> DEFINE Aim == (gone # {} => Spent)'
                    /\ \A p \in Poster : Early(p)' /\ (pc[p] # "over" => Last(p)')
<1>1. ASSUME NEW r \in Req, (\E s \in SpecID : Begin(r, s)) \/ FindSpec(r) \/ InsertSpec(r)
      PROVE  Aim
  <2>1. (gone # {} => Spent)' /\ \A p \in Poster : Early(p)'
    BY <1>1, <1>e DEF Begin, FindSpec, InsertSpec, GoOn
  <2>2. ASSUME NEW p \in Poster, pc[p] # "over", pc'[p] = "over" PROVE Nothing(p)'
    <3>1. pc[p] \in Begun /\ UNCHANGED <<image, box>>
      BY <1>1, <2>2 DEF Begin, FindSpec, InsertSpec, GoOn
    <3> QED BY <1>e, <3>1 DEF Nothing
  <2> QED BY <1>g, <2>1, <2>2 DEF Last
<1>2. ASSUME NEW q \in Poster, FindActive(q) \/ Generate(q) PROVE Aim
  <2>1. (gone # {} => Spent)' /\ \A p \in Poster : Early(p)'
    BY <1>2, <1>e DEF FindActive, Generate
  <2>2. ASSUME NEW p \in Poster, pc[p] # "over", pc'[p] = "over" PROVE Nothing(p)'
    <3>1. pc[p] \in Begun /\ UNCHANGED <<image, box>>
      BY <1>2, <2>2 DEF FindActive, Generate
    <3> QED BY <1>e, <3>1 DEF Nothing
  <2> QED BY <1>g, <2>1, <2>2 DEF Last
<1>3. ASSUME NEW q \in Poster, BuildImage(q) PROVE Aim
  <2>1. (gone # {} => Spent)' /\ \A p \in Poster : Early(p)'
    BY <1>3, <1>e DEF BuildImage
  <2>2. ASSUME NEW p \in Poster, pc[p] # "over", pc'[p] = "over", p \notin unheard'
        PROVE  Nothing(p)'
    <3>1. p = q /\ UNCHANGED <<image, box>>
      BY <1>3, <2>2 DEF BuildImage
    <3>2. pc[p] = "build"
      BY <1>3, <3>1 DEF BuildImage
    <3> QED BY <1>e, <3>1, <3>2 DEF Nothing
  <2> QED BY <1>g, <2>1, <2>2 DEF Last
<1>4. ASSUME NEW q \in Poster,
             CreateContainer(q) \/ StartContainer(q) \/ PerformActions(q) \/ Disconnect(q)
               \/ StopContainer(q) \/ Inspect(q)
      PROVE  Aim
  <2>1. CallFails(q) => Spent'
    BY DEF CallFails
  <2>2. (gone # {} => Spent)'
    BY <1>4 DEF CreateContainer, StartContainer, PerformActions, Disconnect, StopContainer,
                Inspect, Step
  <2>3. \A p \in Poster : pc[p] # "over" => pc'[p] # "over"
    BY <1>4 DEF CreateContainer, StartContainer, PerformActions, Disconnect, StopContainer,
                Inspect, Step
  <2>4. \A p \in Poster : Early(p)'
    <3>1. CASE CreateContainer(q)
      BY <1>e, <2>1, <3>1 DEF CreateContainer, Step, Becomes
    <3>2. CASE StartContainer(q) \/ StopContainer(q)
      BY <1>e, <2>1, <3>2 DEF StartContainer, StopContainer, Step, Becomes
    <3>3. CASE PerformActions(q) \/ Disconnect(q)
      BY <1>e, <2>1, <3>3 DEF PerformActions, Disconnect, Step
    <3>4. CASE Inspect(q)
      BY <1>e, <2>1, <3>4 DEF Inspect, Step, OwnerInv
    <3> QED BY <1>4, <3>1, <3>2, <3>3, <3>4
  <2> QED BY <1>g, <2>2, <2>3, <2>4
<1>5. ASSUME NEW q \in Poster, Kill(q) \/ Remove(q) PROVE Aim
  <2>1. (gone # {} => Spent)' /\ \A p \in Poster : Early(p)'
    BY <1>5, <1>e DEF Kill, Remove
  <2>2. \A p \in Poster : pc[p] # "over" => pc'[p] # "over"
    BY <1>5 DEF Kill, Remove
  <2> QED BY <1>g, <2>1, <2>2
<1>6. ASSUME NEW q \in Poster, RemoveImage(q) PROVE Aim
  <2>1. (gone # {} => Spent)' /\ \A p \in Poster : Early(p)'
    BY <1>6, <1>e DEF RemoveImage
  <2>2. ASSUME NEW p \in Poster, pc[p] # "over", pc'[p] = "over", p \notin unheard'
        PROVE  Nothing(p)'
    <3>1. p = q /\ pc[p] = "unimage" /\ UNCHANGED <<box, unheard>>
      BY <1>6, <2>2 DEF RemoveImage
    <3>2. box[p] = "none" /\ Spent /\ ~DockerFails
      BY <1>e, <2>2, <3>1
    <3>3. image' = [image EXCEPT ![p] = IF Releases(p) THEN NoImage ELSE @]
      BY <1>6, <3>1, <3>2 DEF RemoveImage
    <3>4. CASE Releases(p)
      BY <3>1, <3>2, <3>3, <3>4 DEF Nothing
    <3>5. CASE ~Releases(p)
      <4>1. Shared(p) /\ image' = image
        BY <3>2, <3>3, <3>5 DEF Releases
      <4> QED BY <3>1, <3>2, <4>1 DEF Nothing, Shared
    <3> QED BY <3>4, <3>5
  <2> QED BY <1>g, <2>1, <2>2 DEF Last
<1>7. ASSUME NEW q \in Poster, Record(q) PROVE Aim
  <2>1. (gone # {} => Spent)' /\ \A p \in Poster : Early(p)'
    BY <1>7, <1>e DEF Record
  <2>2. \A p \in Poster : pc[p] # "over" => pc'[p] # "over" \/ row'[p] # "none"
    BY <1>7 DEF Record
  <2> QED BY <1>g, <2>1, <2>2
<1>8. ASSUME NEW q \in Poster, HangUp(q) \/ Expire(q) PROVE Aim
  <2>1. (gone # {} => Spent)' /\ \A p \in Poster : Early(p)'
    BY <1>8, <1>e DEF HangUp, Expire
  <2>2. pc' = pc
    BY <1>8 DEF HangUp, Expire
  <2> QED BY <1>g, <2>1, <2>2
<1>9. ASSUME NEW k \in Cleaner, QueryUncleaned(k) \/ CleanDone(k) PROVE Aim
  <2>1. (gone # {} => Spent)' /\ \A p \in Poster : Early(p)'
    BY <1>9, <1>e DEF QueryUncleaned, CleanDone
  <2>2. \A p \in Poster : pc'[p] = pc[p]
    BY <1>9 DEF QueryUncleaned, CleanDone
  <2> QED BY <1>g, <2>1, <2>2
<1>10. ASSUME NEW k \in Cleaner, NEW i \in Poster, CleanRow(k, i) PROVE Aim
  <2>1. pc[i] = "over"
    BY <1>10 DEF CleanRow, FoundInv, OwnerInv
  <2>2. gone' = gone /\ pc' = pc /\ unheard' = unheard
    BY <1>10 DEF CleanRow
  <2>3. \A p \in Poster : p # i => box'[p] = box[p] /\ image'[p] = image[p]
    BY <1>10 DEF CleanRow
  <2>4. \A p \in Poster : Early(p)'
    BY <1>e, <2>1, <2>2, <2>3
  <2> QED BY <1>g, <2>2, <2>4
<1>11. CASE UNCHANGED vars
  <2>1. (gone # {} => Spent)' /\ \A p \in Poster : Early(p)'
    BY <1>11, <1>e DEF vars
  <2>2. pc' = pc
    BY <1>11 DEF vars
  <2> QED BY <1>g, <2>1, <2>2
<1> QED
  BY <1>1, <1>2, <1>3, <1>4, <1>5, <1>6, <1>7, <1>8, <1>9, <1>10, <1>11
     DEF Next, PostStep, CleanStep

\* One hang-up, or one failing call to Docker, leaves without a row no container and no
\* image, except what a cut-off build or create made and an image that is named twice.
THEOREM TakenBackHolds == Spec => []TakenBack
<1>1. IndInv /\ BackInv /\ [Next]_vars => BackInv'
  BY StepBack
<1>2. BackInv => TakenBack
  BY DEF BackInv, Kept, Nothing, TakenBack, OneFailure
<1> QED BY <1>1, <1>2, InitBack, Invariance, PTL DEF Spec
=============================================================================
