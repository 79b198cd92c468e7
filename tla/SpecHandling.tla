---------------------------- MODULE SpecHandling ----------------------------
(***************************************************************************)
(* Requests about specs (app/spec.go) and the creation of instances        *)
(* (app/spec_create.go, app/spec_legacy.go, app/specbuild, and Build of    *)
(* pkg/docker/image).                                                      *)
(*                                                                         *)
(* specPost finds or inserts the spec, reuses its newest active instance   *)
(* or builds an image, creates and prepares a container and records both   *)
(* in a transaction; what was made is taken back when a later step fails.  *)
(* specClean cleans the uncleaned instances of a spec, in the request or   *)
(* in a goroutine.  Nothing orders requests for the same spec.             *)
(*                                                                         *)
(* The instance a request makes bears the request's name, and so does the  *)
(* tag of its image.  An image that is built is known by the hash of its   *)
(* content, which other requests' builds may have too; here the first of   *)
(* them gives the hash its name.  An image that a script names gets a tag  *)
(* and is known by it.                                                     *)
(*                                                                         *)
(* A client that hangs up cancels the request's context, and Docker and    *)
(* the database can fail, within the bounds HangUps, DockerFaults and      *)
(* DbFaults.  A call to Docker that fails, or is cancelled in flight, has  *)
(* no effect, except that an image or a container may have been made.      *)
(***************************************************************************)
EXTENDS Naturals, FiniteSets

CONSTANTS SpecID, NoSpec,
          Poster, SyncCleaner, AsyncCleaner,  \* requests, by their kind
          NoInst,                             \* the answer of a request that failed
          NoImage, ByTag,                     \* no image, and one that a script names
          Legacy,                             \* specs whose assignment has no index.js
          HangUps, DockerFaults, DbFaults

Cleaner == SyncCleaner \cup AsyncCleaner
Req == Poster \cup Cleaner

ASSUME NamesAssumption ==
  /\ NoInst \notin Poster /\ NoSpec \notin SpecID /\ Legacy \subseteq SpecID
  /\ {NoImage, ByTag} \cap Poster = {} /\ NoImage # ByTag
  /\ Poster \cap Cleaner = {} /\ SyncCleaner \cap AsyncCleaner = {} /\ IsFiniteSet(Poster)
ASSUME FaultAssumption == {HangUps, DockerFaults, DbFaults} \subseteq Nat

VARIABLES
  specs,        \* the spec rows
  pc, spec,     \* where a request is, and the spec it is about
  answered, answer,  \* requests that have their response, and the instance in it
  image, box,   \* the image that has a request's tag, and the container it has made
  row, at,      \* the instance's row, and its CreatedAt
  todo,         \* rows a cleaner has still to visit
  gone,         \* requests whose client has hung up
  hang, docker, db,  \* hang-ups and faults still to come
  seen,         \* history: requests that had been answered when this one began
  found,        \* history: rows a cleaner's query returned
  missed,       \* history: cleaners that could not clean one of them
  unheard       \* history: requests whose build or create was carried out and failed

request == <<pc, spec, answered, answer, seen>>
made    == <<image, box, unheard>>
rows    == <<specs, row, at>>
cleaning == <<todo, found, missed>>
left    == <<hang, docker, db>>
vars    == <<request, made, rows, cleaning, gone, left>>

Forward == {"generate", "build", "create", "start", "actions", "disconnect", "stop", "inspect", "record"}
Back    == {"kill", "remove", "unimage"}

TypeOK ==
  /\ specs \subseteq SpecID
  /\ pc \in [Req -> {"idle", "lookup", "insert", "find", "query", "clean", "stuck", "over"} \cup Forward \cup Back]
  /\ spec \in [Req -> SpecID \cup {NoSpec}]
  /\ answered \subseteq Req /\ answer \in [Poster -> Poster \cup {NoInst}]
  /\ image \in [Poster -> Poster \cup {NoImage, ByTag}]
  /\ box \in [Poster -> {"none", "stopped", "running"}]
  /\ row \in [Poster -> {"none", "active", "inactive", "cleaned"}] /\ at \in [Poster -> Nat]
  /\ todo \in [Cleaner -> SUBSET Poster] /\ found \in [Cleaner -> SUBSET Poster]
  /\ missed \subseteq Cleaner /\ gone \subseteq Poster /\ unheard \subseteq Poster
  /\ seen \in [Req -> SUBSET Req]
  /\ hang \in 0..HangUps /\ docker \in 0..DockerFaults /\ db \in 0..DbFaults

Init ==
  /\ specs = {}
  /\ pc = [r \in Req |-> "idle"] /\ spec = [r \in Req |-> NoSpec]
  /\ answered = {} /\ answer = [p \in Poster |-> NoInst]
  /\ image = [p \in Poster |-> NoImage] /\ box = [p \in Poster |-> "none"]
  /\ row = [p \in Poster |-> "none"] /\ at = [p \in Poster |-> 0]
  /\ todo = [k \in Cleaner |-> {}] /\ found = [k \in Cleaner |-> {}]
  /\ missed = {} /\ gone = {} /\ unheard = {}
  /\ seen = [r \in Req |-> {}]
  /\ hang = HangUps /\ docker = DockerFaults /\ db = DbFaults
-----------------------------------------------------------------------------
Works == UNCHANGED left
DockerFails == docker > 0 /\ docker' = docker - 1 /\ UNCHANGED <<hang, db>>
DbFails == db > 0 /\ db' = db - 1 /\ UNCHANGED <<hang, docker>>

\* A call that is given the context of the request.
CallWorks(p) == p \notin gone /\ Works
CallFails(p) == IF p \in gone THEN Works ELSE DockerFails

Goto(r, from, to) == pc[r] = from /\ pc' = [pc EXCEPT ![r] = to]

\* The response of a request, and its end.
Ends(r, from, i) ==
  /\ Goto(r, from, "over")
  /\ answered' = answered \cup {r}
  /\ answer' = IF r \in Poster THEN [answer EXCEPT ![r] = i] ELSE answer
-----------------------------------------------------------------------------
\* specProcessRequest: read the request, look for the spec ...
Begin(r, s) ==
  /\ Goto(r, "idle", "lookup")
  /\ spec' = [spec EXCEPT ![r] = s]
  /\ seen' = [seen EXCEPT ![r] = answered]
  /\ UNCHANGED <<answered, answer, made, rows, cleaning, gone, left>>

\* Where specPost and specClean go on; an asynchronous clean answers at once.
GoOn(r, from) ==
  /\ Goto(r, from, IF r \in Poster THEN "find" ELSE "query")
  /\ answered' = IF r \in AsyncCleaner THEN answered \cup {r} ELSE answered
  /\ UNCHANGED answer

FindSpec(r) ==
  /\ \/ spec[r] \in specs /\ GoOn(r, "lookup") /\ Works
     \/ spec[r] \notin specs /\ Goto(r, "lookup", "insert") /\ Works /\ UNCHANGED <<answered, answer>>
     \/ Ends(r, "lookup", NoInst) /\ DbFails
  /\ UNCHANGED <<spec, seen, made, rows, cleaning, gone>>

\* ... and insert it.  Another request may have done so: the primary key is taken.
InsertSpec(r) ==
  /\ \/ /\ spec[r] \notin specs /\ Works
        /\ GoOn(r, "insert")
        /\ specs' = specs \cup {spec[r]}
     \/ spec[r] \in specs /\ Works /\ Ends(r, "insert", NoInst) /\ UNCHANGED specs
     \/ DbFails /\ Ends(r, "insert", NoInst) /\ UNCHANGED specs
  /\ UNCHANGED <<spec, seen, made, row, at, cleaning, gone>>
-----------------------------------------------------------------------------
ActiveRows(s) == {i \in Poster : row[i] = "active" /\ spec[i] = s}

Newest_Oldest(S) == {i \in S : \A j \in S : at[i] <= at[j]}   \* mutant: sorts the other way

\* sort.Slice by CreatedAt; an order is not promised when it is equal.
Newest(S) == {i \in S : \A j \in S : at[j] <= at[i]}

FindActive_IgnoresError(p) == \* mutant: a failed query is taken for one without rows
  LET active == ActiveRows(spec[p])
  IN /\ \/ active = {} /\ Goto(p, "find", "generate") /\ Works /\ UNCHANGED <<answered, answer>>
        \/ \E i \in Newest(active) : Ends(p, "find", i) /\ Works
        \/ Goto(p, "find", "generate") /\ DbFails /\ UNCHANGED <<answered, answer>>
     /\ UNCHANGED <<spec, seen, made, rows, cleaning, gone>>

\* getActiveInstance: one query, then createInstance if it returned nothing.
FindActive(p) ==
  LET active == ActiveRows(spec[p])
  IN /\ \/ active = {} /\ Goto(p, "find", "generate") /\ Works /\ UNCHANGED <<answered, answer>>
        \/ \E i \in Newest(active) : Ends(p, "find", i) /\ Works
        \/ Ends(p, "find", NoInst) /\ DbFails
     /\ UNCHANGED <<spec, seen, made, rows, cleaning, gone>>

\* createInstance reads the spec and runs the assignment's script, whose errors count as
\* faults.  A script interrupted because the client has gone never returns (JSRun).
\* Without a script the legacy template is built.
Generate(p) ==
  /\ \/ Goto(p, "generate", "build") /\ Works /\ UNCHANGED <<answered, answer>>
     \/ Ends(p, "generate", NoInst) /\ (DbFails \/ DockerFails)
     \/ /\ p \in gone /\ spec[p] \notin Legacy
        /\ Goto(p, "generate", "stuck") /\ Works /\ UNCHANGED <<answered, answer>>
  /\ UNCHANGED <<spec, seen, made, rows, cleaning, gone>>

\* What Build can come to: a new hash, or that of an image that is there; or TagImage's tag.
Built(p) ==
  {p} \cup ({image[q] : q \in Poster} \ {NoImage, ByTag})
      \cup (IF spec[p] \in Legacy THEN {} ELSE {ByTag})

\* TagImage or Build.  Both may fail when the tag is there: Build removes the images of
\* earlier stages after it.
BuildImage(p) ==
  /\ \/ /\ CallWorks(p) /\ Goto(p, "build", "create")
        /\ \E h \in Built(p) : image' = [image EXCEPT ![p] = h]
        /\ UNCHANGED <<answered, answer, unheard>>
     \/ CallFails(p) /\ Ends(p, "build", NoInst) /\ UNCHANGED <<image, unheard>>
     \/ /\ CallFails(p) /\ Ends(p, "build", NoInst)
        /\ \E h \in Built(p) : image' = [image EXCEPT ![p] = h]
        /\ unheard' = unheard \cup {p}
  /\ UNCHANGED <<spec, seen, box, rows, cleaning, gone>>

\* A step of specCreateContainer that goes on, or begins to take things back.
Step(p, from, to, back) ==
  /\ \/ CallWorks(p) /\ Goto(p, from, to)
     \/ CallFails(p) /\ Goto(p, from, back)
  /\ UNCHANGED <<spec, answered, answer, seen, image, rows, cleaning, gone>>
Becomes(p, to, state) == box' = [box EXCEPT ![p] = IF pc'[p] = to THEN state ELSE @]

\* If the create fails its container may be there: its ID is not known, and nobody removes it.
CreateContainer(p) ==
  LET next == IF spec[p] \in Legacy THEN "inspect" ELSE "start"
  IN /\ Step(p, "create", next, "unimage")
     /\ \/ Becomes(p, next, "stopped") /\ UNCHANGED unheard
        \/ /\ pc'[p] = "unimage"
           /\ box' = [box EXCEPT ![p] = "stopped"] /\ unheard' = unheard \cup {p}

Disconnect_Last(p) ==         \* mutant: never stops
  Step(p, "disconnect", "record", "kill") /\ UNCHANGED <<box, unheard>>

\* specCreateContainerSetup.
StartContainer(p) ==
  /\ Step(p, "start", "actions", "kill") /\ UNCHANGED unheard
  /\ Becomes(p, "actions", "running") \/ box' = [box EXCEPT ![p] = "running"]
PerformActions(p) == Step(p, "actions", "disconnect", "kill") /\ UNCHANGED <<box, unheard>>
Disconnect(p) == Step(p, "disconnect", "stop", "kill") /\ UNCHANGED <<box, unheard>>
StopContainer(p) ==
  Step(p, "stop", "record", "kill") /\ Becomes(p, "record", "stopped") /\ UNCHANGED unheard

\* specLegacyCreateCmd: the container is not started, and not killed.
Inspect(p) == Step(p, "inspect", "record", "remove") /\ UNCHANGED <<box, unheard>>

\* Taking back, with a context of its own; errors are only logged.
Kill(p) ==
  /\ Goto(p, "kill", "remove")
  /\ \/ Works /\ box' = [box EXCEPT ![p] = "stopped"]
     \/ DockerFails /\ UNCHANGED box
  /\ UNCHANGED <<spec, answered, answer, seen, image, unheard, rows, cleaning, gone>>

Remove_SameContext(p) ==      \* mutant: removes with the request's context
  /\ Goto(p, "remove", "unimage")
  /\ \/ CallWorks(p) /\ box[p] # "running" /\ box' = [box EXCEPT ![p] = "none"]
     \/ CallFails(p) /\ UNCHANGED box
     \/ Works /\ box[p] = "running" /\ UNCHANGED box
  /\ UNCHANGED <<spec, answered, answer, seen, image, unheard, rows, cleaning, gone>>

\* Docker does not remove a running container.
Remove(p) ==
  /\ Goto(p, "remove", "unimage")
  /\ \/ Works /\ box' = [box EXCEPT ![p] = IF @ = "running" THEN @ ELSE "none"]
     \/ DockerFails /\ UNCHANGED box
  /\ UNCHANGED <<spec, answered, answer, seen, image, unheard, rows, cleaning, gone>>

\* By its hash, Docker removes an image only if no container is made from it and no other
\* tag names it.  By its tag it is always released: it has its own name, too.
Shared(p) == image[p] \in Poster /\ \E q \in Poster \ {p} : image[q] = image[p]
Releases(p) == image[p] = ByTag \/ (box[p] = "none" /\ ~Shared(p))

RemoveImage(p) ==
  /\ Ends(p, "unimage", NoInst)
  /\ \/ Works /\ image' = [image EXCEPT ![p] = IF Releases(p) THEN NoImage ELSE @]
     \/ DockerFails /\ UNCHANGED image
  /\ UNCHANGED <<spec, seen, box, unheard, rows, cleaning, gone>>

\* The transaction that adds the instance to the spec.  An error is returned, and what
\* was made stays.
Record(p) ==
  /\ \/ /\ Works /\ Ends(p, "record", p)
        /\ row' = [row EXCEPT ![p] = "active"]
        /\ at' = [at EXCEPT ![p] = Cardinality({i \in Poster : row[i] # "none"}) + 1]
     \/ DbFails /\ Ends(p, "record", NoInst) /\ UNCHANGED <<row, at>>
  /\ UNCHANGED <<spec, seen, made, specs, cleaning, gone>>
-----------------------------------------------------------------------------
Uncleaned(s) == {i \in Poster : row[i] \in {"active", "inactive"} /\ spec[i] = s}

\* specClean's query ...
QueryUncleaned(k) ==
  /\ \/ Works /\ todo' = [todo EXCEPT ![k] = Uncleaned(spec[k])] /\ UNCHANGED missed
     \/ DbFails /\ missed' = missed \cup {k} /\ UNCHANGED todo
  /\ Goto(k, "query", "clean")
  /\ found' = [found EXCEPT ![k] = todo'[k]]
  /\ UNCHANGED <<spec, answered, answer, seen, made, rows, gone>>

CleanRow_KeepsActive(k, i) == \* mutant: sets Cleaned only, the row is still selected by Active
  /\ pc[k] = "clean" /\ i \in todo[k]
  /\ todo' = [todo EXCEPT ![k] = @ \ {i}]
  /\ Works
  /\ box' = [box EXCEPT ![i] = "none"]
  /\ image' = [image EXCEPT ![i] = IF Shared(i) THEN @ ELSE NoImage]
  /\ missed' = IF Shared(i) THEN missed \cup {k} ELSE missed
  /\ UNCHANGED <<request, rows, unheard, found, gone>>

\* ... and cleanInstance for each row (in detail in InstanceLifecycle).  It fails after it
\* has removed the container if the image is shared, and with a fault when the container,
\* or the image too, may be gone already.
CleanRow(k, i) ==
  /\ pc[k] = "clean" /\ i \in todo[k]
  /\ todo' = [todo EXCEPT ![k] = @ \ {i}]
  /\ \/ /\ Works /\ ~Shared(i)
        /\ box' = [box EXCEPT ![i] = "none"] /\ image' = [image EXCEPT ![i] = NoImage]
        /\ row' = [row EXCEPT ![i] = "cleaned"]
        /\ UNCHANGED missed
     \/ /\ Works /\ Shared(i)
        /\ box' = [box EXCEPT ![i] = "none"]
        /\ missed' = missed \cup {k}
        /\ UNCHANGED <<image, row>>
     \/ /\ DockerFails \/ DbFails
        /\ missed' = missed \cup {k}
        /\ \/ UNCHANGED <<box, image>>
           \/ /\ box' = [box EXCEPT ![i] = "none"]
              /\ \/ UNCHANGED image
                 \/ ~Shared(i) /\ image' = [image EXCEPT ![i] = NoImage]
        /\ UNCHANGED row
  /\ UNCHANGED <<request, specs, at, unheard, found, gone>>

CleanDone(k) ==
  /\ todo[k] = {}
  /\ Ends(k, "clean", NoInst)
  /\ UNCHANGED <<spec, seen, made, rows, cleaning, gone, left>>

\* checkExpiredInstances.
Expire(i) ==
  /\ row[i] = "active"
  /\ row' = [row EXCEPT ![i] = "inactive"]
  /\ UNCHANGED <<request, made, specs, at, cleaning, gone, left>>

HangUp(p) ==
  /\ hang > 0 /\ pc[p] \notin {"idle", "stuck", "over"} /\ p \notin gone
  /\ hang' = hang - 1
  /\ gone' = gone \cup {p}
  /\ UNCHANGED <<request, made, rows, cleaning, docker, db>>
-----------------------------------------------------------------------------
PostStep(p) ==
  \/ FindActive(p) \/ Generate(p) \/ BuildImage(p) \/ CreateContainer(p) \/ StartContainer(p)
  \/ PerformActions(p) \/ Disconnect(p) \/ StopContainer(p) \/ Inspect(p)
  \/ Kill(p) \/ Remove(p) \/ RemoveImage(p) \/ Record(p)

CleanStep(k) == QueryUncleaned(k) \/ CleanDone(k) \/ \E i \in Poster : CleanRow(k, i)

Next ==
  \/ \E r \in Req : (\E s \in SpecID : Begin(r, s)) \/ FindSpec(r) \/ InsertSpec(r)
  \/ \E p \in Poster : PostStep(p) \/ HangUp(p) \/ Expire(p)
  \/ \E k \in Cleaner : CleanStep(k)

Spec == Init /\ [][Next]_vars
-----------------------------------------------------------------------------
\* The instances clients are told of are whole, unless a cleaner has got hold of them:
\* their image is there, and their container, stopped.
RecordedIsWhole ==
  \A i \in Poster : row[i] \in {"active", "inactive"} =>
    (image[i] # NoImage /\ box[i] = "stopped") \/ \E k \in Cleaner : i \in found[k]

\* One hang-up, or one failing call to Docker, leaves no container and no image behind for
\* which there is no row, wherever it strikes, with two exceptions: what a build or a create
\* that was itself cut off has made, and an image that another request's tag names too.
TakenBack ==
  db = DbFaults /\ (HangUps - hang) + (DockerFaults - docker) <= 1 =>
    \A p \in Poster \ unheard : pc[p] = "over" /\ row[p] = "none" =>
      box[p] = "none" /\ (image[p] = NoImage \/ Shared(p))

\* Clients that ask one after the other are not sent back to an older instance while
\* the one that was named before is active.
AnswersMoveForward ==
  \A p \in Poster : \A q \in Poster \cap seen[p] :
    answer[p] # NoInst /\ answer[q] # NoInst /\ spec[p] = spec[q] /\ row[answer[q]] = "active" =>
      at[answer[q]] <= at[answer[p]]

\* A spec has two active instances only when the requests that made them overlapped:
\* one that begins after the other's answer reuses its instance.
TwinsOverlap ==
  \A s \in SpecID : \A i, j \in ActiveRows(s) : i \notin seen[j]

\* A clean request resets: who asks after its answer never gets an instance it found, if the
\* clean ran in the request and nothing it found was refused: no call failed, and no image
\* was shared.
SyncResets ==
  \A p \in Poster : \A k \in SyncCleaner \cap seen[p] :
    k \notin missed /\ spec[k] = spec[p] => answer[p] \notin found[k]
=============================================================================
