------------------------------ MODULE ImageProofs ------------------------------
(***************************************************************************)
(* The registry and the docker hosts, for any number of workers, hosts,     *)
(* requests and failures.  The inductive invariant says for each build how  *)
(* its tag, its answer and the images on its host belong together.          *)
(***************************************************************************)
EXTENDS ImageProperties, WellFoundedInduction, TLAPS

\* The types; the names of the tags follow from BuildsFit.
Typed ==
  /\ registry \in [Tags -> Requests \cup {Nothing}]
  /\ images \in [Hosts -> [Tags -> Requests \cup {Nothing}]]
  /\ build \in [Workers -> Build]
  /\ reported \subseteq Requests
  /\ left \subseteq Hosts /\ unnamed \subseteq Hosts
  /\ faults \in 0 .. MaxFaults

\* A build has the tag of its request, and succeeds only with an image there.
BuildsFit ==
  \A w \in Workers : build[w] # Idle =>
    /\ TagOf(w) = Reference(build[w].r)
    /\ Running(w, "remove") /\ build[w].ok => registry[TagOf(w)] # Nothing

\* An image lies under the reference of the request it was built for.
ImagesFit ==
  /\ \A t \in Tags : registry[t] # Nothing => Reference(registry[t]) = t
  /\ \A h \in Hosts, t \in Tags : images[h][t] # Nothing => Reference(images[h][t]) = t

\* A tag that names an image on a host belongs to a build that will remove it.
Pending(w) == Running(w, "push") \/ Running(w, "remove")
ImagesPending ==
  \A h \in Hosts \ left : \A t \in Tags : images[h][t] # Nothing =>
    \E w \in Workers : HostOf[w] = h /\ Pending(w) /\ TagOf(w) = t

ImageInv ==
  /\ Typed /\ BuildsFit /\ ImagesFit /\ ImagesPending
  /\ SuccessIsInRegistry /\ ImageIsThereToPush

-----------------------------------------------------------------------------
(* Lemmas about the build of one worker *)

\* A build that is under way has a request, and the tag of one.
LEMMA UnderWay ==
  ASSUME Typed, NEW w \in Workers, build[w] # Idle
  PROVE  /\ build[w] \in [pc: Steps, r: Requests, tag: Tags, ok: BOOLEAN]
         /\ TagOf(w) \in Tags /\ build[w].r \in Requests /\ build[w].ok \in BOOLEAN
         /\ HostOf[w] \in Hosts
BY DEF Typed, Build, TagOf, Hosts

\* Who runs a step is not idle.
LEMMA RunningIsUnderWay ==
  ASSUME NEW w, NEW step \in Steps, Running(w, step)
  PROVE  build[w] # Idle
BY DEF Running, Idle, Steps

\* The build after a step of the same build.
After(w, step, ok) == [pc |-> step, r |-> build[w].r, tag |-> TagOf(w), ok |-> ok]

\* Going on to a step changes nothing else of the build.
LEMMA NextStep ==
  ASSUME Typed, NEW w \in Workers, build[w] # Idle, NEW step \in Steps, Goes(w, step)
  PROVE  build' = [build EXCEPT ![w] = After(w, step, build[w].ok)]
<1>1. build[w] \in [pc: Steps, r: Requests, tag: Tags, ok: BOOLEAN]  BY UnderWay
<1>2. [build[w] EXCEPT !.pc = step] = After(w, step, build[w].ok)
  BY <1>1 DEF After, TagOf
<1>3. QED  BY <1>2 DEF Goes

\* What a step of one build may do that leaves the images alone: it goes on with
\* the same request and succeeds only with an image in the registry.
LEMMA GoesOn ==
  ASSUME ImageInv, NEW w \in Workers, build[w] # Idle, NEW step \in Steps,
         NEW ok \in BOOLEAN,
         build' = [build EXCEPT ![w] = After(w, step, ok)],
         registry' \in [Tags -> Requests \cup {Nothing}],
         \A t \in Tags : registry[t] # Nothing => registry'[t] # Nothing,
         step = "remove" /\ ok => registry'[TagOf(w)] # Nothing
  PROVE  /\ build' \in [Workers -> Build]
         /\ BuildsFit'
         /\ \A v \in Workers : build'[v] # Idle => TagOf(v)' = TagOf(v) /\ build[v] # Idle
         /\ \A v \in Workers : v # w => build'[v] = build[v]
         /\ build'[w] = After(w, step, ok)
<1> USE DEF ImageInv
<1>1. /\ build[w] \in [pc: Steps, r: Requests, tag: Tags, ok: BOOLEAN]
      /\ TagOf(w) \in Tags /\ build[w].r \in Requests
  BY UnderWay
<1>2. build \in [Workers -> Build]  BY DEF Typed
<1>3. After(w, step, ok) \in [pc: Steps, r: Requests, tag: Tags, ok: BOOLEAN]
  BY <1>1 DEF After
<1>4. build' \in [Workers -> Build]  BY <1>2, <1>3 DEF Build
<1>5. build'[w] = After(w, step, ok)  BY <1>2
<1>6. \A v \in Workers : v # w => build'[v] = build[v]  BY <1>2
<1>7. After(w, step, ok).tag = TagOf(w) /\ After(w, step, ok).r = build[w].r
      /\ After(w, step, ok).pc = step /\ After(w, step, ok).ok = ok
  BY DEF After
<1>8. \A v \in Workers : build'[v] # Idle => TagOf(v)' = TagOf(v) /\ build[v] # Idle
  BY <1>5, <1>6, <1>7 DEF TagOf
<1>9. ASSUME NEW v \in Workers, build'[v] # Idle
      PROVE  /\ TagOf(v)' = Reference(build'[v].r)
             /\ Running(v, "remove")' /\ build'[v].ok => registry'[TagOf(v)'] # Nothing
  <2>1. CASE v = w
    BY <2>1, <1>5, <1>7 DEF BuildsFit, TagOf, Running
  <2>2. CASE v # w
    <3>1. build'[v] = build[v] /\ build[v] # Idle  BY <2>2, <1>6, <1>9
    <3>2. TagOf(v)' = TagOf(v) /\ TagOf(v) \in Tags  BY <3>1, UnderWay DEF TagOf
    <3>3. QED  BY <3>1, <3>2 DEF BuildsFit, Running
  <2>3. QED  BY <2>1, <2>2
<1>10. BuildsFit'  BY <1>9 DEF BuildsFit
<1>11. QED  BY <1>4, <1>5, <1>6, <1>8, <1>10

\* Such a step, when it does not build and the images stay as they are.
LEMMA ImagesStay ==
  ASSUME ImageInv, NEW w \in Workers, build[w] # Idle, NEW step \in Steps \ {"push"},
         NEW ok \in BOOLEAN,
         build' = [build EXCEPT ![w] = After(w, step, ok)],
         Pending(w) => step = "remove",
         registry' \in [Tags -> Requests \cup {Nothing}],
         \A t \in Tags : registry[t] # Nothing => registry'[t] # Nothing,
         \A t \in Tags : registry'[t] # Nothing => Reference(registry'[t]) = t,
         step = "remove" /\ ok => registry'[TagOf(w)] # Nothing,
         UNCHANGED <<images, reported, left, unnamed>>, faults' \in 0 .. MaxFaults
  PROVE  ImageInv'
<1> USE DEF ImageInv
<1>1. /\ build' \in [Workers -> Build]
      /\ BuildsFit'
      /\ \A v \in Workers : build'[v] # Idle => TagOf(v)' = TagOf(v) /\ build[v] # Idle
      /\ \A v \in Workers : v # w => build'[v] = build[v]
      /\ build'[w] = After(w, step, ok)
  BY GoesOn
<1>2. Typed'  BY <1>1 DEF Typed
<1>3. ImagesFit'  BY DEF ImagesFit
<1>4. ImagesPending'
  <2>1. ASSUME NEW v \in Workers, Pending(v) PROVE Pending(v)' /\ TagOf(v)' = TagOf(v)
    <3>1. CASE v = w  BY <2>1, <3>1, <1>1 DEF Pending, Running, After, TagOf
    <3>2. CASE v # w  BY <2>1, <3>2, <1>1 DEF Pending, Running, TagOf
    <3>3. QED  BY <3>1, <3>2
  <2>2. QED  BY <2>1 DEF ImagesPending
<1>5. SuccessIsInRegistry'
  <2>1. \A r \in reported : Reference(r) \in Tags  BY DEF Typed, Tags
  <2>2. QED  BY <2>1 DEF SuccessIsInRegistry
<1>6. ImageIsThereToPush'
  <2>1. ASSUME NEW v \in Workers, Running(v, "push")', Local(v)' = Nothing
        PROVE  \E u \in Workers \ {v} : HostOf[u] = HostOf[v]
    <3>1. v # w  BY <2>1, <1>1 DEF Running, After
    <3>2. Running(v, "push") /\ Local(v) = Nothing
      BY <2>1, <3>1, <1>1 DEF Running, Local, TagOf
    <3>3. QED  BY <3>2 DEF ImageIsThereToPush
  <2>2. QED  BY <2>1 DEF ImageIsThereToPush
<1>7. QED  BY <1>1, <1>2, <1>3, <1>4, <1>5, <1>6

\* BuildAndPush returns, or the process ends: an image that waits for its removal
\* is removed, or its host is one where something is left.
LEMMA Returns ==
  ASSUME ImageInv, NEW w \in Workers, build[w] # Idle, Return(w),
         images' = images \/ Names(w, Nothing),
         Pending(w) => Names(w, Nothing) \/ HostOf[w] \in left',
         left \subseteq left', left' \subseteq Hosts,
         reported' \subseteq Requests, \A r \in reported' : registry[Reference(r)] # Nothing,
         UNCHANGED <<registry, unnamed>>, faults' \in 0 .. MaxFaults
  PROVE  ImageInv'
<1> USE DEF ImageInv
<1>1. build \in [Workers -> Build] /\ Idle \in Build  BY DEF Typed, Build
<1>2. build' \in [Workers -> Build] /\ build'[w] = Idle  BY <1>1 DEF Return
<1>3. \A v \in Workers : v # w => build'[v] = build[v]  BY <1>1 DEF Return
<1>4. HostOf[w] \in Hosts /\ TagOf(w) \in Tags  BY UnderWay
<1>5. /\ images' \in [Hosts -> [Tags -> Requests \cup {Nothing}]]
      /\ \A h \in Hosts, t \in Tags : images'[h][t] # Nothing => images'[h][t] = images[h][t]
      /\ \A h \in Hosts, t \in Tags :
           images'[h][t] # images[h][t] => h = HostOf[w] /\ t = TagOf(w)
      /\ Names(w, Nothing) => images'[HostOf[w]][TagOf(w)] = Nothing
  <2>1. images \in [Hosts -> [Tags -> Requests \cup {Nothing}]]  BY DEF Typed
  <2>2. CASE Names(w, Nothing)
    <3>1. [images[HostOf[w]] EXCEPT ![TagOf(w)] = Nothing] \in [Tags -> Requests \cup {Nothing}]
      BY <2>1, <1>4
    <3>2. QED  BY <2>1, <2>2, <3>1, <1>4 DEF Names
  <2>3. CASE images' = images /\ ~Names(w, Nothing)  BY <2>1, <2>3
  <2>4. QED  BY <2>2, <2>3
<1>6. Typed'  BY <1>2, <1>5 DEF Typed
<1>7. BuildsFit'
  BY <1>2, <1>3 DEF BuildsFit, Running, TagOf
<1>8. ImagesFit'  BY <1>5 DEF ImagesFit
<1>9. ImagesPending'
  <2>1. ASSUME NEW h \in Hosts \ left', NEW t \in Tags, images'[h][t] # Nothing
        PROVE  \E v \in Workers : HostOf[v] = h /\ Pending(v)' /\ TagOf(v)' = t
    <3>1. PICK v \in Workers : HostOf[v] = h /\ Pending(v) /\ TagOf(v) = t
      BY <2>1, <1>5 DEF ImagesPending
    <3>2. v # w  BY <2>1, <3>1, <1>5
    <3>3. QED  BY <3>1, <3>2, <1>3 DEF Pending, Running, TagOf
  <2>2. QED  BY <2>1 DEF ImagesPending
<1>10. SuccessIsInRegistry'  BY DEF SuccessIsInRegistry
<1>11. ImageIsThereToPush'
  <2>1. ASSUME NEW v \in Workers, Running(v, "push")', Local(v)' = Nothing
        PROVE  \E u \in Workers \ {v} : HostOf[u] = HostOf[v]
    <3>1. v # w  BY <2>1, <1>2 DEF Running, Idle
    <3>2. build'[v] = build[v] /\ Running(v, "push") /\ build[v] # Idle
      BY <2>1, <3>1, <1>3 DEF Running, Idle
    <3>3. TagOf(v) \in Tags /\ HostOf[v] \in Hosts  BY <3>2, UnderWay
    <3>4. TagOf(v)' = TagOf(v)  BY <3>2 DEF TagOf
    <3>5. CASE HostOf[v] = HostOf[w]  BY <3>1, <3>5
    <3>6. CASE HostOf[v] # HostOf[w]
      <4>1. Local(v) = Nothing  BY <2>1, <3>3, <3>4, <3>6, <1>5 DEF Local
      <4>2. QED  BY <4>1, <3>2 DEF ImageIsThereToPush
    <3>7. QED  BY <3>5, <3>6
  <2>2. QED  BY <2>1 DEF ImageIsThereToPush
<1>12. QED  BY <1>6, <1>7, <1>8, <1>9, <1>10, <1>11

-----------------------------------------------------------------------------
(* The actions *)

\* Nothing has been built.
LEMMA ImageInvInit == ImageInit => ImageInv
<1> SUFFICES ASSUME ImageInit PROVE ImageInv  OBVIOUS
<1> USE ImageAssumption DEF ImageInit
<1>1. Typed  BY DEF Typed, Build
<1>2. \A w \in Workers : build[w] = Idle  OBVIOUS
<1>3. BuildsFit /\ ImageIsThereToPush
  BY <1>2 DEF BuildsFit, ImageIsThereToPush, Running, Idle
<1>4. ImagesFit /\ ImagesPending  BY DEF ImagesFit, ImagesPending
<1>5. SuccessIsInRegistry  BY DEF SuccessIsInRegistry
<1>6. QED  BY <1>1, <1>3, <1>4, <1>5 DEF ImageInv

\* A worker starts a build: it has no tag yet that anything depends on.
LEMMA StartKeeps ==
  ASSUME ImageInv, NEW w \in Workers, Start(w)
  PROVE  ImageInv'
<1> USE DEF ImageInv
<1>1. PICK r \in Requests : build' = [build EXCEPT ![w] =
        [pc |-> "prepare", r |-> r, tag |-> Reference(r), ok |-> FALSE]]
  BY DEF Start
<1>2. build[w] = Idle /\ UNCHANGED <<registry, images, reported, left, unnamed, faults>>
  BY DEF Start
<1>3. build \in [Workers -> Build] /\ Reference(r) \in Tags  BY DEF Typed, Tags
<1>4. [pc |-> "prepare", r |-> r, tag |-> Reference(r), ok |-> FALSE]
        \in [pc: Steps, r: Requests, tag: Tags, ok: BOOLEAN]
  BY <1>3 DEF Steps
<1>5. build' \in [Workers -> Build]  BY <1>1, <1>3, <1>4 DEF Build
<1>6. build'[w] = [pc |-> "prepare", r |-> r, tag |-> Reference(r), ok |-> FALSE]
  BY <1>1, <1>3
<1>7. \A v \in Workers : v # w => build'[v] = build[v]  BY <1>1, <1>3
<1>8. Typed'  BY <1>2, <1>5 DEF Typed
<1>9. BuildsFit'
  BY <1>2, <1>6, <1>7 DEF BuildsFit, Running, TagOf
<1>10. ImagesFit' /\ SuccessIsInRegistry'  BY <1>2 DEF ImagesFit, SuccessIsInRegistry
<1>11. ASSUME NEW v \in Workers
       PROVE  /\ Pending(v)' <=> Pending(v)
              /\ Running(v, "push")' <=> Running(v, "push")
              /\ Pending(v) => build'[v] = build[v]
  <2>1. CASE v = w  BY <2>1, <1>2, <1>6 DEF Pending, Running, Idle
  <2>2. CASE v # w  BY <2>2, <1>7 DEF Pending, Running
  <2>3. QED  BY <2>1, <2>2
<1>12. ImagesPending'  BY <1>2, <1>11 DEF ImagesPending, TagOf
<1>13. ImageIsThereToPush'
  <2>1. ASSUME NEW v \in Workers, Running(v, "push")', Local(v)' = Nothing
        PROVE  \E u \in Workers \ {v} : HostOf[u] = HostOf[v]
    <3>1. Running(v, "push") /\ Local(v) = Nothing
      BY <2>1, <1>2, <1>11 DEF Local, TagOf, Pending
    <3>2. QED  BY <3>1 DEF ImageIsThereToPush
  <2>2. QED  BY <2>1 DEF ImageIsThereToPush
<1>14. QED  BY <1>8, <1>9, <1>10, <1>12, <1>13

\* A command has left its image on the host.
LEMMA BuiltKeeps ==
  ASSUME ImageInv, NEW w \in Workers, build[w] # Idle, ~Pending(w), Built(w),
         UNCHANGED <<registry, reported, left, faults>>
  PROVE  ImageInv'
<1> USE DEF ImageInv
<1>1. /\ TagOf(w) \in Tags /\ HostOf[w] \in Hosts
      /\ build[w].r \in Requests /\ build[w].ok \in BOOLEAN
      /\ TagOf(w) = Reference(build[w].r)
  BY UnderWay DEF BuildsFit
<1>2. build' = [build EXCEPT ![w] = After(w, "push", build[w].ok)]
  BY NextStep DEF Built, Steps
<1>3. /\ build' \in [Workers -> Build]
      /\ BuildsFit'
      /\ \A v \in Workers : build'[v] # Idle => TagOf(v)' = TagOf(v) /\ build[v] # Idle
      /\ \A v \in Workers : v # w => build'[v] = build[v]
      /\ build'[w] = After(w, "push", build[w].ok)
  <2>1. registry' \in [Tags -> Requests \cup {Nothing}]  BY DEF Typed
  <2>2. QED  BY <2>1, <1>1, <1>2, GoesOn DEF Steps
<1>4. /\ images' \in [Hosts -> [Tags -> Requests \cup {Nothing}]]
      /\ images'[HostOf[w]][TagOf(w)] = build[w].r
      /\ \A h \in Hosts, t \in Tags :
           h # HostOf[w] \/ t # TagOf(w) => images'[h][t] = images[h][t]
  <2>1. images \in [Hosts -> [Tags -> Requests \cup {Nothing}]]  BY DEF Typed
  <2>2. [images[HostOf[w]] EXCEPT ![TagOf(w)] = build[w].r] \in [Tags -> Requests \cup {Nothing}]
    BY <2>1, <1>1
  <2>3. QED  BY <2>1, <2>2, <1>1 DEF Built, Names
<1>5. Typed'  BY <1>1, <1>3, <1>4 DEF Typed, Built, Untagged
<1>6. ImagesFit'  BY <1>1, <1>4 DEF ImagesFit
<1>7. Pending(w)' /\ TagOf(w)' = TagOf(w)
  BY <1>3 DEF Pending, Running, TagOf, After
<1>8. \A v \in Workers : Pending(v) => Pending(v)' /\ TagOf(v)' = TagOf(v)
  BY <1>3 DEF Pending, Running, TagOf
<1>9. ImagesPending'
  <2>1. ASSUME NEW h \in Hosts \ left, NEW t \in Tags, images'[h][t] # Nothing
        PROVE  \E v \in Workers : HostOf[v] = h /\ Pending(v)' /\ TagOf(v)' = t
    <3>1. CASE h = HostOf[w] /\ t = TagOf(w)  BY <3>1, <1>7
    <3>2. CASE h # HostOf[w] \/ t # TagOf(w)
      BY <2>1, <3>2, <1>4, <1>8 DEF ImagesPending
    <3>3. QED  BY <3>1, <3>2
  <2>2. QED  BY <2>1 DEF ImagesPending
<1>10. SuccessIsInRegistry'  BY DEF SuccessIsInRegistry
<1>11. ImageIsThereToPush'
  <2>1. ASSUME NEW v \in Workers, Running(v, "push")', Local(v)' = Nothing
        PROVE  \E u \in Workers \ {v} : HostOf[u] = HostOf[v]
    <3>1. v # w
      BY <2>1, <1>1, <1>4, <1>7, ImageAssumption DEF Local
    <3>2. build'[v] = build[v] /\ Running(v, "push") /\ build[v] # Idle
      BY <2>1, <3>1, <1>3 DEF Running, Idle
    <3>3. TagOf(v) \in Tags /\ HostOf[v] \in Hosts /\ TagOf(v)' = TagOf(v)
      BY <3>2, UnderWay DEF TagOf
    <3>4. CASE HostOf[v] = HostOf[w]  BY <3>1, <3>4
    <3>5. CASE HostOf[v] # HostOf[w]
      <4>1. Local(v) = Nothing  BY <2>1, <3>3, <3>5, <1>4 DEF Local
      <4>2. QED  BY <4>1, <3>2 DEF ImageIsThereToPush
    <3>6. QED  BY <3>4, <3>5
  <2>2. QED  BY <2>1 DEF ImageIsThereToPush
<1>12. QED  BY <1>3, <1>5, <1>6, <1>9, <1>10, <1>11

\* Every action of a worker.
LEMMA WorkerKeeps ==
  ASSUME ImageInv, NEW w \in Workers,
         Prepare(w) \/ Inspect(w) \/ Nixpacks(w) \/ Dockerfile(w) \/ Push(w)
           \/ RemoveImage(w) \/ Crash(w)
  PROVE  ImageInv'
<1>1. build[w] # Idle
  BY RunningIsUnderWay DEF Prepare, Inspect, Nixpacks, Dockerfile, Push, RemoveImage, Crash,
                           Steps
<1>2. /\ TagOf(w) \in Tags /\ HostOf[w] \in Hosts
      /\ build[w].r \in Requests /\ build[w].ok \in BOOLEAN
      /\ TagOf(w) = Reference(build[w].r)
  BY <1>1, UnderWay DEF ImageInv, BuildsFit
<1>3. /\ registry \in [Tags -> Requests \cup {Nothing}] /\ reported \subseteq Requests
      /\ images \in [Hosts -> [Tags -> Requests \cup {Nothing}]]
      /\ \A t \in Tags : registry[t] # Nothing => Reference(registry[t]) = t
      /\ \A h \in Hosts, t \in Tags : images[h][t] # Nothing => Reference(images[h][t]) = t
  BY DEF ImageInv, Typed, ImagesFit
<1>4. faults \in 0 .. MaxFaults /\ (Fault => faults' \in 0 .. MaxFaults)
  BY ImageAssumption DEF ImageInv, Typed, Fault
<1>5. left \subseteq Hosts  BY DEF ImageInv, Typed
<1>6. \A r \in reported : registry[Reference(r)] # Nothing
  BY DEF ImageInv, SuccessIsInRegistry
<1>7. {"inspect", "nixpacks", "dockerfile", "remove"} \subseteq Steps \ {"push"}
  BY DEF Steps
<1>8. CASE Prepare(w)
  <2>1. ~Pending(w)  BY <1>8 DEF Prepare, Pending, Running
  <2>2. CASE Goes(w, "inspect")
    <3>1. build' = [build EXCEPT ![w] = After(w, "inspect", build[w].ok)]
      BY <1>1, <1>7, <2>2, NextStep DEF ImageInv
    <3>2. faults' \in 0 .. MaxFaults  BY <1>8, <1>4 DEF Prepare
    <3>3. QED  BY <1>1, <1>2, <1>3, <1>7, <1>8, <2>1, <3>1, <3>2, ImagesStay DEF Prepare
  <2>3. CASE Return(w) /\ Fault
    BY <1>1, <1>3, <1>4, <1>5, <1>6, <1>8, <2>1, <2>3, Returns DEF Prepare
  <2>4. QED  BY <1>8, <2>2, <2>3 DEF Prepare
<1>9. CASE Inspect(w)
  <2>1. ~Pending(w)  BY <1>9 DEF Inspect, Pending, Running
  <2>2. faults' \in 0 .. MaxFaults /\ UNCHANGED <<registry, images, reported, left, unnamed>>
    BY <1>9, <1>4 DEF Inspect
  <2>3. CASE registry[TagOf(w)] # Nothing /\ ReturnRemoving(w, TRUE)
    <3>1. build' = [build EXCEPT ![w] = After(w, "remove", TRUE)]
      BY <2>3 DEF ReturnRemoving, After
    <3>2. QED  BY <1>1, <1>2, <1>3, <1>7, <2>1, <2>2, <2>3, <3>1, ImagesStay
  <2>4. CASE Goes(w, "nixpacks")
    <3>1. build' = [build EXCEPT ![w] = After(w, "nixpacks", build[w].ok)]
      BY <1>1, <1>7, <2>4, NextStep DEF ImageInv
    <3>2. QED  BY <1>1, <1>2, <1>3, <1>7, <2>1, <2>2, <3>1, ImagesStay
  <2>5. QED  BY <1>9, <2>3, <2>4 DEF Inspect
<1>10. CASE Nixpacks(w)
  <2>1. ~Pending(w)  BY <1>10 DEF Nixpacks, Pending, Running
  <2>2. UNCHANGED <<registry, reported, left, faults>>  BY <1>10 DEF Nixpacks
  <2>3. CASE Built(w)  BY <1>1, <2>1, <2>2, <2>3, BuiltKeeps
  <2>4. CASE Goes(w, "dockerfile") /\ UNCHANGED <<images, unnamed>>
    <3>1. build' = [build EXCEPT ![w] = After(w, "dockerfile", build[w].ok)]
      BY <1>1, <1>7, <2>4, NextStep DEF ImageInv
    <3>2. QED  BY <1>1, <1>2, <1>3, <1>4, <1>7, <2>1, <2>2, <2>4, <3>1, ImagesStay
  <2>5. QED  BY <1>10, <2>3, <2>4 DEF Nixpacks
<1>11. CASE Dockerfile(w)
  <2>1. ~Pending(w)  BY <1>11 DEF Dockerfile, Pending, Running
  <2>2. UNCHANGED <<registry, reported, left, faults>>  BY <1>11 DEF Dockerfile
  <2>3. CASE Built(w)  BY <1>1, <2>1, <2>2, <2>3, BuiltKeeps
  <2>4. CASE ReturnRemoving(w, FALSE) /\ UNCHANGED <<images, unnamed>>
    <3>1. build' = [build EXCEPT ![w] = After(w, "remove", FALSE)]
      BY <2>4 DEF ReturnRemoving, After
    <3>2. QED  BY <1>1, <1>2, <1>3, <1>4, <1>7, <2>1, <2>2, <2>4, <3>1, ImagesStay
  <2>5. QED  BY <1>11, <2>3, <2>4 DEF Dockerfile
<1>12. CASE Push(w)
  <2>1. faults' \in 0 .. MaxFaults /\ UNCHANGED <<images, reported, left, unnamed>>
    BY <1>12, <1>4 DEF Push
  <2>2. PICK ok \in BOOLEAN :
          ReturnRemoving(w, ok) /\ (ok => Pushed(w) /\ Local(w) # Nothing)
    BY <1>12 DEF Push
  <2>3. build' = [build EXCEPT ![w] = After(w, "remove", ok)]
    BY <2>2 DEF ReturnRemoving, After
  <2>4. UNCHANGED registry \/ (Pushed(w) /\ Local(w) # Nothing)  BY <1>12 DEF Push
  <2>5. Local(w) \in Requests \cup {Nothing}
        /\ (Local(w) # Nothing => Reference(Local(w)) = TagOf(w))
    BY <1>2, <1>3 DEF Local
  <2>6. /\ registry' \in [Tags -> Requests \cup {Nothing}]
        /\ \A t \in Tags : registry[t] # Nothing => registry'[t] # Nothing
        /\ \A t \in Tags : registry'[t] # Nothing => Reference(registry'[t]) = t
        /\ ok => registry'[TagOf(w)] # Nothing
    <3>1. CASE Pushed(w) /\ Local(w) # Nothing
      BY <1>2, <1>3, <2>5, <3>1 DEF Pushed
    <3>2. CASE UNCHANGED registry /\ ~(Pushed(w) /\ Local(w) # Nothing)
      BY <1>3, <2>2, <3>2
    <3>3. QED  BY <2>4, <3>1, <3>2
  <2>7. QED  BY <1>1, <1>7, <2>1, <2>3, <2>6, ImagesStay
<1>13. CASE RemoveImage(w)
  <2>1. reported' \subseteq Requests /\ \A r \in reported' : registry[Reference(r)] # Nothing
    <3>1. build[w].ok => registry[TagOf(w)] # Nothing
      BY <1>1, <1>13 DEF ImageInv, BuildsFit, RemoveImage
    <3>2. reported' \subseteq reported \cup {r \in {build[w].r} : build[w].ok}
      BY <1>13 DEF RemoveImage, Reported
    <3>3. QED  BY <1>2, <1>3, <1>6, <3>1, <3>2
  <2>2. \/ Names(w, Nothing) /\ UNCHANGED left
        \/ left' = left \cup {HostOf[w]} /\ UNCHANGED images
    BY <1>13 DEF RemoveImage
  <2>3. Return(w) /\ UNCHANGED <<registry, unnamed>>  BY <1>13 DEF RemoveImage
  <2>4. faults' \in 0 .. MaxFaults  BY <1>13, <1>4 DEF RemoveImage
  <2>5. QED  BY <1>1, <1>2, <1>5, <2>1, <2>2, <2>3, <2>4, Returns
<1>14. CASE Crash(w)
  BY <1>1, <1>2, <1>3, <1>4, <1>5, <1>6, <1>14, Returns DEF Crash
<1>15. QED  BY <1>8, <1>9, <1>10, <1>11, <1>12, <1>13, <1>14

-----------------------------------------------------------------------------
(* The theorems *)

\* The invariant holds throughout.
LEMMA ImageInvariant == ImageSpec => []ImageInv
<1>1. ImageInit => ImageInv  BY ImageInvInit
<1>2. ImageInv /\ [ImageNext]_vars => ImageInv'
  <2> SUFFICES ASSUME ImageInv, [ImageNext]_vars PROVE ImageInv'  OBVIOUS
  <2>1. CASE UNCHANGED vars
    BY <2>1 DEF vars, ImageInv, Typed, BuildsFit, ImagesFit, ImagesPending, Pending,
                SuccessIsInRegistry, ImageIsThereToPush, Running, TagOf, Local
  <2>2. CASE ImageNext  BY <2>2, StartKeeps, WorkerKeeps DEF ImageNext
  <2>3. QED  BY <2>1, <2>2
<1>3. QED  BY <1>1, <1>2, PTL DEF ImageSpec

\* A success has its image in the registry, for good.
THEOREM SuccessStaysInRegistry == ImageSpec => []SuccessIsInRegistry
<1>1. ImageInv => SuccessIsInRegistry  BY DEF ImageInv
<1>2. QED  BY <1>1, ImageInvariant, PTL

\* That image is the request's, or that of one with the same reference.
THEOREM ImageStaysOwn == ImageSpec => []ImageIsOwn
<1>1. ImageInv => ImageIsOwn
  <2> SUFFICES ASSUME ImageInv, NEW r \in reported
               PROVE  LET q == registry[Reference(r)] IN
                        /\ ShortSHA(q.commit) = ShortSHA(r.commit)
                        /\ ProjectName(q) = ProjectName(r)
                        /\ ServiceName(q) = ServiceName(r)
    BY DEF ImageIsOwn
  <2>1. r \in Requests /\ registry[Reference(r)] # Nothing
    BY DEF ImageInv, Typed, SuccessIsInRegistry
  <2>2. Reference(registry[Reference(r)]) = Reference(r)
    BY <2>1 DEF ImageInv, ImagesFit, Tags
  <2>3. QED  BY <2>2 DEF Reference
<1>2. QED  BY <1>1, ImageInvariant, PTL

\* Only a worker on the same docker host can take an image away before its push.
THEOREM ImageStaysForPush == ImageSpec => []ImageIsThereToPush
<1>1. ImageInv => ImageIsThereToPush  BY DEF ImageInv
<1>2. QED  BY <1>1, ImageInvariant, PTL

\* Where nothing failed and nothing crashed, a docker host keeps no tag when its
\* builds have ended.
THEOREM NoTagStays == ImageSpec => []NoTagIsLeft
<1>1. ImageInv => NoTagIsLeft
  BY DEF ImageInv, ImagesPending, Pending, Running, Idle, NoTagIsLeft
<1>2. QED  BY <1>1, ImageInvariant, PTL

\* An image that a build finds under its tag belongs to another build, which has
\* not removed it yet, unless something failed.
LEMMA FoundByOverlap ==
  ASSUME ImageInv, NEW w \in Workers, build[w] # Idle, ~Pending(w),
         Local(w) # Nothing, HostOf[w] \notin left
  PROVE  Overlap(HostOf[w])
<1>1. HostOf[w] \in Hosts \ left /\ TagOf(w) \in Tags  BY UnderWay DEF ImageInv
<1>2. images[HostOf[w]][TagOf(w)] # Nothing  BY DEF Local
<1>3. PICK v \in Workers : HostOf[v] = HostOf[w] /\ Pending(v) /\ TagOf(v) = TagOf(w)
  BY <1>1, <1>2 DEF ImageInv, ImagesPending
<1>4. v # w /\ build[v] # Idle  BY <1>3 DEF Pending, Running, Idle
<1>5. QED  BY <1>3, <1>4 DEF Overlap

\* Only overlapping builds of a tag on one host leave an image without a name there,
\* for any number of workers and hosts, until something fails.
THEOREM OverlapsAloneLeaveImages == ImageSpec => OnlyOverlapsLeaveImages
<1>1. ASSUME ImageInv, ImageNext, NEW h \in unnamed' \ unnamed
      PROVE  h \in left \/ Overlap(h)
  <2>1. unnamed' # unnamed  BY <1>1
  <2>2. PICK w \in Workers :
          (Running(w, "nixpacks") \/ Running(w, "dockerfile")) /\ Untagged(w)
    BY <1>1, <2>1 DEF ImageNext, Start, Prepare, Inspect, Nixpacks, Dockerfile, Push,
                      RemoveImage, Crash, Built
  <2>3. h = HostOf[w] /\ Local(w) # Nothing  BY <1>1, <2>2 DEF Untagged
  <2>4. build[w] # Idle /\ ~Pending(w)  BY <2>2 DEF Running, Pending, Idle
  <2>5. QED  BY <1>1, <2>3, <2>4, FoundByOverlap
<1>2. ImageInv /\ [ImageNext]_vars =>
        [\A h \in unnamed' \ unnamed : h \in left \/ Overlap(h)]_vars
  BY <1>1 DEF vars
<1>3. QED  BY <1>2, ImageInvariant, PTL DEF ImageSpec, OnlyOverlapsLeaveImages

-----------------------------------------------------------------------------
(* The names of images                                                        *)

\* Induction on the natural numbers: a set of them has a least one.
LEMMA LeastNumber ==
  ASSUME NEW T, T \subseteq Nat, T # {}
  PROVE  \E n \in T : \A m \in T : n <= m
<1> DEFINE R == OpToRel(<, Nat)
<1>1. IsWellFoundedOn(R, Nat)  BY NatLessThanWellFounded
<1>2. PICK n \in T : \A m \in T : <<m, n>> \notin R
  <2> HIDE DEF R
  <2>1. QED  BY <1>1, WFMin
<1>3. \A m \in T : ~(m < n)  BY <1>2 DEF OpToRel
<1>4. QED  BY <1>3

\* f is what the loop writes in its first k rounds.
Writes(f, value, k) ==
  /\ f = [n \in 0 .. k |-> f[n]]
  /\ f[0] = <<>> /\ \A n \in 1 .. k : f[n] = Written(f[n - 1], value[n])

\* The loop writes something in any number of rounds.
LEMMA RoundsExist ==
  ASSUME NEW value, NEW k \in Nat
  PROVE  \E f : Writes(f, value, k)
<1> DEFINE T == {n \in Nat : ~ \E f : Writes(f, value, n)}
<1>1. SUFFICES ASSUME T # {} PROVE FALSE  OBVIOUS
<1>2. PICK m \in T : \A n \in T : m <= n  BY <1>1, LeastNumber
<1>3. m # 0
  <2> DEFINE f == [n \in 0 .. 0 |-> <<>>]
  <2>1. Writes(f, value, 0)  BY DEF Writes
  <2>2. QED  BY <1>2, <2>1
<1>4. m - 1 \in Nat /\ m - 1 \notin T  BY <1>2, <1>3
<1>5. PICK f : Writes(f, value, m - 1)  BY <1>4
<1> DEFINE g == [n \in 0 .. m |-> IF n = m THEN Written(f[m - 1], value[m]) ELSE f[n]]
<1>6. Writes(g, value, m)
  <2>1. /\ g[m] = Written(f[m - 1], value[m])
        /\ \A n \in 0 .. m - 1 : g[n] = f[n]
    BY <1>2, <1>3
  <2>2. f[0] = <<>> /\ \A n \in 1 .. m - 1 : f[n] = Written(f[n - 1], value[n])
    BY <1>5 DEF Writes
  <2>3. g = [n \in 0 .. m |-> g[n]]  OBVIOUS
  <2>4. g[0] = <<>>  BY <1>2, <1>3, <2>1, <2>2
  <2>5. ASSUME NEW n \in 1 .. m  PROVE g[n] = Written(g[n - 1], value[n])
    <3>1. n - 1 \in 0 .. m - 1 /\ g[n - 1] = f[n - 1]  BY <1>2, <2>1, <2>5
    <3>2. CASE n = m  BY <2>1, <3>1, <3>2
    <3>3. CASE n # m  BY <1>2, <2>1, <2>2, <2>5, <3>1, <3>3
    <3>4. QED  BY <3>2, <3>3
  <2>6. QED  BY <2>3, <2>4, <2>5 DEF Writes
<1>7. QED  BY <1>2, <1>6

\* Rounds is that.
LEMMA RoundsWrite ==
  ASSUME NEW S, NEW value \in Seq(S)
  PROVE  /\ Rounds(value)[0] = <<>>
         /\ \A n \in 1 .. Len(value) :
              Rounds(value)[n] = Written(Rounds(value)[n - 1], value[n])
<1> DEFINE D(f) == f = [n \in 0 .. Len(value) |->
             IF n = 0 THEN <<>> ELSE Written(f[n - 1], value[n])]
<1>1. Len(value) \in Nat  OBVIOUS
<1>2. PICK g : Writes(g, value, Len(value))  BY <1>1, RoundsExist
<1>3. D(g)
  <2>1. \A n \in 0 .. Len(value) :
          g[n] = IF n = 0 THEN <<>> ELSE Written(g[n - 1], value[n])
    BY <1>1, <1>2 DEF Writes
  <2>2. g = [n \in 0 .. Len(value) |-> g[n]]  BY <1>2 DEF Writes
  <2>3. QED  BY <2>1, <2>2
<1>4. Rounds(value) = CHOOSE f : D(f)  BY DEF Rounds
<1>5. D(Rounds(value))
  <2> HIDE DEF D
  <2>1. QED  BY <1>3, <1>4
<1>6. QED  BY <1>1, <1>5

\* The text of a round: separators are one character, not the first, and never
\* next to each other.
Separated(t) ==
  /\ t \in Seq(Characters)
  /\ \A i \in 1 .. Len(t) :
       IsSeparator(t[i]) => t[i] = "-" /\ i > 1 /\ ~IsSeparator(t[i - 1])

LEMMA RoundSeparates ==
  ASSUME NEW t, Separated(t), NEW c \in Characters
  PROVE  Separated(Written(t, c))
<1>1. \A d \in Characters :
        /\ Append(t, d) \in Seq(Characters) /\ Len(Append(t, d)) = Len(t) + 1
        /\ Append(t, d)[Len(t) + 1] = d
        /\ \A i \in 1 .. Len(t) : Append(t, d)[i] = t[i]
  BY DEF Separated
<1>2. /\ Len(t) \in Nat /\ "-" \in Characters
      /\ t # <<>> => Len(t) > 0
  BY DEF Separated, Characters
<1>3. CASE ~IsSeparator(c)
  <2>1. Written(t, c) = Append(t, c)  BY <1>3 DEF Written
  <2>2. QED  BY <1>1, <1>2, <1>3, <2>1 DEF Separated
<1>4. CASE IsSeparator(c) /\ (t = <<>> \/ Last(t) = "-")
  BY <1>4 DEF Written
<1>5. CASE IsSeparator(c) /\ t # <<>> /\ Last(t) # "-"
  <2>1. Written(t, c) = Append(t, "-")  BY <1>5 DEF Written
  <2>2. ~IsSeparator(t[Len(t)]) /\ Len(t) > 0
    BY <1>2, <1>5 DEF Separated, Last
  <2>3. QED  BY <1>1, <1>2, <2>1, <2>2 DEF Separated
<1>6. QED  BY <1>3, <1>4, <1>5

\* So is what every round leaves.
LEMMA RoundsSeparate ==
  ASSUME NEW value \in Seq(Characters), NEW k \in 0 .. Len(value)
  PROVE  Separated(Rounds(value)[k])
<1> DEFINE T == {n \in 0 .. Len(value) : ~Separated(Rounds(value)[n])}
<1>1. SUFFICES ASSUME T # {} PROVE FALSE  OBVIOUS
<1>2. T \subseteq Nat  OBVIOUS
<1>3. PICK m \in T : \A n \in T : m <= n
  <2> HIDE DEF T
  <2>1. QED  BY <1>1, <1>2, LeastNumber
<1>4. m # 0
  <2>1. Rounds(value)[0] = <<>>  BY RoundsWrite
  <2>2. Separated(<<>>)  BY DEF Separated
  <2>3. QED  BY <1>3, <2>1, <2>2
<1>5. m \in 1 .. Len(value) /\ m - 1 \notin T  BY <1>3, <1>4
<1>6. Separated(Rounds(value)[m - 1])  BY <1>5
<1>7. Rounds(value)[m] = Written(Rounds(value)[m - 1], value[m]) /\ value[m] \in Characters
  BY <1>5, RoundsWrite
<1>8. QED  BY <1>3, <1>6, <1>7, RoundSeparates

\* Whatever the characters of a project or a service, docker takes the name that
\* sanitizeImageComponent makes of it, given that it takes the fallback.
THEOREM SanitizedIsValid ==
  ASSUME NEW value \in Seq(Characters), NEW fallback, ValidName(fallback)
  PROVE  ValidName(Sanitized(value, fallback))
<1> DEFINE text == Rounds(value)[Len(value)]
           trimmed == IF text # <<>> /\ Last(text) = "-" THEN Front(text) ELSE text
<1>1. Separated(text)  BY RoundsSeparate
<1> HIDE DEF text
<1>2. SUFFICES ASSUME trimmed # <<>>  PROVE ValidName(trimmed)
  BY DEF Sanitized, text
<1>3. text \in Seq(Characters) /\ Len(text) \in Nat /\ Len(text) > 0
  BY <1>1, <1>2 DEF Separated
<1>4. CASE Last(text) = "-"
  <2>1. trimmed = SubSeq(text, 1, Len(text) - 1)  BY <1>3, <1>4 DEF Front
  <2>2. /\ Len(trimmed) = Len(text) - 1 /\ DOMAIN trimmed = 1 .. Len(text) - 1
        /\ \A i \in 1 .. Len(text) - 1 : trimmed[i] = text[i]
    BY <1>3, <2>1
  <2>3. IsSeparator(text[Len(text)])  BY <1>4 DEF Last, IsSeparator
  <2>4. ~IsSeparator(text[Len(text) - 1])  BY <1>1, <1>3, <2>3 DEF Separated
  <2> HIDE DEF trimmed
  <2>5. QED  BY <1>1, <1>2, <1>3, <2>2, <2>4 DEF ValidName, Separated
<1>5. CASE Last(text) # "-"
  <2>1. trimmed = text /\ DOMAIN text = 1 .. Len(text)  BY <1>3, <1>5
  <2>2. ~IsSeparator(text[Len(text)])  BY <1>1, <1>3, <1>5 DEF Separated, Last
  <2>3. QED  BY <1>1, <1>3, <2>1, <2>2 DEF ValidName, Separated
<1>6. QED  BY <1>4, <1>5

\* Types, and the tag of every image is one docker takes.
THEOREM ImageTypeCorrect == ImageSpec => []ImageTypeOK
<1>1. \A r \in Requests : ValidName(ProjectName(r)) /\ ValidName(ServiceName(r))
  <2>1. ValidName(<<"b", "b">>) /\ ValidName(<<"a", "a">>)
    BY DEF ValidName, IsSeparator
  <2>2. QED  BY <2>1, SanitizedIsValid, ImageAssumption DEF ProjectName, ServiceName
<1>2. ImageInv => ImageTypeOK
  <2> SUFFICES ASSUME ImageInv, NEW w \in Workers, build[w] # Idle
               PROVE  ValidName(TagOf(w)[1]) /\ ValidName(TagOf(w)[2])
    BY DEF ImageInv, Typed, ImageTypeOK
  <2>1. build[w].r \in Requests  BY UnderWay DEF ImageInv
  <2>2. TagOf(w)[1] = ProjectName(build[w].r) /\ TagOf(w)[2] = ServiceName(build[w].r)
    BY DEF ImageInv, BuildsFit, Reference
  <2>3. QED  BY <1>1, <2>1, <2>2
<1>3. QED  BY <1>2, ImageInvariant, PTL

================================================================================
