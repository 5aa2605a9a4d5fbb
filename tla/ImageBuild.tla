------------------------------ MODULE ImageBuild ------------------------------
(***************************************************************************)
(* BuildAndPush (builder.go): the workers of several processes run git,     *)
(* nixpacks and docker commands, one after the other, against a registry    *)
(* that all of them share and docker hosts that some of them share.         *)
(*                                                                         *)
(* External: git, nixpacks, docker and the registry.  A command succeeds,   *)
(* fails, or is cut off by the deadline of the build; a push may have taken *)
(* effect although it fails.                                                *)
(***************************************************************************)
EXTENDS Naturals, Sequences, SequencesExt

CONSTANTS
  Workers,    \* one per process
  HostOf,     \* the docker host of each worker
  Requests,   \* build requests: [project, service: names, commit: digits]
  ShaLength,  \* the digits of a commit that a tag has: 12
  Nothing,    \* no image
  MaxFaults   \* bound on failures other than those of the build itself

\* A name is a sequence of characters: letters and digits "a" and "b", the
\* separator "-", which stands for the three that are kept, and "#" for the rest.
Characters == {"a", "b", "-", "#"}

ASSUME ImageAssumption ==
  /\ Nothing \notin Requests
  /\ \A r \in Requests : r.project \in Seq(Characters) /\ r.service \in Seq(Characters)
  /\ \A r \in Requests : r.commit \in Seq(Nat) \ {<<>>}
  /\ ShaLength \in Nat \ {0} /\ MaxFaults \in Nat

-----------------------------------------------------------------------------
(* The name of an image *)

IsSeparator(c) == c \notin {"a", "b"}

\* One round of the loop: a separator is written once and never first.
Written(text, c) ==
  IF ~IsSeparator(c) THEN Append(text, c)
  ELSE IF text = <<>> \/ Last(text) = "-" THEN text
  ELSE Append(text, "-")

\* What has been written after each round.
Rounds(value) ==
  LET text[n \in 0 .. Len(value)] ==
        IF n = 0 THEN <<>> ELSE Written(text[n - 1], value[n])
  IN  text

\* Variant: without strings.Trim.
SanitizedUntrimmed(value, fallback) ==
  LET text == Rounds(value)[Len(value)] IN IF text = <<>> THEN fallback ELSE text

\* sanitizeImageComponent
Sanitized(value, fallback) ==
  LET text    == Rounds(value)[Len(value)]
      trimmed == IF text # <<>> /\ Last(text) = "-" THEN Front(text) ELSE text
  IN  IF trimmed = <<>> THEN fallback ELSE trimmed

\* The fallbacks stand for "project" and "service".
ProjectName(r) == Sanitized(r.project, <<"b", "b">>)
ServiceName(r) == Sanitized(r.service, <<"a", "a">>)

\* Variant: without the commit.
ReferenceWithoutCommit(r) == <<ProjectName(r), ServiceName(r)>>

\* shortCommitSHA
ShortSHA(commit) ==
  IF Len(commit) > ShaLength THEN SubSeq(commit, 1, ShaLength) ELSE commit

\* buildImageReference
Reference(r) == <<ProjectName(r), ServiceName(r), ShortSHA(r.commit)>>

Tags  == {Reference(r) : r \in Requests}
Hosts == {HostOf[w] : w \in Workers}

VARIABLES
  registry,  \* the request from whose source the image of each tag was built
  images,    \* the same for the image that each tag names on each docker host
  build,     \* the build that each worker has under way
  reported,  \* requests for which BuildAndPush has returned without an error
  left,      \* a docker image rm has failed or never run: the hosts
  unnamed,   \* hosts with an image that has lost its tag to a later build of it
  faults     \* the number of failures so far

vars == <<registry, images, build, reported, left, unnamed, faults>>

Idle  == [pc |-> "idle"]
Steps == {"prepare", "inspect", "nixpacks", "dockerfile", "push", "remove"}
Build == {Idle} \cup [pc: Steps, r: Requests, tag: Tags, ok: BOOLEAN]

ImageInit ==
  /\ registry = [t \in Tags |-> Nothing]
  /\ images = [h \in Hosts |-> [t \in Tags |-> Nothing]]
  /\ build = [w \in Workers |-> Idle]
  /\ reported = {}
  /\ left = {}
  /\ unnamed = {}
  /\ faults = 0

-----------------------------------------------------------------------------
Fault == faults < MaxFaults /\ faults' = faults + 1

Running(w, step) == build[w].pc = step
TagOf(w)  == build[w].tag
Local(w)  == images[HostOf[w]][TagOf(w)]
Goes(w, step) == build' = [build EXCEPT ![w] = [build[w] EXCEPT !.pc = step]]

\* BuildAndPush returns.
Return(w) == build' = [build EXCEPT ![w] = Idle]

\* It returns by way of the deferred docker image rm.
ReturnRemoving(w, ok) ==
  build' = [build EXCEPT ![w] =
              [pc |-> "remove", r |-> build[w].r, tag |-> TagOf(w), ok |-> ok]]

\* The worker's tag names an image on its host, or no longer names any.
Names(w, image) ==
  images' = [images EXCEPT ![HostOf[w]] = [images[HostOf[w]] EXCEPT ![TagOf(w)] = image]]

Start(w) ==
  /\ build[w] = Idle
  /\ \E r \in Requests : build' = [build EXCEPT ![w] =
       [pc |-> "prepare", r |-> r, tag |-> Reference(r), ok |-> FALSE]]
  /\ UNCHANGED <<registry, images, reported, left, unnamed, faults>>

\* git rev-parse, the reference and docker login: nothing is deferred yet.
Prepare(w) ==
  /\ Running(w, "prepare")
  /\ \/ Goes(w, "inspect") /\ UNCHANGED faults
     \/ Return(w) /\ Fault
  /\ UNCHANGED <<registry, images, reported, left, unnamed>>

\* docker manifest inspect; an error of any kind counts as "not there".
Inspect(w) ==
  /\ Running(w, "inspect")
  /\ \/ registry[TagOf(w)] # Nothing /\ ReturnRemoving(w, TRUE) /\ UNCHANGED faults
     \/ registry[TagOf(w)] = Nothing /\ Goes(w, "nixpacks") /\ UNCHANGED faults
     \/ Goes(w, "nixpacks") /\ Fault
  /\ UNCHANGED <<registry, images, reported, left, unnamed>>

\* Variant: docker image rm is not deferred but runs at once, before the push.
BuiltAndRemoved(w) == UNCHANGED <<images, unnamed>> /\ Goes(w, "push")

\* The image that had the tag before stays on the host without it, out of reach of
\* docker image rm; the same source may come to the same image again.
Untagged(w) ==
  \/ Local(w) # Nothing /\ unnamed' = unnamed \cup {HostOf[w]}
  \/ Local(w) \in {Nothing, build[w].r} /\ UNCHANGED unnamed

\* A successful build gives the tag to its image.
Built(w) ==
  /\ Names(w, build[w].r)
  /\ Untagged(w)
  /\ Goes(w, "push")

Nixpacks(w) ==
  /\ Running(w, "nixpacks")
  /\ \/ Built(w)
     \/ Goes(w, "dockerfile") /\ UNCHANGED <<images, unnamed>>
  /\ UNCHANGED <<registry, reported, left, faults>>

\* No Dockerfile, or docker build with it.
Dockerfile(w) ==
  /\ Running(w, "dockerfile")
  /\ \/ Built(w)
     \/ ReturnRemoving(w, FALSE) /\ UNCHANGED <<images, unnamed>>
  /\ UNCHANGED <<registry, reported, left, faults>>

Pushed(w) == registry' = [registry EXCEPT ![TagOf(w)] = Local(w)]

\* Variant: the error of the push is not returned.
PushIgnoringError(w) ==
  /\ Running(w, "push")
  /\ \/ Local(w) # Nothing /\ Pushed(w) /\ UNCHANGED faults
     \/ Local(w) = Nothing /\ UNCHANGED <<registry, faults>>
     \/ Fault /\ UNCHANGED registry
  /\ ReturnRemoving(w, TRUE)
  /\ UNCHANGED <<images, reported, left, unnamed>>

\* docker push: it needs the image, and may fail before or after it took effect.
Push(w) ==
  /\ Running(w, "push")
  /\ \/ /\ Local(w) # Nothing
        /\ Pushed(w)
        /\ \/ ReturnRemoving(w, TRUE) /\ UNCHANGED faults
           \/ ReturnRemoving(w, FALSE) /\ Fault
     \/ Local(w) = Nothing /\ ReturnRemoving(w, FALSE) /\ UNCHANGED <<registry, faults>>
     \/ ReturnRemoving(w, FALSE) /\ Fault /\ UNCHANGED registry
  /\ UNCHANGED <<images, reported, left, unnamed>>

\* BuildAndPush returns to the worker.
Reported(w) == reported' = IF build[w].ok THEN reported \cup {build[w].r} ELSE reported

\* Variant: the image is removed only after a push.
RemoveImageWhenPushed(w) ==
  /\ Running(w, "remove")
  /\ Names(w, IF build[w].ok THEN Nothing ELSE Local(w))
  /\ Reported(w) /\ Return(w)
  /\ UNCHANGED <<registry, left, unnamed, faults>>

\* docker image rm -f of the tag: it removes what the tag names then, whoever built
\* it.  Its error is only logged.
RemoveImage(w) ==
  /\ Running(w, "remove")
  /\ \/ /\ Names(w, Nothing)
        /\ UNCHANGED <<left, faults>>
     \/ /\ Fault /\ left' = left \cup {HostOf[w]}
        /\ UNCHANGED images
  /\ Reported(w) /\ Return(w)
  /\ UNCHANGED <<registry, unnamed>>

\* The process ends in the middle of a build: the deferred command does not run.
Crash(w) ==
  /\ build[w] # Idle
  /\ Fault /\ left' = left \cup {HostOf[w]}
  /\ Return(w)
  /\ UNCHANGED <<registry, images, reported, unnamed>>

ImageNext ==
  \E w \in Workers :
    \/ Start(w) \/ Prepare(w) \/ Inspect(w) \/ Nixpacks(w) \/ Dockerfile(w)
    \/ Push(w) \/ RemoveImage(w) \/ Crash(w)

ImageSpec == ImageInit /\ [][ImageNext]_vars

=============================================================================
