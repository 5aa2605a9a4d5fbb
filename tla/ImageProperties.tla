---------------------------- MODULE ImageProperties ----------------------------
(***************************************************************************)
(* What a build promises about the registry and the docker host, however    *)
(* many builds of the same image run at once and whatever they leave.       *)
(***************************************************************************)
EXTENDS ImageBuild

\* A component of a reference that docker takes: it is not empty, does not begin
\* or end with a separator, and has no two in a row (builder.go:256-292).
ValidName(n) ==
  /\ n # <<>>
  /\ \A i \in DOMAIN n : IsSeparator(n[i]) => i > 1 /\ i < Len(n) /\ ~IsSeparator(n[i - 1])

\* Every variable has its type, and the tag of every image is one docker takes.
ImageTypeOK ==
  /\ registry \in [Tags -> Requests \cup {Nothing}]
  /\ images \in [Hosts -> [Tags -> Requests \cup {Nothing}]]
  /\ build \in [Workers -> Build]
  /\ reported \subseteq Requests
  /\ left \subseteq Hosts /\ unnamed \subseteq Hosts
  /\ faults \in 0 .. MaxFaults
  /\ \A w \in Workers : build[w] # Idle => ValidName(TagOf(w)[1]) /\ ValidName(TagOf(w)[2])

\* A build that is reported as successful, be it by a push or because the image
\* was there, has its image in the registry from then on (builder.go:77-93).
SuccessIsInRegistry ==
  \A r \in reported : registry[Reference(r)] # Nothing

\* That image was built from the source of the request, or from that of a request
\* whose project and service sanitizeImageComponent makes the same and whose commit
\* begins in the same way (builder.go:217-232, 256-300): from no other, and never
\* because of another build that pushes at the same time.
ImageIsOwn ==
  \A r \in reported :
    LET q == registry[Reference(r)] IN
    /\ ShortSHA(q.commit) = ShortSHA(r.commit)
    /\ ProjectName(q) = ProjectName(r) /\ ServiceName(q) = ServiceName(r)

\* A worker that does not share its docker host always finds the image it has
\* built when it comes to push it: only the docker image rm of another worker
\* can come between (builder.go:71-90).
ImageIsThereToPush ==
  \A w \in Workers :
    Running(w, "push") /\ Local(w) = Nothing =>
      \E v \in Workers \ {w} : HostOf[v] = HostOf[w]

\* No tag stays behind on a docker host: the one it names belongs to a build under
\* way, on whatever path that build will end, unless a removal failed or a process
\* was killed (builder.go:71-75).  Images that have lost their tag are not spoken of.
NoTagIsLeft ==
  \A h \in Hosts \ left : \A t \in Tags : images[h][t] # Nothing =>
    \E w \in Workers : HostOf[w] = h /\ build[w] # Idle /\ TagOf(w) = t

\* Two builds of one tag are under way on a docker host.
Overlap(h) ==
  \E v, w \in Workers :
    /\ v # w /\ HostOf[v] = h /\ HostOf[w] = h
    /\ build[v] # Idle /\ build[w] # Idle /\ TagOf(v) = TagOf(w)

\* An image that docker image rm will never find comes about only when two builds
\* of one tag overlap on a docker host, each before its removal, or where a removal
\* failed or a process was killed before (builder.go:71-75, 81, 114-133).
OnlyOverlapsLeaveImages == [][\A h \in unnamed' \ unnamed : h \in left \/ Overlap(h)]_vars

=============================================================================
