------------------------------- MODULE Globe -------------------------------
(***************************************************************************)
(* What the globe shows of the connections (components/Globe/              *)
(* CesiumGlobe.tsx): records are grouped by place and clustered, arcs are  *)
(* thinned out, the entities of the scene are brought up to date one by    *)
(* one, and labels that would overlap on the screen are hidden a moment    *)
(* later.                                                                  *)
(*                                                                         *)
(* The surface is a line: a place is an integer, a distance the difference *)
(* of two places.  Places are those that coordKey tells apart.             *)
(***************************************************************************)
EXTENDS Integers, Sequences, FiniteSets, SequencesExt, FiniteSetsExt

CONSTANTS
    Records,     \* what the backend may send: [ip, at, parts, foreign]
    MaxRecords,
    Suspects,    \* IPs that may be banned
    Addresses,   \* remote addresses, the keys of activeConnections
    IpOfAddress,
    Servers,     \* places the configuration may give
    Options,     \* settings of the toolbar: [cluster, dedup, minArc, highlight, fields]
    NormAdmin,   \* a part of an address without its administrative suffix
    Cameras,
    Zoom,        \* pixels per unit of distance
    Faces,       \* the places on this side of the earth
    InView,      \* those whose label is on the screen too
    LabelWidth,  \* pixels of a label and its margin
    LabelLimit

ASSUME GlobeAssumption ==
    /\ \A r \in Records : r.at \in Int /\ r.foreign \in BOOLEAN
    /\ \A o \in Options : o.cluster \in Int /\ o.highlight \in BOOLEAN
    /\ \A c \in Cameras : InView[c] \subseteq Faces[c]
    /\ LabelLimit \in Nat

VARIABLES
    records, active, banned,     \* the store: allIpData, activeConnections, activeBannedIps
    options, server,
    dirty,      \* the scene effect is to run
    groups,     \* groupsRef
    points,     \* pt_ entities: place -> [state, label, priority]
    order,      \* the same in the order in which they were added
    lines,      \* arc_ entities: place -> state
    glows, crosses,  \* the places with an arc_.._glow, with arcx_ entities
    camera,
    timer,      \* the 60 ms timer of the declutter runs
    visible     \* pt_ entities whose label is shown

input == <<records, active, banned, options, server>>
scene == <<groups, points, order, lines, glows, crosses>>
labels == <<camera, timer, visible>>
vars == <<input, dirty, scene, labels>>

Abs(x) == IF x < 0 THEN -x ELSE x
Distance(x, y) == Abs(x - y)

-----------------------------------------------------------------------------
(* Groups                                                                  *)

ActiveIps == {IpOfAddress[a] : a \in active}

\* formatDesc: the chosen parts, one of those that say the same.
Desc(loc, fields) ==
    FoldLeft(LAMBDA kept, i :
                 IF /\ i \in fields /\ loc.parts[i] # ""
                    /\ \A k \in DOMAIN kept : NormAdmin[kept[k]] # NormAdmin[loc.parts[i]]
                 THEN Append(kept, loc.parts[i]) ELSE kept,
             <<>>, [i \in 1 .. Len(loc.parts) |-> i])

Single(loc, bans, ips, opts) ==
    [at |-> loc.at, locs |-> <<loc>>,
     banned |-> loc.ip \in bans, active |-> loc.ip \in ips,
     foreign |-> opts.highlight /\ loc.foreign,
     desc |-> Desc(loc, opts.fields)]

Merge(g, h) ==
    [g EXCEPT !.locs = @ \o h.locs,
              !.banned = @ \/ h.banned, !.active = @ \/ h.active, !.foreign = @ \/ h.foreign,
              !.desc = IF Len(h.desc) > Len(@) THEN h.desc ELSE @]

\* A group joins the first one nearer than the radius, or stands alone.
Absorb(gs, h, radius) ==
    LET near == {i \in DOMAIN gs : Distance(gs[i].at, h.at) < radius}
    IN IF near = {} THEN Append(gs, h) ELSE [gs EXCEPT ![Min(near)] = Merge(@, h)]

Status(g) == IF g.banned THEN "blocked" ELSE IF g.active THEN "active" ELSE "historical"
Rank(status) == IF status = "blocked" THEN 3 ELSE IF status = "active" THEN 2 ELSE 1
GroupPriority(g) == Rank(Status(g))

Gather(gs, radius) == FoldLeft(LAMBDA kept, g : Absorb(kept, g, radius), <<>>, gs)

\* What of a list is in a set, in the order of the list.
Only(s, S) == FoldLeft(LAMBDA kept, x : IF x \in S THEN Append(kept, x) ELSE kept, <<>>, s)

\* Bug: sorted by the order of arrival.
Unsorted(gs) == gs

\* A stable sort, the highest priority first.
ByPriority(gs) ==
    LET ranked(r) == Only(gs, {g \in Range(gs) : GroupPriority(g) = r})
    IN ranked(3) \o ranked(2) \o ranked(1)

PlacesOf(recs, bans, ips, opts) ==
    Gather([i \in DOMAIN recs |-> Single(recs[i], bans, ips, opts)], 1)

GroupsOf(recs, bans, ips, opts) ==
    LET places == PlacesOf(recs, bans, ips, opts)
    IN IF opts.cluster > 0 THEN Gather(ByPriority(places), opts.cluster) ELSE places

Clustered == GroupsOf(records, banned, ActiveIps, options)

-----------------------------------------------------------------------------
(* Arcs                                                                    *)

\* One representative in an area: the first, unless a more important one
\* comes, whose arc then stands for the area around the first.
Represent(cs, g, radius) ==
    LET near == {i \in DOMAIN cs : Distance(cs[i].at, g.at) < radius}
        candidate == [at |-> g.at, key |-> g.at, priority |-> GroupPriority(g)]
    IN IF near = {} THEN Append(cs, candidate)
       ELSE IF candidate.priority > cs[Min(near)].priority
            THEN [cs EXCEPT ![Min(near)] = [candidate EXCEPT !.at = cs[Min(near)].at]]
            ELSE cs

Representatives(gs, radius) ==
    LET cs == FoldLeft(LAMBDA kept, g : Represent(kept, g, radius), <<>>, ByPriority(gs))
    IN {cs[i].key : i \in DOMAIN cs}

\* Not for a source too near to the server.
ShouldDrawArc(gs) ==
    {k \in Representatives(gs, options.dedup) : Distance(k, server) >= options.minArc}

-----------------------------------------------------------------------------
(* The entities a group asks for                                           *)

Keys(gs) == {gs[i].at : i \in DOMAIN gs}
GroupAt(gs, k) == gs[CHOOSE i \in DOMAIN gs : gs[i].at = k]

StateOf(g) == [status |-> Status(g), foreign |-> g.foreign]
LabelOf(g) ==
    [text |-> IF g.desc # <<>> THEN g.desc ELSE <<g.locs[1].ip>>, count |-> Len(g.locs)]
PointOf(g) == [state |-> StateOf(g), label |-> LabelOf(g), priority |-> GroupPriority(g)]

NeedsGlow(state) == state.status = "active"
NeedsCrosses(state) == state.status = "blocked"

\* Bug: the label is not part of what an existing point is compared by.
KeptByState(k, p) == k \in DOMAIN points /\ points[k].state = p.state

\* An existing point stays when its state and its label are those wanted.
KeptPoint(k, p) == k \in DOMAIN points /\ points[k].state = p.state /\ points[k].label = p.label

\* An existing arc stays when its state is, and its glow is there if needed.
KeptArc(k, state) ==
    /\ k \in DOMAIN lines /\ lines[k] = state
    /\ NeedsGlow(state) => k \in glows

-----------------------------------------------------------------------------
(* The scene effect                                                        *)

\* Bug: points that no group asks for stay.
RenderPointsKeepingAll(gs) ==
    /\ points' = [k \in Keys(gs) \cup DOMAIN points |->
                    IF k \notin Keys(gs) THEN points[k]
                    ELSE LET p == PointOf(GroupAt(gs, k)) IN IF KeptPoint(k, p) THEN points[k] ELSE p]
    /\ order' = order \o Only([i \in DOMAIN gs |-> gs[i].at], Keys(gs) \ DOMAIN points)
    /\ visible' = visible

\* A point that is built again moves to the end and hides its label.
RenderPoints(gs) ==
    LET wanted == [k \in Keys(gs) |-> PointOf(GroupAt(gs, k))]
        kept == {k \in Keys(gs) : KeptPoint(k, wanted[k])}
    IN /\ points' = [k \in Keys(gs) |-> IF k \in kept THEN points[k] ELSE wanted[k]]
       /\ order' = Only(order, kept) \o Only([i \in DOMAIN gs |-> gs[i].at], Keys(gs) \ kept)
       /\ visible' = visible \cap kept

\* An arc that does not stay is removed with all that belongs to it and
\* built again; at the end what nobody wants is removed.
RenderArcs(gs) ==
    LET drawn == ShouldDrawArc(gs)
        wanted == [k \in drawn |-> StateOf(GroupAt(gs, k))]
        kept == {k \in drawn : KeptArc(k, wanted[k])}
        built == drawn \ kept
    IN /\ lines' = [k \in drawn |-> IF k \in kept THEN lines[k] ELSE wanted[k]]
       /\ glows' = (glows \cap {k \in kept : NeedsGlow(wanted[k])})
                     \cup {k \in built : NeedsGlow(wanted[k])}
       /\ crosses' = (crosses \cap {k \in kept : NeedsCrosses(wanted[k])})
                     \cup {k \in built : NeedsCrosses(wanted[k])}

Render ==
    /\ dirty
    /\ groups' = Clustered
    /\ RenderPoints(Clustered)
    /\ RenderArcs(Clustered)
    /\ timer' = TRUE
    /\ dirty' = FALSE
    /\ UNCHANGED <<input, camera>>

-----------------------------------------------------------------------------
(* Labels                                                                  *)

InOrder == [i \in DOMAIN order |-> [at |-> order[i], priority |-> points[order[i]].priority]]

\* Bug: labels take their turn as their points were added.
CandidatesInOrder == InOrder

Candidates ==
    LET ranked(r) == Only(InOrder, {p \in Range(InOrder) : p.priority = r})
    IN ranked(3) \o ranked(2) \o ranked(1)

\* boxesOverlap, with the gap between two labels in LabelWidth.
Overlap(c, x, y) == Distance(x, y) * Zoom[c] <= LabelWidth

\* The server's label takes its room even beside the screen.
Blocked(c, shown, x) ==
    \/ server \in Faces[c] /\ Overlap(c, server, x)
    \/ \E y \in shown : Overlap(c, x, y)

\* Every label in turn, the highest priority first, if there is room for it.
declutterPointLabels ==
    FoldLeft(LAMBDA shown, p :
                 IF /\ Cardinality(shown) < LabelLimit /\ p.at \in InView[camera]
                    /\ ~Blocked(camera, shown, p.at)
                 THEN shown \cup {p.at} ELSE shown,
             {}, Candidates)

Declutter ==
    /\ timer
    /\ timer' = FALSE
    /\ visible' = declutterPointLabels
    /\ UNCHANGED <<input, dirty, scene, camera>>

\* Bug: the camera moves on without a new run.
MoveCameraOnly(c) ==
    /\ c # camera
    /\ camera' = c
    /\ UNCHANGED <<input, dirty, scene, timer, visible>>

\* camera.changed starts the timer unless it runs.
MoveCamera(c) ==
    /\ c # camera
    /\ camera' = c /\ timer' = TRUE
    /\ UNCHANGED <<input, dirty, scene, visible>>

-----------------------------------------------------------------------------
(* The store, the toolbar and the configuration: each change is rendered,  *)
(* and the effect run, before the next.                                    *)

SetInit(list) ==
    /\ ~dirty /\ records' = list /\ dirty' = TRUE
    /\ UNCHANGED <<active, banned, options, server, scene, labels>>

AddNewIp(rec) ==
    /\ ~dirty /\ Len(records) < MaxRecords
    /\ records' = Append(records, rec) /\ dirty' = TRUE
    /\ UNCHANGED <<active, banned, options, server, scene, labels>>

\* openConnection and closeConnection.
SetActive(as) ==
    /\ ~dirty /\ active' = as /\ dirty' = TRUE
    /\ UNCHANGED <<records, banned, options, server, scene, labels>>

\* addBlockedEvent and unbanIp.
SetBanned(ips) ==
    /\ ~dirty /\ banned' = ips /\ dirty' = TRUE
    /\ UNCHANGED <<records, active, options, server, scene, labels>>

SetOptions(o) ==
    /\ ~dirty /\ options' = o /\ dirty' = TRUE
    /\ UNCHANGED <<records, active, banned, server, scene, labels>>

\* Another position of the server: the Viewer is built again, with the
\* marker of the server only, and the timers go.  Where the new camera looks
\* is left to MoveCamera.
MoveServer(s) ==
    /\ ~dirty /\ s # server /\ server' = s /\ dirty' = TRUE
    /\ points' = <<>> /\ order' = <<>> /\ lines' = <<>> /\ glows' = {} /\ crosses' = {}
    /\ visible' = {} /\ timer' = FALSE
    /\ UNCHANGED <<records, active, banned, options, groups, camera>>

Init ==
    /\ records = <<>> /\ active = {} /\ banned = {}
    /\ options \in Options /\ server \in Servers
    /\ dirty = TRUE
    /\ groups = <<>> /\ points = <<>> /\ order = <<>>
    /\ lines = <<>> /\ glows = {} /\ crosses = {}
    /\ camera \in Cameras /\ timer = FALSE /\ visible = {}

StoreChanges ==
    \/ \E rec \in Records \ Range(records) : SetInit(<<rec>>) \/ AddNewIp(rec)
    \/ \E a \in Addresses : SetActive(active \cup {a}) \/ SetActive(active \ {a})
    \/ \E ip \in Suspects : SetBanned(banned \cup {ip}) \/ SetBanned(banned \ {ip})

Next ==
    \/ StoreChanges
    \/ \E o \in Options : SetOptions(o)
    \/ \E s \in Servers : MoveServer(s)
    \/ \E c \in Cameras : MoveCamera(c)
    \/ Render \/ Declutter

Spec == Init /\ [][Next]_vars

-----------------------------------------------------------------------------
(* What the globe promises                                                 *)

\* CesiumGlobe.tsx:637-820: entities are brought up to date one by one, and
\* the result is what a new globe would show: no point, arc, glow or cross is
\* left of an earlier state, none is missing and no label is out of date.
SceneIsFresh ==
    ~dirty =>
        LET drawn == ShouldDrawArc(Clustered)
            state == [k \in drawn |-> StateOf(GroupAt(Clustered, k))]
        IN /\ points = [k \in Keys(Clustered) |-> PointOf(GroupAt(Clustered, k))]
           /\ lines = state
           /\ glows = {k \in drawn : NeedsGlow(state[k])}
           /\ crosses = {k \in drawn : NeedsCrosses(state[k])}

\* A click on any point finds the IPs of its group, between a change of the
\* store and its effect too (line 246).
ClickFindsGroup == DOMAIN points \subseteq Keys(groups)

\* Lines 552-583: clusters divide the records among them, are as far apart as
\* the setting says, and a place gives way only to one at least as important.
ClustersApart ==
    LET gs == Clustered
        places == PlacesOf(records, banned, ActiveIps, options)
    IN /\ \A i, j \in DOMAIN gs : i # j => Distance(gs[i].at, gs[j].at) >= options.cluster
       /\ \A loc \in Range(records) :
              \E i \in DOMAIN gs :
                 /\ loc \in Range(gs[i].locs)
                 /\ \A j \in DOMAIN gs : loc \in Range(gs[j].locs) => i = j
                 /\ \A k \in DOMAIN places :
                       places[k].at = gs[i].at =>
                           GroupPriority(places[k])
                               >= GroupPriority(Single(loc, banned, ActiveIps, options))

\* Line 779: labels that are shown overlap neither one another nor the
\* server's, once the timer has fired.
LabelsApart ==
    ~timer /\ ~dirty =>
        \A x \in visible :
            /\ x \in InView[camera]
            /\ server \in Faces[camera] => ~Overlap(camera, server, x)
            /\ \A y \in visible : x = y \/ ~Overlap(camera, x, y)

\* Line 1246: a label in view is hidden for the sake of the server's or of
\* one that is at least as important, or because there are enough of these.
HiddenForAReason ==
    ~timer /\ ~dirty =>
        \A x \in (DOMAIN points \cap InView[camera]) \ visible :
            LET better == {y \in visible : points[y].priority >= points[x].priority}
            IN Blocked(camera, better, x) \/ Cardinality(better) = LabelLimit

-----------------------------------------------------------------------------
(* What comments say and the code does not do                              *)

\* Lines 585 and 628: within the distance the most important group keeps its
\* arc, and a group near the server has none.  So a group that is not near
\* the server should have an arc, or one within the distance should.
EveryAreaHasAnArc ==
    LET gs == Clustered
    IN \A i \in DOMAIN gs :
          Distance(gs[i].at, server) >= options.minArc =>
              \E k \in ShouldDrawArc(gs) : Distance(gs[i].at, k) < options.dedup

=============================================================================
