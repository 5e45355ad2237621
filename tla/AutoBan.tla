------------------------------ MODULE AutoBan ------------------------------
(***************************************************************************)
(* How FRP_PV decides about a new connection: the plugin handler           *)
(* (internal/handlers/plugin.go), the sliding window of CheckAutoBan and   *)
(* the escalating ban of applyBan (internal/services/ban.go).  Handlers of *)
(* connections, manual bans, unbans and settings saves interleave at every *)
(* read of the settings, of the clock and at every lock.                   *)
(*                                                                         *)
(* Where a ban is stored is BanManager's subject: a failed UpsertBan       *)
(* leaves the map as it is here, and applyBan's error only goes to a log.  *)
(***************************************************************************)
EXTENDS Integers, Sequences, FiniteSets

CONSTANTS
    IPs,         \* client addresses
    Modules,     \* FRP services (proxy names)
    NoModule,    \* the empty proxy name of a manual ban
    Handlers,    \* request goroutines that may run at once
    Nil,         \* no address
    Policies,    \* AutoBan settings an administrator may save
    InitialBan,  \* ab.InitialBanMinutes and ab.MaxBanMinutes, which no save
    MaxBan,      \* changes here, in units of the clock
    MaxWait,     \* bound: how long a goroutine waits for bm.mu or the scheduler
    MaxTime,     \* bound: the clock stops here
    MaxStrikes,  \* bound: no connection or ban of an IP with more strikes
    MaxUnspent,  \* bound: no connection while more are counted but unspent
    MaxBlocked   \* bound: no connection once this many were blocked

Modes == {"plugin", "iptables"}

Policy == [enabled : BOOLEAN, foreignOnly : BOOLEAN, banUnknownCountry : BOOLEAN,
           banUnknownLocation : BOOLEAN, seconds : Nat \ {0}, count : Nat \ {0},
           perm : BOOLEAN, whiteIPs : SUBSET IPs, whiteModules : SUBSET Modules]

\* UpdateSettings and applyDefaults keep window, threshold and durations
\* positive and the longest ban no shorter than the first.
ASSUME AutoBanAssumption ==
    /\ NoModule \notin Modules /\ Nil \notin IPs
    /\ Policies \subseteq Policy
    /\ InitialBan \in Nat \ {0} /\ MaxBan \in Nat /\ InitialBan <= MaxBan
    /\ {MaxWait, MaxTime, MaxStrikes, MaxUnspent, MaxBlocked} \subseteq Nat

VARIABLES
    clock,    \* time.Now()
    mode,     \* cfg.FirewallMode
    policy,   \* cfg.AutoBan
    bans,     \* BanManager.bans
    windows,  \* BanManager.windows, the times of recent connections by IP
    blocked,  \* BanManager.blocked
    logged,   \* how many rejections the event log was given
    job,      \* where each goroutine is
    silent,   \* history: bans that no one was told of (iptables mode)
    unspent,  \* history: connections counted and not yet used for a ban
    since     \* history: what has held ever since a request came

histories == <<silent, unspent>>
vars == <<clock, mode, policy, bans, windows, blocked, logged, job, histories, since>>

\* When a goroutine that goes on now may read the clock next.
Soon == clock .. clock + MaxWait

\* A record with no strike stands for a missing map entry.
Record == [strikes : Nat, perm : BOOLEAN, until : Nat]
NoRecord == [strikes |-> 0, perm |-> FALSE, until |-> 0]
active(r, now) == r.perm \/ r.until > now

Labels == {"idle", "white", "banned", "locate", "judge", "window",
           "ban.white", "ban.stamp", "ban.lock", "count", "reject", "track"}

\* op tells a connection from a manual ban; sync whether frps waits for the
\* answer; ab is the settings CheckAutoBan works with, stamp its or applyBan's
\* reading of the clock, perm applyBan's reading of ab.PermanentBan.
Idle == [at |-> "idle", op |-> "none", sync |-> FALSE, ip |-> Nil, module |-> NoModule,
         ab |-> Nil, stamp |-> 0, perm |-> FALSE]
Job == [at : Labels, op : {"none", "conn", "ban"}, sync : BOOLEAN, ip : IPs \cup {Nil},
        module : Modules \cup {NoModule},
        ab : Policies \cup {Nil}, stamp : Nat, perm : BOOLEAN]

TypeOK ==
    /\ clock \in Nat /\ mode \in Modes /\ policy \in Policies
    /\ bans \in [IPs -> Record]
    /\ windows \in [IPs -> Seq(Nat)]
    /\ {blocked, logged, silent} \subseteq Nat
    /\ unspent \in [IPs -> Nat]
    /\ job \in [Handlers -> Job]
    /\ since \in [Handlers -> [exempt : BOOLEAN, banned : BOOLEAN]]

At(t, label) == job[t].at = label
Goto(t, label) == job' = [job EXCEPT ![t].at = label]
Finish(t) == job' = [job EXCEPT ![t] = Idle]

Whitelists(p, ip, module) == ip \in p.whiteIPs \/ module \in p.whiteModules

IsWhitelisted(t) == Whitelists(policy, job[t].ip, job[t].module)

Init ==
    /\ clock = 0
    /\ mode \in Modes /\ policy \in Policies
    /\ bans = [ip \in IPs |-> NoRecord]
    /\ windows = [ip \in IPs |-> <<>>]
    /\ blocked = 0 /\ logged = 0
    /\ job = [t \in Handlers |-> Idle]
    /\ silent = 0 /\ unspent = [ip \in IPs |-> 0]
    /\ since = [t \in Handlers |-> [exempt |-> FALSE, banned |-> FALSE]]

-----------------------------------------------------------------------------
(* Requests arrive                                                         *)

\* frps asks about a connection.  In iptables mode it has its answer at once
\* and another goroutine goes on.
NewUserConn(t, ip, module) ==
    /\ job[t] = Idle
    /\ bans[ip].strikes < MaxStrikes /\ unspent[ip] < MaxUnspent /\ blocked < MaxBlocked
    /\ job' = [job EXCEPT ![t] = [Idle EXCEPT !.at = "white", !.op = "conn",
                 !.sync = (mode = "plugin"), !.ip = ip, !.module = module]]
    /\ UNCHANGED <<clock, mode, policy, bans, windows, blocked, logged, histories>>

\* An administrator bans an IP.
ManualBan(t, ip) ==
    /\ job[t] = Idle
    /\ bans[ip].strikes < MaxStrikes
    /\ job' = [job EXCEPT ![t] = [Idle EXCEPT !.at = "ban.white", !.op = "ban", !.ip = ip]]
    /\ UNCHANGED <<clock, mode, policy, bans, windows, blocked, logged, histories>>

\* Unban's critical section; what follows it is in BanManager.
Unban(ip) ==
    /\ bans[ip].strikes > 0
    /\ bans' = [bans EXCEPT ![ip].perm = FALSE, ![ip].until = 0]
    /\ UNCHANGED <<clock, mode, policy, windows, blocked, logged, job, histories>>

SaveSettings(m, p) ==
    /\ mode' = m /\ policy' = p
    /\ UNCHANGED <<clock, bans, windows, blocked, logged, job, histories>>

-----------------------------------------------------------------------------
(* Handle and processAllowedEvent                                          *)

\* Bug: the ban of an IP is looked up before its whitelisting.
CheckBanFirst(t) ==
    /\ At(t, "white")
    /\ Goto(t, IF active(bans[job[t].ip], clock) THEN "banned"
               ELSE IF IsWhitelisted(t) THEN "track" ELSE "banned")
    /\ UNCHANGED <<clock, mode, policy, bans, windows, blocked, logged, histories>>

CheckWhitelist(t) ==
    /\ At(t, "white")
    /\ Goto(t, IF IsWhitelisted(t) THEN "track" ELSE "banned")
    /\ UNCHANGED <<clock, mode, policy, bans, windows, blocked, logged, histories>>

\* Bug: a permanent ban, which has no end, is no ban.
CheckTemporaryBan(t) ==
    /\ At(t, "banned")
    /\ IF bans[job[t].ip].until > clock
       THEN IF job[t].sync THEN Goto(t, "count") ELSE Finish(t)
       ELSE Goto(t, "locate")
    /\ UNCHANGED <<clock, mode, policy, bans, windows, blocked, logged, histories>>

\* IsBanned: the clock is read after the map, when the mutex is free again; the
\* ban may have ended then.
CheckBan(t) ==
    /\ At(t, "banned")
    /\ \E now \in Soon :
          IF active(bans[job[t].ip], now)
          THEN IF job[t].sync THEN Goto(t, "count") ELSE Finish(t)
          ELSE Goto(t, "locate")
    /\ UNCHANGED <<clock, mode, policy, bans, windows, blocked, logged, histories>>

-----------------------------------------------------------------------------
(* CheckAutoBan                                                            *)

\* Where an IP is from, as the geo cache and the offline providers have it.
Countries == {"home", "foreign", "unknown"}

\* ForeignOnly lets connections from home through, and those of unknown origin
\* unless the settings say otherwise.
Spared(ab, country, known) ==
    ab.foreignOnly /\ \/ country = "home"
                      \/ country = "unknown" /\ ~known /\ ~ab.banUnknownLocation
                      \/ country = "unknown" /\ known /\ ~ab.banUnknownCountry

\* The IP is looked up, with any answer, but a country is a location.  Then
\* CheckAutoBan reads the settings it goes by, once.
Locate(t, country, known) ==
    /\ At(t, "locate")
    /\ country # "unknown" => known
    /\ IF policy.enabled /\ ~Spared(policy, country, known)
       THEN job' = [job EXCEPT ![t].at = "judge", ![t].ab = policy]
       ELSE Goto(t, "track")
    /\ UNCHANGED <<clock, mode, policy, bans, windows, blocked, logged, histories>>

\* It reads the whitelist anew, and takes the time before it waits for bm.mu.
Judge(t) ==
    /\ At(t, "judge")
    /\ job' = IF IsWhitelisted(t)
              THEN [job EXCEPT ![t].at = "track", ![t].ab = Nil]
              ELSE [job EXCEPT ![t].at = "window", ![t].stamp = clock]
    /\ UNCHANGED <<clock, mode, policy, bans, windows, blocked, logged, histories>>

\* Bug: nothing is dropped.
Untrimmed(w, cutoff) == {w}

\* The loop that drops the times before the cutoff from the front of the list
\* and stops at the first that is not; there is one, the last.
Trimmed(w, cutoff) ==
    {SubSeq(w, s, Len(w)) :
        s \in {i \in 1 .. Len(w) : w[i] >= cutoff /\ \A j \in 1 .. i - 1 : w[j] < cutoff}}

\* The list after the connection of t was added to it.
Recent(t) ==
    Trimmed(Append(windows[job[t].ip], job[t].stamp), job[t].stamp - job[t].ab.seconds)

\* Bug: a list that is long enough is kept.
SlideKeeps(t) ==
    /\ At(t, "window")
    /\ \E w \in Recent(t) :
        /\ windows' = [windows EXCEPT ![job[t].ip] = w]
        /\ IF Len(w) < job[t].ab.count
           THEN /\ unspent' = [unspent EXCEPT ![job[t].ip] = @ + 1]
                /\ job' = [job EXCEPT ![t].at = "track", ![t].ab = Nil, ![t].stamp = 0]
           ELSE /\ unspent' = [unspent EXCEPT ![job[t].ip] = @ + 1 - Len(w)]
                /\ job' = [job EXCEPT ![t].at = "ban.white", ![t].ab = Nil, ![t].stamp = 0,
                             ![t].module = NoModule]
    /\ UNCHANGED <<clock, mode, policy, bans, blocked, logged, silent>>

\* Bug: a ban takes one connection more than the threshold.
SlideLate(t) ==
    /\ At(t, "window")
    /\ \E w \in Recent(t) :
        IF Len(w) <= job[t].ab.count
        THEN /\ windows' = [windows EXCEPT ![job[t].ip] = w]
             /\ unspent' = [unspent EXCEPT ![job[t].ip] = @ + 1]
             /\ job' = [job EXCEPT ![t].at = "track", ![t].ab = Nil, ![t].stamp = 0]
        ELSE /\ windows' = [windows EXCEPT ![job[t].ip] = <<>>]
             /\ unspent' = [unspent EXCEPT ![job[t].ip] = @ + 1 - Len(w)]
             /\ job' = [job EXCEPT ![t].at = "ban.white", ![t].ab = Nil, ![t].stamp = 0,
                          ![t].module = NoModule]
    /\ UNCHANGED <<clock, mode, policy, bans, blocked, logged, silent>>

\* The critical section: a list that is long enough is used up.
Slide(t) ==
    /\ At(t, "window")
    /\ \E w \in Recent(t) :
        IF Len(w) < job[t].ab.count
        THEN /\ windows' = [windows EXCEPT ![job[t].ip] = w]
             /\ unspent' = [unspent EXCEPT ![job[t].ip] = @ + 1]
             /\ job' = [job EXCEPT ![t].at = "track", ![t].ab = Nil, ![t].stamp = 0]
        ELSE /\ windows' = [windows EXCEPT ![job[t].ip] = <<>>]
             /\ unspent' = [unspent EXCEPT ![job[t].ip] = @ + 1 - Len(w)]
             /\ job' = [job EXCEPT ![t].at = "ban.white", ![t].ab = Nil, ![t].stamp = 0,
                          ![t].module = NoModule]
    /\ UNCHANGED <<clock, mode, policy, bans, blocked, logged, silent>>

-----------------------------------------------------------------------------
(* applyBan                                                                *)

\* The list of whitelisted services does not matter to a ban.  An error ends a
\* manual ban, but the connection that filled the window is rejected all the
\* same.
BanWhite(t) ==
    /\ At(t, "ban.white")
    /\ IF ~IsWhitelisted(t) THEN Goto(t, "ban.stamp")
       ELSE IF job[t].op = "conn" THEN Goto(t, "count") ELSE Finish(t)
    /\ UNCHANGED <<clock, mode, policy, bans, windows, blocked, logged, histories>>

BanStamp(t) ==
    /\ At(t, "ban.stamp")
    /\ job' = [job EXCEPT ![t].at = "ban.lock", ![t].stamp = clock, ![t].perm = policy.perm]
    /\ UNCHANGED <<clock, mode, policy, bans, windows, blocked, logged, histories>>

\* Bug: a ban that would be longer than the longest is as short as the first.
EscalationStartsOver(initial, maximum, strikes) ==
    LET minutes[i \in Nat] == IF i <= 1 THEN initial ELSE 2 * minutes[i - 1]
    IN IF minutes[strikes] > maximum THEN initial ELSE minutes[strikes]

\* Bug: the first strike doubles already.
EscalationIsEarly(initial, maximum, strikes) ==
    LET minutes[i \in Nat] == IF i = 0 THEN initial ELSE 2 * minutes[i - 1]
    IN IF minutes[strikes] > maximum THEN maximum ELSE minutes[strikes]

\* minutes[i] is the variable of the loop when i is its counter.
escalatingMinutes(initial, maximum, strikes) ==
    LET minutes[i \in Nat] ==
            IF i <= 1 THEN initial
            ELSE IF minutes[i - 1] >= maximum THEN minutes[i - 1]
            ELSE IF minutes[i - 1] > maximum \div 2 THEN maximum
            ELSE 2 * minutes[i - 1]
    IN IF minutes[strikes] > maximum THEN maximum ELSE minutes[strikes]

\* The critical section; whoever fills it last wins.
BanLock(t) ==
    /\ At(t, "ban.lock")
    /\ LET strikes == bans[job[t].ip].strikes + 1
           until == job[t].stamp + escalatingMinutes(InitialBan, MaxBan, strikes)
       IN bans' = [bans EXCEPT ![job[t].ip] =
             [strikes |-> strikes, perm |-> job[t].perm, until |-> IF job[t].perm THEN 0 ELSE until]]
    /\ IF job[t].op = "conn"
       THEN job' = [job EXCEPT ![t].at = "count", ![t].stamp = 0, ![t].perm = FALSE]
       ELSE Finish(t)
    /\ UNCHANGED <<clock, mode, policy, windows, blocked, logged, histories>>

-----------------------------------------------------------------------------
(* The end of a request                                                    *)

\* Bug: a request that another process handles is not counted.
CountAnswered(t) ==
    /\ At(t, "count")
    /\ IF job[t].sync
       THEN blocked' = blocked + 1 /\ Goto(t, "reject") /\ UNCHANGED silent
       ELSE Finish(t) /\ silent' = silent + 1 /\ UNCHANGED blocked
    /\ UNCHANGED <<clock, mode, policy, bans, windows, logged, unspent>>

\* IncrementBlocked.
Count(t) ==
    /\ At(t, "count")
    /\ blocked' = blocked + 1
    /\ IF job[t].sync
       THEN Goto(t, "reject") /\ UNCHANGED silent
       ELSE Finish(t) /\ silent' = silent + 1
    /\ UNCHANGED <<clock, mode, policy, bans, windows, logged, unspent>>

\* rejectIP: the event log, the broadcasts (module Hub) and the answer.
RejectIP(t) ==
    /\ At(t, "reject")
    /\ logged' = logged + 1
    /\ Finish(t)
    /\ UNCHANGED <<clock, mode, policy, bans, windows, blocked, histories>>

\* trackAllowed, from which module Tracker goes on, and the answer.
TrackAllowed(t) ==
    /\ At(t, "track")
    /\ Finish(t)
    /\ UNCHANGED <<clock, mode, policy, bans, windows, blocked, logged, histories>>

\* Time passes; nobody waits for bm.mu longer than MaxWait.
Tick ==
    /\ clock < MaxTime
    /\ \A t \in Handlers :
          job[t].at \in {"window", "ban.lock"} => clock < job[t].stamp + MaxWait
    /\ clock' = clock + 1
    /\ UNCHANGED <<mode, policy, bans, windows, blocked, logged, job, histories>>

-----------------------------------------------------------------------------
\* What has held of a request ever since it came: that its IP or service was
\* whitelisted; that its IP was banned, for longer than a goroutine waits, and
\* neither was whitelisted.
Watch ==
    since' = [t \in Handlers |->
        LET j == job'[t]
            old == IF job[t].op = "none" THEN [exempt |-> TRUE, banned |-> TRUE] ELSE since[t]
            white == Whitelists(policy', j.ip, j.module)
        IN IF j.op = "none" THEN [exempt |-> FALSE, banned |-> FALSE]
           ELSE [exempt |-> old.exempt /\ white,
                 banned |-> old.banned /\ ~white
                              /\ \A now \in Soon' : active(bans'[j.ip], now)]]

Handle(t) ==
    \/ \E ip \in IPs, module \in Modules : NewUserConn(t, ip, module)
    \/ \E ip \in IPs : ManualBan(t, ip)
    \/ CheckWhitelist(t) \/ CheckBan(t)
    \/ \E country \in Countries, known \in BOOLEAN : Locate(t, country, known)
    \/ Judge(t) \/ Slide(t)
    \/ BanWhite(t) \/ BanStamp(t) \/ BanLock(t)
    \/ Count(t) \/ RejectIP(t) \/ TrackAllowed(t)

Step ==
    \/ \E t \in Handlers : Handle(t)
    \/ \E ip \in IPs : Unban(ip)
    \/ \E m \in Modes, p \in Policies : SaveSettings(m, p)
    \/ Tick

Next == Step /\ Watch

Spec == Init /\ [][Next]_vars

-----------------------------------------------------------------------------
(* What the handler promises                                               *)

\* The connections a ban is for, when CheckAutoBan decides on it.
Verdict(t) == At(t, "window") /\ job'[t].at = "ban.white"

\* A ban is for no fewer connections than the threshold that its handler read,
\* all of them taken less than the window before the last, give or take how
\* long a goroutine waits for the mutex: time.Now() comes before the lock, so
\* the list need not be in order, and the loop only looks at its front.
BansAreEarned ==
    [][\A t \in Handlers : Verdict(t) =>
          \A w \in Recent(t) :
             /\ Len(w) >= job[t].ab.count
             /\ \A i \in 1 .. Len(w) : w[i] >= job[t].stamp - job[t].ab.seconds - MaxWait]_vars

\* No connection counts towards two bans, whoever else is inside CheckAutoBan:
\* the list never holds more than was counted and not yet used.
CountsSpentOnce == \A ip \in IPs : Len(windows[ip]) <= unspent[ip]

\* The list of an IP stays shorter than the largest threshold in use, however
\* often the IP connects and the settings change.
WindowsAreBounded ==
    \A ip \in IPs : \E p \in Policies : Len(windows[ip]) < p.count

\* README.md:187: whoever is whitelisted, as an IP or through a service, from
\* the start of a request on is neither counted, banned nor rejected, whatever
\* bans and saves come in between.
ExemptPasses ==
    \A t \in Handlers : since[t].exempt => job[t].at \in {"white", "track", "ban.white"}

\* A connection of an IP that is banned, and not whitelisted, from the start of
\* its request on is not let through and does not count towards another ban,
\* unless the ban comes to an end within MaxWait: one that is renewed between
\* IsBanned's readings of the map and of the clock does not show there.
BannedStaysOut ==
    \A t \in Handlers : job[t].op = "conn" /\ since[t].banned =>
        job[t].at \in {"white", "banned", "count", "reject"}

\* Of concurrent bans of one IP the last may be based on an older reading of
\* the clock; still it never shortens a temporary ban by more than the wait for
\* the mutex, as every strike bans for at least as long as the one before.
NoShorterBan ==
    [][\A ip \in IPs :
          bans'[ip].strikes > bans[ip].strikes /\ ~bans'[ip].perm /\ ~bans[ip].perm =>
             bans'[ip].until >= bans[ip].until - MaxWait]_vars

\* Every rejection is counted once and logged once, also the one of a
\* connection that filled the window of an IP that could not be banned; the
\* counter runs ahead by the answers in progress and by the bans of iptables
\* mode, of which the event log has nothing.
RejectionsAddUp ==
    blocked = logged + silent + Cardinality({t \in Handlers : At(t, "reject")})

=============================================================================
