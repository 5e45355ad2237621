----------------------------- MODULE BanManager -----------------------------
(***************************************************************************)
(* The ban manager of FRP_PV (internal/services/ban.go) with the three     *)
(* places a ban lives in: its own map, the SQLite table bans               *)
(* (internal/config/config.go) and the iptables chain FRP_PV               *)
(* (internal/services/iptables.go).  Request goroutines (manual and        *)
(* automatic bans, unbans, settings saves of internal/handlers/api.go),    *)
(* the expiry ticker and the start-up synchronisation interleave at every  *)
(* lock, SQL statement and iptables command; the process may stop between  *)
(* any two of them.                                                        *)
(*                                                                         *)
(* Time is abstract: a temporary ban lapses at an arbitrary moment.        *)
(***************************************************************************)
EXTENDS Integers, FiniteSets

CONSTANTS
    IPs,             \* client addresses
    Handlers,        \* request goroutines that may run at once
    Boot,            \* the goroutine of main() that builds the manager
    Nil,             \* Go's nil and absent JSON fields
    Policies,        \* AutoBan settings an administrator may save
    InitialPolicies, \* those a run may start from
    Requests,        \* kinds of requests that occur: "ban", "unban", "settings"
    MaxStrikes,      \* bound: no ban is requested of an IP with more strikes
    DbMayFail,       \* whether SQL statements may fail
    IptablesMayFail, \* whether iptables commands may fail (2 s timeout)
    MayStop          \* whether the process or the host may stop

Modes == {"plugin", "iptables"}
Threads == Handlers \cup {Boot}

ASSUME BanAssumption ==
    /\ Boot \notin Handlers
    /\ Nil \notin IPs /\ Nil \notin Modes /\ Nil \notin Policies
    /\ InitialPolicies \subseteq Policies
    /\ Policies \subseteq [white : SUBSET IPs, perm : BOOLEAN]
    /\ MaxStrikes \in Nat
    /\ {DbMayFail, IptablesMayFail, MayStop} \subseteq BOOLEAN

VARIABLES
    cfg,    \* config.Data: [mode, policy]; what Update commits is also on disk
    mem,    \* BanManager.bans
    db,     \* the table bans
    rules,  \* how many DROP rules of each IP the chain FRP_PV holds
    server, \* "down", "booting" (inside NewBanManager) or "up"
    job,    \* where each goroutine is
    tick    \* where expiryLoop is

vars == <<cfg, mem, db, rules, server, job, tick>>

\* A record with no strike stands for a missing map entry or row.  A cleared
\* ban and one that ran out are alike: BannedUntil is in the past.
Record == [strikes : Nat, ban : {"clear", "temp", "perm"}]
NoRecord == [strikes |-> 0, ban |-> "clear"]
Active(r) == r.ban # "clear"
Recorded(r) == r.strikes > 0

Labels == {"idle", "ban.policy", "ban.lock", "ban.mode", "block.check",
           "block.append", "unban.clear", "unban.unblock", "set.save",
           "set.route", "set.undo", "flush", "sync.mode", "sync.flush",
           "sync.list", "sync.next"}

\* On whose behalf a goroutine works: Block is called by applyBan and by
\* ReconcileFirewall, the latter by NewBanManager and twice by UpdateSettings.
Callers == {"none", "ban", "unban", "set", "undo", "boot"}

Idle == [at |-> "idle", op |-> "none", ip |-> Nil, todo |-> {}, perm |-> FALSE,
         old |-> "plugin", mode |-> Nil, policy |-> Nil]
Job == [at : Labels, op : Callers, ip : IPs \cup {Nil}, todo : SUBSET IPs,
        perm : BOOLEAN, old : Modes, mode : Modes \cup {Nil},
        policy : Policies \cup {Nil}]

TickIdle == [at |-> "wait", todo |-> {}]
Tick == [at : {"wait", "collect", "unblock"}, todo : SUBSET IPs]

TypeOK ==
    /\ cfg \in [mode : Modes, policy : Policies]
    /\ mem \in [IPs -> Record]
    /\ db \in [IPs -> Record]
    /\ rules \in [IPs -> Nat]
    /\ server \in {"down", "booting", "up"}
    /\ job \in [Threads -> Job]
    /\ tick \in Tick

IsWhitelisted(ip) == ip \in cfg.policy.white
NoRules == [ip \in IPs |-> 0]

Goto(t, label) == job' = [job EXCEPT ![t].at = label]
Finish(t) == job' = [job EXCEPT ![t] = Idle]
At(t, label) == job[t].at = label

Init ==
    /\ cfg \in [mode : Modes, policy : InitialPolicies]
    /\ mem = [ip \in IPs |-> NoRecord]
    /\ db = [ip \in IPs |-> NoRecord]
    /\ rules = NoRules
    /\ server = "down"
    /\ job = [t \in Threads |-> Idle]
    /\ tick = TickIdle

-----------------------------------------------------------------------------
(* Requests arrive.  A request for a kind the run leaves out never comes.  *)

Accept(t, kind) == server = "up" /\ job[t] = Idle /\ kind \in Requests

\* applyBan, up to its whitelist check; a whitelisted IP is an error return.
BanBegin(t, ip) ==
    /\ Accept(t, "ban")
    /\ mem[ip].strikes < MaxStrikes
    /\ ~IsWhitelisted(ip)
    /\ job' = [job EXCEPT ![t] = [Idle EXCEPT !.at = "ban.policy", !.op = "ban", !.ip = ip]]
    /\ UNCHANGED <<cfg, mem, db, rules, server, tick>>

\* Bug: Unban deletes the map entry instead of ending its ban.
UnbanForgets(t, ip) ==
    /\ Accept(t, "unban")
    /\ mem' = [mem EXCEPT ![ip] = NoRecord]
    /\ job' = [job EXCEPT ![t] = [Idle EXCEPT !.at = "unban.clear", !.op = "unban", !.ip = ip]]
    /\ UNCHANGED <<cfg, db, rules, server, tick>>

\* Unban's critical section.
UnbanBegin(t, ip) ==
    /\ Accept(t, "unban")
    /\ mem' = [mem EXCEPT ![ip].ban = "clear"]
    /\ job' = [job EXCEPT ![t] = [Idle EXCEPT !.at = "unban.clear", !.op = "unban", !.ip = ip]]
    /\ UNCHANGED <<cfg, db, rules, server, tick>>

\* UpdateSettings reads the mode before anything else; fields may be absent.
SettingsBegin(t, mode, policy) ==
    /\ Accept(t, "settings")
    /\ job' = [job EXCEPT ![t] = [Idle EXCEPT !.at = "set.save", !.op = "set",
                                    !.old = cfg.mode, !.mode = mode, !.policy = policy]]
    /\ UNCHANGED <<cfg, mem, db, rules, server, tick>>

-----------------------------------------------------------------------------
(* applyBan                                                                *)

BanPolicy(t) ==
    /\ At(t, "ban.policy")
    /\ job' = [job EXCEPT ![t].at = "ban.lock", ![t].perm = cfg.policy.perm]
    /\ UNCHANGED <<cfg, mem, db, rules, server, tick>>

\* Under bm.mu: the map, then the row.  A failed UpsertBan leaves the map.
BanLock(t) ==
    /\ At(t, "ban.lock")
    /\ LET ip == job[t].ip
           r == [strikes |-> mem[ip].strikes + 1,
                 ban |-> IF job[t].perm THEN "perm" ELSE "temp"]
       IN /\ mem' = [mem EXCEPT ![ip] = r]
          /\ \/ /\ db' = [db EXCEPT ![ip] = r]
                /\ job' = [job EXCEPT ![t].at = "ban.mode", ![t].perm = FALSE]
             \/ DbMayFail /\ UNCHANGED db /\ Finish(t)
    /\ UNCHANGED <<cfg, rules, server, tick>>

BanMode(t) ==
    /\ At(t, "ban.mode")
    /\ IF cfg.mode = "iptables" THEN Goto(t, "block.check") ELSE Finish(t)
    /\ UNCHANGED <<cfg, mem, db, rules, server, tick>>

-----------------------------------------------------------------------------
(* IPTables.  A command that times out may or may not have taken effect.   *)

\* ReconcileFirewall returned nil to its caller.
SyncOk(t) ==
    /\ Finish(t)
    /\ server' = IF job[t].op = "boot" THEN "up" ELSE server

\* It returned an error: NewBanManager fails and main exits, UpdateSettings
\* rolls back, and the rollback itself ignores errors.
SyncErr(t) ==
    /\ IF job[t].op = "set"
       THEN job' = [job EXCEPT ![t].at = "set.undo", ![t].ip = Nil, ![t].todo = {}]
       ELSE Finish(t)
    /\ server' = IF job[t].op = "boot" THEN "down" ELSE server

BlockOk(t) ==
    IF job[t].op = "ban"
    THEN Finish(t) /\ UNCHANGED server
    ELSE /\ job' = [job EXCEPT ![t].at = "sync.next", ![t].ip = Nil]
         /\ UNCHANGED server

BlockErr(t) ==
    IF job[t].op = "ban" THEN Finish(t) /\ UNCHANGED server ELSE SyncErr(t)

\* Bug: Block appends without asking -C first.
BlockUnchecked(t) ==
    /\ At(t, "block.check")
    /\ Goto(t, "block.append")
    /\ UNCHANGED <<cfg, mem, db, rules, server, tick>>

\* Ensure and -C.  A -C that fails for any reason counts as "no such rule".
BlockCheck(t) ==
    /\ At(t, "block.check")
    /\ \/ rules[job[t].ip] > 0 /\ BlockOk(t)
       \/ (rules[job[t].ip] = 0 \/ IptablesMayFail) /\ Goto(t, "block.append") /\ UNCHANGED server
       \/ IptablesMayFail /\ BlockErr(t)
    /\ UNCHANGED <<cfg, mem, db, rules, tick>>

BlockAppend(t) ==
    /\ At(t, "block.append")
    /\ LET appended == [rules EXCEPT ![job[t].ip] = @ + 1]
       IN \/ rules' = appended /\ BlockOk(t)
          \/ IptablesMayFail /\ rules' \in {rules, appended} /\ BlockErr(t)
    /\ UNCHANGED <<cfg, mem, db, tick>>

\* -D removes one matching rule; none is no error.
WithoutOne(ip) == [rules EXCEPT ![ip] = IF @ > 0 THEN @ - 1 ELSE 0]

-----------------------------------------------------------------------------
(* Unban, after its critical section                                       *)

\* Bug: ClearBan deletes the row.
UnbanDeletes(t) ==
    /\ At(t, "unban.clear")
    /\ \/ db' = [db EXCEPT ![job[t].ip] = NoRecord] /\ Goto(t, "unban.unblock")
       \/ DbMayFail /\ UNCHANGED db /\ Finish(t)
    /\ UNCHANGED <<cfg, mem, rules, server, tick>>

\* Bug: Unban never reaches the table.
UnbanUnsaved(t) ==
    /\ At(t, "unban.clear")
    /\ Goto(t, "unban.unblock")
    /\ UNCHANGED <<cfg, mem, db, rules, server, tick>>

\* ClearBan keeps the row; its failure ends the request early.
UnbanClear(t) ==
    /\ At(t, "unban.clear")
    /\ \/ db' = [db EXCEPT ![job[t].ip].ban = "clear"] /\ Goto(t, "unban.unblock")
       \/ DbMayFail /\ UNCHANGED db /\ Finish(t)
    /\ UNCHANGED <<cfg, mem, rules, server, tick>>

\* Unblock runs in both modes.
UnbanUnblock(t) ==
    /\ At(t, "unban.unblock")
    /\ \/ rules' = WithoutOne(job[t].ip)
       \/ IptablesMayFail /\ UNCHANGED rules
    /\ Finish(t)
    /\ UNCHANGED <<cfg, mem, db, server, tick>>

-----------------------------------------------------------------------------
(* ReconcileFirewall                                                       *)

SyncMode(t) ==
    /\ At(t, "sync.mode")
    /\ IF cfg.mode = "iptables"
       THEN Goto(t, "sync.flush") /\ UNCHANGED server
       ELSE SyncOk(t)
    /\ UNCHANGED <<cfg, mem, db, rules, tick>>

\* Bug: the synchronisation starts from the chain it finds.
SyncUnflushed(t) ==
    /\ At(t, "sync.flush")
    /\ Goto(t, "sync.list")
    /\ UNCHANGED <<cfg, mem, db, rules, server, tick>>

SyncFlush(t) ==
    /\ At(t, "sync.flush")
    /\ \/ rules' = NoRules /\ Goto(t, "sync.list") /\ UNCHANGED server
       \/ IptablesMayFail /\ rules' \in {rules, NoRules} /\ SyncErr(t)
    /\ UNCHANGED <<cfg, mem, db, tick>>

\* SortedList: the active bans of the map.
SyncList(t) ==
    /\ At(t, "sync.list")
    /\ job' = [job EXCEPT ![t].at = "sync.next", ![t].todo = {ip \in IPs : Active(mem[ip])}]
    /\ UNCHANGED <<cfg, mem, db, rules, server, tick>>

\* The loop over the list; the order of the addresses is left open.
SyncSkip(t, ip) ==
    /\ At(t, "sync.next")
    /\ ip \in job[t].todo
    /\ IsWhitelisted(ip)
    /\ job' = [job EXCEPT ![t].todo = @ \ {ip}]
    /\ UNCHANGED <<cfg, mem, db, rules, server, tick>>

SyncBlock(t, ip) ==
    /\ At(t, "sync.next")
    /\ ip \in job[t].todo
    /\ ~IsWhitelisted(ip)
    /\ job' = [job EXCEPT ![t].at = "block.check", ![t].ip = ip, ![t].todo = @ \ {ip}]
    /\ UNCHANGED <<cfg, mem, db, rules, server, tick>>

SyncDone(t) ==
    /\ At(t, "sync.next")
    /\ job[t].todo = {}
    /\ SyncOk(t)
    /\ UNCHANGED <<cfg, mem, db, rules, tick>>

-----------------------------------------------------------------------------
(* UpdateSettings, after reading the mode                                  *)

Given(x, default) == IF x = Nil THEN default ELSE x

SettingsSave(t) ==
    /\ At(t, "set.save")
    /\ LET new == [mode |-> Given(job[t].mode, cfg.mode),
                   policy |-> Given(job[t].policy, cfg.policy)]
       IN \/ /\ cfg' = new
             /\ IF job[t].mode = Nil /\ job[t].policy = Nil
                THEN Finish(t)
                ELSE job' = [job EXCEPT ![t].at = "set.route", ![t].policy = Nil]
          \/ DbMayFail /\ UNCHANGED cfg /\ Finish(t)
    /\ UNCHANGED <<mem, db, rules, server, tick>>

SettingsRoute(t) ==
    /\ At(t, "set.route")
    /\ IF job[t].old = "iptables" /\ job[t].mode = "plugin"
       THEN Goto(t, "flush")
       ELSE IF cfg.mode = "iptables" THEN Goto(t, "sync.mode") ELSE Finish(t)
    /\ UNCHANGED <<cfg, mem, db, rules, server, tick>>

\* DisableFirewall, for the save itself or for its rollback.
Flush(t) ==
    /\ At(t, "flush")
    /\ \/ rules' = NoRules /\ Finish(t)
       \/ IptablesMayFail /\ rules' \in {rules, NoRules}
            /\ IF job[t].op = "set" THEN Goto(t, "set.undo") ELSE Finish(t)
    /\ UNCHANGED <<cfg, mem, db, server, tick>>

\* The rollback of a mode change that iptables refused; its errors are dropped.
SettingsUndo(t) ==
    /\ At(t, "set.undo")
    /\ LET old == job[t].old
       IN IF job[t].mode = Nil \/ job[t].mode = old
          THEN Finish(t) /\ UNCHANGED cfg
          ELSE /\ \/ cfg' = [cfg EXCEPT !.mode = old]
                  \/ DbMayFail /\ UNCHANGED cfg
               /\ job' = [job EXCEPT ![t].op = "undo",
                            ![t].at = IF old = "iptables" THEN "sync.mode" ELSE "flush"]
    /\ UNCHANGED <<mem, db, rules, server, tick>>

-----------------------------------------------------------------------------
(* expiryLoop                                                              *)

TickMode ==
    /\ server = "up"
    /\ tick = TickIdle
    /\ cfg.mode = "iptables"
    /\ tick' = [tick EXCEPT !.at = "collect"]
    /\ UNCHANGED <<cfg, mem, db, rules, server, job>>

TickCollect ==
    /\ tick.at = "collect"
    /\ LET expired == {ip \in IPs : Recorded(mem[ip]) /\ ~Active(mem[ip])}
       IN tick' = IF expired = {} THEN TickIdle ELSE [at |-> "unblock", todo |-> expired]
    /\ UNCHANGED <<cfg, mem, db, rules, server, job>>

TickUnblock(ip) ==
    /\ tick.at = "unblock"
    /\ ip \in tick.todo
    /\ \/ rules' = WithoutOne(ip)
       \/ IptablesMayFail /\ UNCHANGED rules
    /\ tick' = IF tick.todo = {ip} THEN TickIdle ELSE [tick EXCEPT !.todo = @ \ {ip}]
    /\ UNCHANGED <<cfg, mem, db, server, job>>

-----------------------------------------------------------------------------
(* The environment                                                         *)

\* BannedUntil passes, to the second, in the map and in the table alike when
\* both hold the same ban.
LapseOf(r) == IF r.ban = "temp" THEN [r EXCEPT !.ban = "clear"] ELSE r

Lapse(ip) ==
    /\ mem[ip].ban = "temp" \/ db[ip].ban = "temp"
    /\ IF mem[ip].strikes = db[ip].strikes \/ server = "down"
       THEN /\ mem' = [mem EXCEPT ![ip] = LapseOf(@)]
            /\ db' = [db EXCEPT ![ip] = LapseOf(@)]
       ELSE \/ mem' = [mem EXCEPT ![ip] = LapseOf(@)] /\ UNCHANGED db
            \/ db' = [db EXCEPT ![ip] = LapseOf(@)] /\ UNCHANGED mem
    /\ UNCHANGED <<cfg, rules, server, job, tick>>

\* NewBanManager: LoadBans, then ReconcileFirewall before anything is served.
Start ==
    /\ server = "down"
    /\ mem' = db
    /\ server' = "booting"
    /\ job' = [job EXCEPT ![Boot] = [Idle EXCEPT !.at = "sync.mode", !.op = "boot"]]
    /\ UNCHANGED <<cfg, db, rules, tick>>

\* The process ends; the kernel keeps its rules unless the host goes too.
Stop ==
    /\ MayStop
    /\ server # "down"
    /\ server' = "down"
    /\ mem' = [ip \in IPs |-> NoRecord]
    /\ job' = [t \in Threads |-> Idle]
    /\ tick' = TickIdle
    /\ rules' \in {rules, NoRules}
    /\ UNCHANGED <<cfg, db>>

-----------------------------------------------------------------------------
Request(t) ==
    \/ \E ip \in IPs : BanBegin(t, ip) \/ UnbanBegin(t, ip)
    \/ \E m \in Modes \cup {Nil}, p \in Policies \cup {Nil} : SettingsBegin(t, m, p)

Work(t) ==
    \/ BanPolicy(t) \/ BanLock(t) \/ BanMode(t)
    \/ BlockCheck(t) \/ BlockAppend(t)
    \/ UnbanClear(t) \/ UnbanUnblock(t)
    \/ SyncMode(t) \/ SyncFlush(t) \/ SyncList(t) \/ SyncDone(t)
    \/ \E ip \in IPs : SyncSkip(t, ip) \/ SyncBlock(t, ip)
    \/ SettingsSave(t) \/ SettingsRoute(t) \/ Flush(t) \/ SettingsUndo(t)

ExpiryLoop == TickMode \/ TickCollect \/ \E ip \in IPs : TickUnblock(ip)

Next ==
    \/ \E t \in Handlers : Request(t)
    \/ \E t \in Threads : Work(t)
    \/ ExpiryLoop
    \/ \E ip \in IPs : Lapse(ip)
    \/ Start
    \/ Stop

Spec == Init /\ [][Next]_vars

\* Every goroutine that started runs on, the ticker fires again and again, and
\* systemd restarts the service; nothing is assumed of clients, time or stops.
Fairness ==
    /\ \A t \in Threads : WF_vars(Work(t))
    /\ WF_vars(ExpiryLoop)
    /\ WF_vars(Start)

FairSpec == Spec /\ Fairness

-----------------------------------------------------------------------------
(* What the manager promises                                               *)

\* Every DROP rule is about an IP with a row in the table: whatever order a
\* late Block, an unban, a save or a stop took, the expiry loop and the next
\* synchronisation can still find the rule's IP.  Needs UpsertBan to precede
\* Block and ClearBan to keep the row.
RulesHaveRecords == \A ip \in IPs : rules[ip] > 0 => Recorded(db[ip])

\* A ban that was lifted never comes back with a restart: while the table says
\* banned, the map does, or the request that lifts it has yet to reach the
\* table.
DiskBanIsLive ==
    server # "down" =>
        \A ip \in IPs : Active(db[ip]) =>
            \/ Active(mem[ip])
            \/ \E t \in Handlers : At(t, "unban.clear") /\ job[t].ip = ip

\* The strikes of an IP, as the next ban will see them.
Strikes == [ip \in IPs |-> IF server = "down" THEN db[ip].strikes ELSE mem[ip].strikes]

\* Neither unbans, nor expiry, nor a restart ever lowers the strikes that
\* escalate the next ban.
StrikesNeverForgotten == [][\A ip \in IPs : Strikes'[ip] >= Strikes[ip]]_vars

\* When the server starts serving in iptables mode the chain holds one rule for
\* every active ban that is not whitelisted, and no other rule but those of
\* bans that ran out during start-up: whatever an earlier process left behind.
BootEnforcesBans ==
    [][server = "booting" /\ server' = "up" /\ cfg.mode = "iptables" =>
        \A ip \in IPs :
            /\ Active(mem[ip]) /\ ~IsWhitelisted(ip) => rules'[ip] = 1
            /\ rules'[ip] > 0 => rules'[ip] = 1 /\ Recorded(mem[ip]) /\ ~IsWhitelisted(ip)]_vars

\* -C and -A are two commands, so concurrent Blocks can append the same rule
\* more than once; while iptables does not fail, never more often than there
\* are requests in flight, counting the appends still to come.
DuplicateRulesBounded ==
    \A ip \in IPs :
        rules[ip] + Cardinality({t \in Threads : At(t, "block.append") /\ job[t].ip = ip})
            <= Cardinality(Handlers)

\* A rule left behind (a Block that came after the unban, or a duplicate) goes
\* away by itself once the IP stays unbanned in iptables mode: the expiry loop
\* keeps deleting until none is left.
StaleRuleHeals ==
    \A ip \in IPs :
        <>[](server = "up" /\ cfg.mode = "iptables" /\ ~Active(mem[ip])) => <>[](rules[ip] = 0)

-----------------------------------------------------------------------------
(* The inductive invariant behind the safety properties                    *)

\* While the server is down nothing runs; while it boots only Boot does, and
\* only ReconcileFirewall; then only the handlers and the ticker do.
BootLabels == {"sync.mode", "sync.flush", "sync.list", "sync.next", "block.check", "block.append"}

JobsMatchServer ==
    /\ \A t \in Handlers : job[t].op # "boot"
    /\ server # "up" => \A t \in Handlers : job[t] = Idle
    /\ server = "booting" => job[Boot].op = "boot" /\ job[Boot].at \in BootLabels
    /\ server # "booting" => job[Boot] = Idle

Targeted == {"ban.policy", "ban.lock", "ban.mode", "block.check", "block.append",
             "unban.clear", "unban.unblock"}

JobsHaveTargets == \A t \in Threads : job[t].at \in Targeted => job[t].ip \in IPs

\* A ban is always counted, so an IP without a strike is not banned, and only
\* IPs with a strike are ever handed to Block.
BansAreCounted == \A ip \in IPs : /\ Active(mem[ip]) => Recorded(mem[ip])
                                  /\ Active(db[ip]) => Recorded(db[ip])

Blocking == {"ban.mode", "block.check", "block.append"}

BlocksAreCounted ==
    \A t \in Threads :
        /\ job[t].at \in Blocking => Recorded(mem[job[t].ip])
        /\ \A ip \in job[t].todo : Recorded(mem[ip])

\* Unless SQL fails, map and table count the same strikes, and when both say
\* banned they mean the same ban.
SameStrikes ==
    server # "down" => \A ip \in IPs :
        /\ mem[ip].strikes = db[ip].strikes
        /\ Active(mem[ip]) /\ Active(db[ip]) => mem[ip].ban = db[ip].ban

Shape == TypeOK /\ JobsMatchServer /\ JobsHaveTargets /\ BansAreCounted /\ BlocksAreCounted

DiskInv == Shape /\ SameStrikes /\ RulesHaveRecords /\ DiskBanIsLive

\* What the start-up synchronisation has yet to block.
BootTodo == job[Boot].todo
              \cup IF job[Boot].at \in {"block.check", "block.append"} THEN {job[Boot].ip} ELSE {}

\* Half-way through the start-up synchronisation the chain holds exactly the
\* rules of the bans already visited.
BootProgress ==
    /\ cfg.mode = "iptables"
    /\ \A ip \in BootTodo : rules[ip] = 0
    /\ \A ip \in IPs \ BootTodo : Active(mem[ip]) /\ ~IsWhitelisted(ip) => rules[ip] = 1
    /\ \A ip \in IPs : rules[ip] > 0 =>
          rules[ip] = 1 /\ Recorded(mem[ip]) /\ ~IsWhitelisted(ip)

BootInv ==
    /\ Shape
    /\ server # "up" => tick = TickIdle
    /\ server = "booting" =>
        /\ At(Boot, "sync.flush") => cfg.mode = "iptables"
        /\ At(Boot, "sync.list") => cfg.mode = "iptables" /\ rules = NoRules
        /\ job[Boot].at \in {"sync.next", "block.check", "block.append"} => BootProgress
        /\ job[Boot].at \in {"block.check", "block.append"} =>
              job[Boot].ip \notin job[Boot].todo /\ ~IsWhitelisted(job[Boot].ip)

-----------------------------------------------------------------------------
(* What the documentation says and the code does not do                    *)

Quiet == server = "up" /\ tick = TickIdle /\ \A t \in Threads : job[t] = Idle

\* README.md:62: in iptables mode the chain does the blocking.  So with nothing
\* in progress every active ban that is not whitelisted has its rule.
BanEnforced ==
    Quiet /\ cfg.mode = "iptables" =>
        \A ip \in IPs : Active(mem[ip]) /\ ~IsWhitelisted(ip) => rules[ip] > 0

\* README.md:19: bans are kept in SQLite.  So with nothing in progress an active
\* ban is in the table too and survives a restart.
BanDurable == Quiet => \A ip \in IPs : Active(mem[ip]) => Active(db[ip])

\* README.md:377: when a temporary ban expires its rule is deleted.
LapsedRuleRemoved ==
    \A ip \in IPs :
        (server = "up" /\ rules[ip] > 0 /\ ~Active(mem[ip]))
            ~> (server # "up" \/ rules[ip] = 0 \/ Active(mem[ip]))

=============================================================================
