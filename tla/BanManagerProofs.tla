-------------------------- MODULE BanManagerProofs --------------------------
(* Proofs about BanManager, for every set of addresses and of requests.    *)
EXTENDS BanManager, TLAPS

LEMMA IdleIsJob == Idle \in Job
BY DEF Idle, Job, Labels, Callers, Modes

LEMMA TypeInit == Init => TypeOK
BY BanAssumption, IdleIsJob DEF Init, TypeOK, Record, NoRecord, NoRules, TickIdle, Tick

LEMMA TypeStep == TypeOK /\ [Next]_vars => TypeOK'
<1> SUFFICES ASSUME TypeOK, [Next]_vars PROVE TypeOK'
  OBVIOUS
<1> USE DEF TypeOK
<1>1. ASSUME NEW t \in Handlers, Request(t) PROVE TypeOK'
  <2>0. t \in Threads
    BY DEF Threads
  <2>1. ASSUME NEW ip \in IPs, BanBegin(t, ip) PROVE TypeOK'
    BY <2>0, <2>1, IdleIsJob DEF BanBegin, Job, Labels, Callers, Idle
  <2>2. ASSUME NEW ip \in IPs, UnbanBegin(t, ip) PROVE TypeOK'
    <3> DEFINE j == [Idle EXCEPT !.at = "unban.clear", !.op = "unban", !.ip = ip]
    <3>1. j \in Job
      BY DEF Job, Labels, Callers, Idle, Modes
    <3>2. job' \in [Threads -> Job]
      <4>1. job' = [job EXCEPT ![t] = j]
        BY <2>2 DEF UnbanBegin
      <4> HIDE DEF j
      <4>2. QED
        BY <2>0, <3>1, <4>1
    <3>3. mem' \in [IPs -> Record]
      BY <2>2 DEF UnbanBegin, Record
    <3>4. QED
      BY <2>2, <3>2, <3>3 DEF UnbanBegin
  <2>3. ASSUME NEW m \in Modes \cup {Nil}, NEW p \in Policies \cup {Nil},
               SettingsBegin(t, m, p)
        PROVE  TypeOK'
    BY <2>0, <2>3, IdleIsJob DEF SettingsBegin, Job, Labels, Callers, Idle
  <2>4. QED
    BY <1>1, <2>1, <2>2, <2>3 DEF Request
<1>2. ASSUME NEW t \in Threads, Work(t) PROVE TypeOK'
  <2> USE IdleIsJob DEF Goto, Finish, At
  <2>1. CASE BanPolicy(t)
    <3>1. cfg.policy.perm \in BOOLEAN
      BY BanAssumption
    <3> DEFINE j == [job[t] EXCEPT !.at = "ban.lock", !.perm = cfg.policy.perm]
    <3>2. j \in Job
      BY <3>1 DEF Job, Labels
    <3>3. job' = [job EXCEPT ![t] = j]
      BY <2>1 DEF BanPolicy
    <3>4. job' \in [Threads -> Job]
      BY <3>2, <3>3
    <3>5. QED
      BY <2>1, <3>4 DEF BanPolicy
  <2>2. CASE BanLock(t)
    <3> DEFINE r == [strikes |-> mem[job[t].ip].strikes + 1,
                     ban |-> IF job[t].perm THEN "perm" ELSE "temp"]
    <3>1. job[t].ip \in IPs => r \in Record
      BY DEF Record
    <3>2. /\ mem' = [mem EXCEPT ![job[t].ip] = r]
          /\ db' = [db EXCEPT ![job[t].ip] = r] \/ db' = db
      BY <2>2 DEF BanLock
    <3>3. mem' \in [IPs -> Record] /\ db' \in [IPs -> Record]
      BY <3>1, <3>2, ZenonT(40)
    <3>4. job' \in [Threads -> Job]
      BY <2>2 DEF BanLock, Job, Labels
    <3>5. QED
      BY <2>2, <3>3, <3>4 DEF BanLock
  <2>3. CASE BanMode(t)
    BY <2>3 DEF BanMode, Job, Labels
  <2>4. CASE BlockCheck(t)
    BY <2>4 DEF BlockCheck, BlockOk, BlockErr, SyncErr, Job, Labels
  <2>5. CASE BlockAppend(t)
    BY <2>5 DEF BlockAppend, BlockOk, BlockErr, SyncErr, Job, Labels
  <2>6. CASE UnbanClear(t)
    <3>1. db' \in [IPs -> Record]
      BY <2>6 DEF UnbanClear, Record
    <3>2. job' \in [Threads -> Job]
      BY <2>6 DEF UnbanClear, Job, Labels
    <3>3. QED
      BY <2>6, <3>1, <3>2 DEF UnbanClear
  <2>7. CASE UnbanUnblock(t)
    BY <2>7 DEF UnbanUnblock, WithoutOne
  <2>8. CASE SyncMode(t)
    BY <2>8 DEF SyncMode, SyncOk, Job, Labels
  <2>9. CASE SyncFlush(t)
    BY <2>9 DEF SyncFlush, SyncErr, NoRules, Job, Labels
  <2>10. CASE SyncList(t)
    BY <2>10, ZenonT(40) DEF SyncList, Job, Labels
  <2>11. CASE SyncDone(t)
    BY <2>11 DEF SyncDone, SyncOk
  <2>12. ASSUME NEW ip \in IPs, SyncSkip(t, ip) PROVE TypeOK'
    BY <2>12 DEF SyncSkip, Job
  <2>13. ASSUME NEW ip \in IPs, SyncBlock(t, ip) PROVE TypeOK'
    BY <2>13 DEF SyncBlock, Job, Labels
  <2>14. CASE SettingsSave(t)
    BY <2>14, BanAssumption DEF SettingsSave, Given, Job, Labels
  <2>15. CASE SettingsRoute(t)
    BY <2>15 DEF SettingsRoute, Job, Labels
  <2>16. CASE Flush(t)
    BY <2>16 DEF Flush, NoRules, Job, Labels
  <2>17. CASE SettingsUndo(t)
    BY <2>17 DEF SettingsUndo, Job, Labels, Callers
  <2>18. QED
    BY <1>2, <2>1, <2>2, <2>3, <2>4, <2>5, <2>6, <2>7, <2>8, <2>9, <2>10, <2>11, <2>12,
       <2>13, <2>14, <2>15, <2>16, <2>17 DEF Work
<1>3. CASE ExpiryLoop
  BY <1>3 DEF ExpiryLoop, TickMode, TickCollect, TickUnblock, Tick, TickIdle, WithoutOne
<1>4. ASSUME NEW ip \in IPs, Lapse(ip) PROVE TypeOK'
  <2>1. \A r \in Record : LapseOf(r) \in Record
    BY DEF LapseOf, Record
  <2>2. /\ mem' = [mem EXCEPT ![ip] = LapseOf(@)] \/ mem' = mem
        /\ db' = [db EXCEPT ![ip] = LapseOf(@)] \/ db' = db
    BY <1>4 DEF Lapse
  <2>3. mem' \in [IPs -> Record] /\ db' \in [IPs -> Record]
    BY <2>1, <2>2
  <2>4. QED
    BY <1>4, <2>3 DEF Lapse
<1>5. CASE Start
  BY <1>5, IdleIsJob DEF Start, Job, Labels, Callers, Threads, Idle
<1>6. CASE Stop
  BY <1>6, IdleIsJob DEF Stop, NoRules, NoRecord, Record, Tick, TickIdle
<1>7. CASE UNCHANGED vars
  BY <1>7 DEF vars
<1>8. QED
  BY <1>1, <1>2, <1>3, <1>4, <1>5, <1>6, <1>7 DEF Next

\* The ban manager's state stays well typed.
THEOREM TypeCorrect == Spec => []TypeOK
BY TypeInit, TypeStep, PTL DEF Spec

-----------------------------------------------------------------------------
(* Which goroutine may be where                                            *)

LEMMA ShapeInit == Init => Shape
<1>1. Init => JobsMatchServer /\ JobsHaveTargets
  BY DEF Init, JobsMatchServer, JobsHaveTargets, Targeted, Threads, Idle
<1>2. Init => BansAreCounted /\ BlocksAreCounted
  BY DEF Init, BansAreCounted, BlocksAreCounted, Blocking, Threads, Idle, NoRecord, Active, Recorded
<1>3. QED
  BY <1>1, <1>2, TypeInit DEF Shape

\* A goroutine's step leaves the other goroutines alone, takes no strike back
\* and changes the settings only on behalf of a request.
LEMMA WorkFrame ==
    ASSUME TypeOK, NEW t \in Threads, Work(t)
    PROVE  \A u \in Threads \ {t} : job'[u] = job[u]
<1> USE DEF TypeOK, Goto, Finish
<1>1. CASE BanPolicy(t)
  BY <1>1 DEF BanPolicy
<1>2. CASE BanLock(t)
  BY <1>2 DEF BanLock
<1>3. CASE BanMode(t)
  BY <1>3 DEF BanMode
<1>4. CASE BlockCheck(t)
  BY <1>4 DEF BlockCheck, BlockOk, BlockErr, SyncErr
<1>5. CASE BlockAppend(t)
  BY <1>5 DEF BlockAppend, BlockOk, BlockErr, SyncErr
<1>6. CASE UnbanClear(t)
  BY <1>6 DEF UnbanClear
<1>7. CASE UnbanUnblock(t)
  BY <1>7 DEF UnbanUnblock
<1>8. CASE SyncMode(t)
  BY <1>8 DEF SyncMode, SyncOk
<1>9. CASE SyncFlush(t)
  BY <1>9 DEF SyncFlush, SyncErr
<1>10. CASE SyncList(t)
  BY <1>10 DEF SyncList
<1>11. CASE SyncDone(t)
  BY <1>11 DEF SyncDone, SyncOk
<1>12. ASSUME NEW ip \in IPs, SyncSkip(t, ip) PROVE \A u \in Threads \ {t} : job'[u] = job[u]
  BY <1>12 DEF SyncSkip
<1>13. ASSUME NEW ip \in IPs, SyncBlock(t, ip) PROVE \A u \in Threads \ {t} : job'[u] = job[u]
  BY <1>13 DEF SyncBlock
<1>14. CASE SettingsSave(t)
  BY <1>14 DEF SettingsSave
<1>15. CASE SettingsRoute(t)
  BY <1>15 DEF SettingsRoute
<1>16. CASE Flush(t)
  BY <1>16 DEF Flush
<1>17. CASE SettingsUndo(t)
  BY <1>17 DEF SettingsUndo
<1>18. QED
  BY <1>1, <1>2, <1>3, <1>4, <1>5, <1>6, <1>7, <1>8, <1>9, <1>10, <1>11, <1>12, <1>13,
     <1>14, <1>15, <1>16, <1>17 DEF Work

LEMMA WorkCounts ==
    ASSUME TypeOK, NEW t \in Threads, Work(t)
    PROVE  \A ip \in IPs : mem'[ip].strikes >= mem[ip].strikes
<1> DEFINE Counts == \A ip \in IPs : mem'[ip].strikes >= mem[ip].strikes
<1> USE DEF TypeOK, Record
<1>1. CASE BanPolicy(t)
  BY <1>1 DEF BanPolicy
<1>2. CASE BanLock(t)
  <2> DEFINE r == [strikes |-> mem[job[t].ip].strikes + 1,
                   ban |-> IF job[t].perm THEN "perm" ELSE "temp"]
  <2>1. mem' = [mem EXCEPT ![job[t].ip] = r]
    BY <1>2 DEF BanLock
  <2>2. QED
    BY <2>1
<1>3. CASE BanMode(t)
  BY <1>3 DEF BanMode
<1>4. CASE BlockCheck(t)
  BY <1>4 DEF BlockCheck, BlockOk, BlockErr, SyncErr
<1>5. CASE BlockAppend(t)
  BY <1>5 DEF BlockAppend, BlockOk, BlockErr, SyncErr
<1>6. CASE UnbanClear(t)
  BY <1>6 DEF UnbanClear
<1>7. CASE UnbanUnblock(t)
  BY <1>7 DEF UnbanUnblock
<1>8. CASE SyncMode(t)
  BY <1>8 DEF SyncMode, SyncOk
<1>9. CASE SyncFlush(t)
  BY <1>9 DEF SyncFlush, SyncErr
<1>10. CASE SyncList(t)
  BY <1>10 DEF SyncList
<1>11. CASE SyncDone(t)
  BY <1>11 DEF SyncDone, SyncOk
<1>12. ASSUME NEW ip \in IPs, SyncSkip(t, ip) PROVE Counts
  BY <1>12 DEF SyncSkip
<1>13. ASSUME NEW ip \in IPs, SyncBlock(t, ip) PROVE Counts
  BY <1>13 DEF SyncBlock
<1>14. CASE SettingsSave(t)
  BY <1>14 DEF SettingsSave
<1>15. CASE SettingsRoute(t)
  BY <1>15 DEF SettingsRoute
<1>16. CASE Flush(t)
  BY <1>16 DEF Flush
<1>17. CASE SettingsUndo(t)
  BY <1>17 DEF SettingsUndo
<1>18. QED
  BY <1>1, <1>2, <1>3, <1>4, <1>5, <1>6, <1>7, <1>8, <1>9, <1>10, <1>11, <1>12, <1>13,
     <1>14, <1>15, <1>16, <1>17 DEF Work

\* What a goroutine's own step makes of its job.
OwnJob(t) ==
    /\ job'[t].at \in Targeted => job'[t].ip \in IPs
    /\ job'[t].at \in Blocking => Recorded(mem'[job'[t].ip])
    /\ \A ip \in job'[t].todo : Recorded(mem'[ip])
    /\ t # Boot => server' = server /\ job'[t].op # "boot"
    /\ t = Boot => IF server' = "booting"
                   THEN job'[t].op = "boot" /\ job'[t].at \in BootLabels
                   ELSE job'[t] = Idle

LEMMA WorkOwnJob ==
    ASSUME Shape, NEW t \in Threads, Work(t)
    PROVE  OwnJob(t)
<1>a. /\ TypeOK /\ JobsMatchServer /\ JobsHaveTargets /\ BansAreCounted /\ BlocksAreCounted
      /\ job[t] \in Job /\ job \in [Threads -> Job] /\ mem \in [IPs -> Record]
  BY DEF Shape, TypeOK
<1>b. t # Boot => t \in Handlers
  BY DEF Threads
<1>c. t = Boot => job[t] = Idle \/ (server = "booting" /\ job[t].op = "boot" /\ job[t].at \in BootLabels)
  BY <1>a DEF JobsMatchServer
<1>d. t # Boot => job[t].op # "boot"
  BY <1>a, <1>b DEF JobsMatchServer
<1>e. /\ job[t].at \in Targeted => job[t].ip \in IPs
      /\ job[t].at \in Blocking => Recorded(mem[job[t].ip])
      /\ \A ip \in job[t].todo : Recorded(mem[ip])
  BY <1>a DEF JobsHaveTargets, BlocksAreCounted
<1> USE <1>a, <1>b, <1>c, <1>d, <1>e DEF OwnJob, Goto, Finish, At, Idle, Job, Targeted, Blocking, BootLabels
<1>f. ASSUME mem' = mem, SyncErr(t), job[t] # Idle PROVE OwnJob(t)
  <2>1. CASE job[t].op = "set"
    BY <1>f, <2>1 DEF SyncErr
  <2>2. CASE job[t].op # "set"
    <3>1. job'[t] = Idle /\ server' = IF job[t].op = "boot" THEN "down" ELSE server
      BY <1>f, <2>2 DEF SyncErr
    <3>2. QED
      BY <1>f, <3>1
  <2>3. QED
    BY <2>1, <2>2
<1>g. ASSUME mem' = mem, BlockOk(t), job[t] # Idle PROVE OwnJob(t)
  <2>1. CASE job[t].op = "ban"
    BY <1>g, <2>1 DEF BlockOk
  <2>2. CASE job[t].op # "ban"
    BY <1>g, <2>2 DEF BlockOk
  <2>3. QED
    BY <2>1, <2>2
<1>h. ASSUME mem' = mem, BlockErr(t), job[t] # Idle PROVE OwnJob(t)
  <2>1. CASE job[t].op = "ban"
    BY <1>h, <2>1 DEF BlockErr
  <2>2. CASE job[t].op # "ban"
    BY <1>f, <1>h, <2>2 DEF BlockErr
  <2>3. QED
    BY <2>1, <2>2
<1>1. CASE BanPolicy(t)
  BY <1>1 DEF BanPolicy
<1>2. CASE BanLock(t)
  <2> DEFINE r == [strikes |-> mem[job[t].ip].strikes + 1,
                   ban |-> IF job[t].perm THEN "perm" ELSE "temp"]
  <2>1. /\ job[t].at = "ban.lock"
        /\ mem' = [mem EXCEPT ![job[t].ip] = r]
        /\ server' = server
    BY <1>2 DEF BanLock
  <2>2. t # Boot /\ job[t].ip \in IPs
    BY <2>1
  <2>3. \A ip \in IPs : Recorded(mem[ip]) => Recorded(mem'[ip])
    <3>1. \A ip \in IPs : mem'[ip].strikes \in Nat /\ mem[ip].strikes \in Nat
      BY TypeStep DEF Next, TypeOK, Record
    <3>2. QED
      BY <3>1, WorkCounts DEF Recorded
  <2>4. Recorded(mem'[job[t].ip])
    BY <2>1, <2>2 DEF Recorded, Record
  <2>5. job'[t] = Idle \/ job'[t] = [job[t] EXCEPT !.at = "ban.mode", !.perm = FALSE]
    BY <1>2 DEF BanLock
  <2>6. CASE job'[t] = Idle
    BY <2>1, <2>2, <2>6
  <2>7. CASE job'[t] = [job[t] EXCEPT !.at = "ban.mode", !.perm = FALSE]
    <3>1. /\ job'[t].at = "ban.mode" /\ job'[t].ip = job[t].ip
          /\ job'[t].op = job[t].op /\ job'[t].todo = job[t].todo
      BY <2>7
    <3>2. \A ip \in job'[t].todo : Recorded(mem'[ip])
      BY <2>3, <3>1
    <3>3. QED
      BY <2>1, <2>2, <2>4, <3>1, <3>2
  <2>8. QED
    BY <2>5, <2>6, <2>7
<1>3. CASE BanMode(t)
  BY <1>3 DEF BanMode
<1>4. CASE BlockCheck(t)
  <2>1. job[t] # Idle /\ mem' = mem
    BY <1>4 DEF BlockCheck
  <2>2. CASE Goto(t, "block.append") /\ UNCHANGED server
    BY <1>4, <2>1, <2>2 DEF BlockCheck
  <2>3. QED
    BY <1>4, <1>g, <1>h, <2>1, <2>2 DEF BlockCheck
<1>5. CASE BlockAppend(t)
  <2>1. job[t] # Idle /\ mem' = mem
    BY <1>5 DEF BlockAppend
  <2>2. BlockOk(t) \/ BlockErr(t)
    BY <1>5 DEF BlockAppend
  <2>3. QED
    BY <1>g, <1>h, <2>1, <2>2
<1>6. CASE UnbanClear(t)
  BY <1>6 DEF UnbanClear
<1>7. CASE UnbanUnblock(t)
  BY <1>7 DEF UnbanUnblock
<1>8. CASE SyncMode(t)
  <2>1. CASE cfg.mode = "iptables"
    BY <1>8, <2>1 DEF SyncMode
  <2>2. CASE cfg.mode # "iptables"
    BY <1>8, <2>2 DEF SyncMode, SyncOk
  <2>3. QED
    BY <2>1, <2>2
<1>9. CASE SyncFlush(t)
  <2>1. job[t] # Idle /\ mem' = mem
    BY <1>9 DEF SyncFlush
  <2>2. CASE Goto(t, "sync.list") /\ UNCHANGED server
    BY <1>9, <2>1, <2>2 DEF SyncFlush
  <2>3. QED
    BY <1>9, <1>f, <2>1, <2>2 DEF SyncFlush
<1>10. CASE SyncList(t)
  BY <1>10 DEF SyncList
<1>11. CASE SyncDone(t)
  BY <1>11 DEF SyncDone, SyncOk
<1>12. ASSUME NEW ip \in IPs, SyncSkip(t, ip) PROVE OwnJob(t)
  BY <1>12 DEF SyncSkip
<1>13. ASSUME NEW ip \in IPs, SyncBlock(t, ip) PROVE OwnJob(t)
  BY <1>13 DEF SyncBlock
<1>14. CASE SettingsSave(t)
  BY <1>14 DEF SettingsSave
<1>15. CASE SettingsRoute(t)
  BY <1>15 DEF SettingsRoute
<1>16. CASE Flush(t)
  BY <1>16 DEF Flush
<1>17. CASE SettingsUndo(t)
  BY <1>17 DEF SettingsUndo
<1>18. QED
  BY <1>1, <1>2, <1>3, <1>4, <1>5, <1>6, <1>7, <1>8, <1>9, <1>10, <1>11, <1>12, <1>13,
     <1>14, <1>15, <1>16, <1>17 DEF Work

LEMMA WorkBans ==
    ASSUME TypeOK, BansAreCounted, NEW t \in Threads, Work(t)
    PROVE  BansAreCounted'
<1> USE DEF TypeOK, BansAreCounted
<1>1. CASE BanPolicy(t)
  BY <1>1 DEF BanPolicy
<1>2. CASE BanLock(t)
  <2> DEFINE r == [strikes |-> mem[job[t].ip].strikes + 1,
                   ban |-> IF job[t].perm THEN "perm" ELSE "temp"]
  <2>1. /\ mem' = [mem EXCEPT ![job[t].ip] = r]
        /\ db' = [db EXCEPT ![job[t].ip] = r] \/ db' = db
    BY <1>2 DEF BanLock
  <2>2. job[t].ip \in IPs => Recorded(r)
    BY DEF Recorded, Record
  <2>3. QED
    BY <2>1, <2>2
<1>3. CASE BanMode(t)
  BY <1>3 DEF BanMode
<1>4. CASE BlockCheck(t)
  BY <1>4 DEF BlockCheck
<1>5. CASE BlockAppend(t)
  BY <1>5 DEF BlockAppend
<1>6. CASE UnbanClear(t)
  BY <1>6 DEF UnbanClear, Record, Active, Recorded
<1>7. CASE UnbanUnblock(t)
  BY <1>7 DEF UnbanUnblock
<1>8. CASE SyncMode(t)
  BY <1>8 DEF SyncMode
<1>9. CASE SyncFlush(t)
  BY <1>9 DEF SyncFlush
<1>10. CASE SyncList(t)
  BY <1>10 DEF SyncList
<1>11. CASE SyncDone(t)
  BY <1>11 DEF SyncDone
<1>12. ASSUME NEW ip \in IPs, SyncSkip(t, ip) PROVE BansAreCounted'
  BY <1>12 DEF SyncSkip
<1>13. ASSUME NEW ip \in IPs, SyncBlock(t, ip) PROVE BansAreCounted'
  BY <1>13 DEF SyncBlock
<1>14. CASE SettingsSave(t)
  BY <1>14 DEF SettingsSave
<1>15. CASE SettingsRoute(t)
  BY <1>15 DEF SettingsRoute
<1>16. CASE Flush(t)
  BY <1>16 DEF Flush
<1>17. CASE SettingsUndo(t)
  BY <1>17 DEF SettingsUndo
<1>18. QED
  BY <1>1, <1>2, <1>3, <1>4, <1>5, <1>6, <1>7, <1>8, <1>9, <1>10, <1>11, <1>12, <1>13,
     <1>14, <1>15, <1>16, <1>17 DEF Work

LEMMA WorkBusy == ASSUME NEW t, Work(t) PROVE job[t] # Idle
<1> SUFFICES job[t].at # "idle"
  BY DEF Idle
<1>1. BanPolicy(t) \/ BanLock(t) \/ BanMode(t) => job[t].at # "idle"
  BY DEF BanPolicy, BanLock, BanMode, At
<1>2. BlockCheck(t) \/ BlockAppend(t) \/ UnbanClear(t) \/ UnbanUnblock(t) => job[t].at # "idle"
  BY DEF BlockCheck, BlockAppend, UnbanClear, UnbanUnblock, At
<1>3. SyncMode(t) \/ SyncFlush(t) \/ SyncList(t) \/ SyncDone(t) => job[t].at # "idle"
  BY DEF SyncMode, SyncFlush, SyncList, SyncDone, At
<1>4. ASSUME NEW ip \in IPs, SyncSkip(t, ip) \/ SyncBlock(t, ip) PROVE job[t].at # "idle"
  BY <1>4 DEF SyncSkip, SyncBlock, At
<1>5. SettingsSave(t) \/ SettingsRoute(t) \/ Flush(t) \/ SettingsUndo(t) => job[t].at # "idle"
  BY DEF SettingsSave, SettingsRoute, Flush, SettingsUndo, At
<1>6. QED
  BY <1>1, <1>2, <1>3, <1>4, <1>5 DEF Work

LEMMA WorkTick == ASSUME NEW t, Work(t) PROVE tick' = tick
<1>1. BanPolicy(t) \/ BanLock(t) \/ BanMode(t) => tick' = tick
  BY DEF BanPolicy, BanLock, BanMode
<1>2. BlockCheck(t) \/ BlockAppend(t) \/ UnbanClear(t) \/ UnbanUnblock(t) => tick' = tick
  BY DEF BlockCheck, BlockAppend, UnbanClear, UnbanUnblock
<1>3. SyncMode(t) \/ SyncFlush(t) \/ SyncList(t) \/ SyncDone(t) => tick' = tick
  BY DEF SyncMode, SyncFlush, SyncList, SyncDone
<1>4. ASSUME NEW ip \in IPs, SyncSkip(t, ip) \/ SyncBlock(t, ip) PROVE tick' = tick
  BY <1>4 DEF SyncSkip, SyncBlock
<1>5. SettingsSave(t) \/ SettingsRoute(t) \/ Flush(t) \/ SettingsUndo(t) => tick' = tick
  BY DEF SettingsSave, SettingsRoute, Flush, SettingsUndo
<1>6. QED
  BY <1>1, <1>2, <1>3, <1>4, <1>5 DEF Work

LEMMA ShapeStep == Shape /\ [Next]_vars => Shape'
<1> SUFFICES ASSUME Shape, [Next]_vars PROVE Shape'
  OBVIOUS
<1>0. TypeOK /\ TypeOK'
  BY TypeStep DEF Shape
<1>a. JobsMatchServer /\ JobsHaveTargets /\ BansAreCounted /\ BlocksAreCounted
  BY DEF Shape
<1> DEFINE Rest == JobsMatchServer /\ JobsHaveTargets /\ BansAreCounted /\ BlocksAreCounted
<1> SUFFICES Rest'
  BY <1>0 DEF Shape
<1>b. /\ job \in [Threads -> Job] /\ job' \in [Threads -> Job]
      /\ mem \in [IPs -> Record] /\ mem' \in [IPs -> Record]
      /\ db \in [IPs -> Record] /\ db' \in [IPs -> Record]
  BY <1>0 DEF TypeOK
<1>c. Boot \in Threads /\ \A t \in Handlers : t \in Threads /\ t # Boot
  BY BanAssumption DEF Threads
<1> USE DEF JobsMatchServer, JobsHaveTargets, BansAreCounted, BlocksAreCounted
<1>1. ASSUME NEW t \in Handlers, Request(t) PROVE Rest'
  <2>1. ASSUME NEW ip \in IPs, BanBegin(t, ip) PROVE Rest'
    BY <1>a, <1>b, <1>c, <2>1 DEF BanBegin, Accept, Idle, Targeted, Blocking, BootLabels
  <2>2. ASSUME NEW ip \in IPs, UnbanBegin(t, ip) PROVE Rest'
    <3>1. \A i \in IPs : /\ mem'[i].strikes = mem[i].strikes
                         /\ mem'[i].ban \in {mem[i].ban, "clear"}
      BY <1>b, <2>2 DEF UnbanBegin, Record
    <3>2. BansAreCounted'
      BY <1>a, <2>2, <3>1 DEF UnbanBegin, Active, Recorded
    <3> DEFINE j == [Idle EXCEPT !.at = "unban.clear", !.op = "unban", !.ip = ip]
    <3>3. job' = [job EXCEPT ![t] = j] /\ server = "up" /\ server' = server
      BY <2>2 DEF UnbanBegin, Accept
    <3>4. j.at = "unban.clear" /\ j.op = "unban" /\ j.ip = ip /\ j.todo = {}
      BY DEF Idle
    <3>5. JobsMatchServer' /\ JobsHaveTargets'
      BY <1>a, <1>b, <1>c, <3>3, <3>4
    <3>6. BlocksAreCounted'
      <4> SUFFICES ASSUME NEW u \in Threads
                   PROVE  /\ job'[u].at \in Blocking => Recorded(mem'[job'[u].ip])
                          /\ \A i \in job'[u].todo : Recorded(mem'[i])
        OBVIOUS
      <4>1. CASE u = t
        BY <1>b, <1>c, <3>3, <3>4, <4>1 DEF Blocking
      <4>2. CASE u # t
        <5>1. job'[u] = job[u] /\ job[u] \in Job
          BY <1>b, <3>3, <4>2
        <5>2. job[u].at \in Blocking => job[u].ip \in IPs
          BY <1>a DEF Blocking, Targeted
        <5>3. job[u].todo \subseteq IPs
          BY <5>1 DEF Job
        <5>4. QED
          BY <1>a, <3>1, <5>1, <5>2, <5>3 DEF Recorded
      <4>3. QED
        BY <4>1, <4>2
    <3>7. QED
      BY <3>2, <3>5, <3>6
  <2>3. ASSUME NEW m \in Modes \cup {Nil}, NEW p \in Policies \cup {Nil},
               SettingsBegin(t, m, p)
        PROVE  Rest'
    BY <1>a, <1>b, <1>c, <2>3, ZenonT(40) DEF SettingsBegin, Accept, Idle, Targeted, Blocking, BootLabels
  <2>4. QED
    BY <1>1, <2>1, <2>2, <2>3 DEF Request
<1>2. ASSUME NEW t \in Threads, Work(t) PROVE Rest'
  <2>1. OwnJob(t) /\ BansAreCounted'
    BY <1>0, <1>a, <1>2, WorkOwnJob, WorkBans
  <2>2. \A u \in Threads \ {t} : job'[u] = job[u]
    BY <1>0, <1>2, WorkFrame
  <2>3. \A ip \in IPs : Recorded(mem[ip]) => Recorded(mem'[ip])
    BY <1>0, <1>b, <1>2, WorkCounts DEF Record, Recorded
  <2>4. job[t] # Idle
    BY <1>2, WorkBusy
  <2>5. JobsHaveTargets'
    BY <1>a, <2>1, <2>2 DEF OwnJob
  <2>6. BlocksAreCounted'
    BY <1>a, <1>b, <2>1, <2>2, <2>3 DEF OwnJob, Job, Targeted, Blocking
  <2>7. JobsMatchServer'
    BY <1>a, <1>c, <2>1, <2>2, <2>4 DEF OwnJob
  <2>8. QED
    BY <2>1, <2>5, <2>6, <2>7
<1>3. CASE ExpiryLoop
  BY <1>a, <1>b, <1>3 DEF ExpiryLoop, TickMode, TickCollect, TickUnblock
<1>4. ASSUME NEW ip \in IPs, Lapse(ip) PROVE Rest'
  <2>1. \A i \in IPs : /\ mem'[i].strikes = mem[i].strikes
                       /\ mem'[i].ban \in {mem[i].ban, "clear"}
                       /\ db'[i].strikes = db[i].strikes
                       /\ db'[i].ban \in {db[i].ban, "clear"}
    BY <1>b, <1>4 DEF Lapse, LapseOf, Record
  <2>2. server' = server /\ job' = job
    BY <1>4 DEF Lapse
  <2>3. BansAreCounted'
    BY <1>a, <2>1 DEF Active, Recorded
  <2>4. \A u \in Threads : /\ job[u].todo \subseteq IPs
                           /\ job[u].at \in Blocking => job[u].ip \in IPs
    BY <1>a, <1>b DEF Job, Blocking, Targeted
  <2>5. BlocksAreCounted'
    BY <1>a, <2>1, <2>2, <2>4 DEF Recorded
  <2>6. QED
    BY <1>a, <2>2, <2>3, <2>5
<1>5. CASE Start
  <2> DEFINE j == [Idle EXCEPT !.at = "sync.mode", !.op = "boot"]
  <2>1. /\ server = "down" /\ server' = "booting"
        /\ mem' = db /\ db' = db
        /\ job' = [job EXCEPT ![Boot] = j]
    BY <1>5 DEF Start
  <2>2. j.at = "sync.mode" /\ j.op = "boot" /\ j.todo = {}
    BY DEF Idle
  <2>3. \A u \in Threads : u # Boot => job'[u] = Idle
    BY <1>a, <1>b, <2>1 DEF Threads
  <2>4. job'[Boot] = j
    BY <1>b, <1>c, <2>1
  <2>5. JobsMatchServer'
    BY <1>a, <1>c, <2>1, <2>2, <2>3, <2>4 DEF BootLabels
  <2>6. JobsHaveTargets' /\ BlocksAreCounted'
    <3>1. \A u \in Threads : /\ job'[u].at \in {"idle", "sync.mode"}
                             /\ job'[u].todo = {}
      <4>1. Idle.at = "idle" /\ Idle.todo = {}
        BY DEF Idle
      <4> HIDE DEF j
      <4>2. QED
        BY <2>2, <2>3, <2>4, <4>1
    <3>2. QED
      BY <3>1 DEF Targeted, Blocking
  <2>7. QED
    BY <1>a, <2>1, <2>5, <2>6
<1>6. CASE Stop
  BY <1>a, <1>b, <1>c, <1>6 DEF Stop, Idle, Targeted, Blocking, BootLabels, NoRecord, Active, Recorded
<1>7. CASE UNCHANGED vars
  BY <1>a, <1>7 DEF vars, Active, Recorded
<1>8. QED
  BY <1>1, <1>2, <1>3, <1>4, <1>5, <1>6, <1>7 DEF Next

-----------------------------------------------------------------------------
(* Map, table and chain                                                    *)

\* Only applyBan's critical section and ClearBan write a ban.
LEMMA WorkMemDb ==
    ASSUME NEW t, Work(t)
    PROVE  \/ BanLock(t)
           \/ UnbanClear(t)
           \/ UNCHANGED <<mem, db>> /\ job[t].at # "unban.clear"
<1> DEFINE Kept == UNCHANGED <<mem, db>> /\ job[t].at # "unban.clear"
<1>1. BanPolicy(t) \/ BanMode(t) \/ BlockCheck(t) \/ BlockAppend(t) \/ UnbanUnblock(t) => Kept
  BY DEF BanPolicy, BanMode, BlockCheck, BlockAppend, UnbanUnblock, At
<1>2. SyncMode(t) \/ SyncFlush(t) \/ SyncList(t) \/ SyncDone(t) => Kept
  BY DEF SyncMode, SyncFlush, SyncList, SyncDone, At
<1>3. ASSUME NEW ip \in IPs, SyncSkip(t, ip) \/ SyncBlock(t, ip) PROVE Kept
  BY <1>3 DEF SyncSkip, SyncBlock, At
<1>4. SettingsSave(t) \/ SettingsRoute(t) \/ Flush(t) \/ SettingsUndo(t) => Kept
  BY DEF SettingsSave, SettingsRoute, Flush, SettingsUndo, At
<1>5. QED
  BY <1>1, <1>2, <1>3, <1>4 DEF Work

\* Only Block adds a rule, for the IP it was called with.
LEMMA WorkRules ==
    ASSUME TypeOK, NEW t, Work(t), NEW ip \in IPs, rules'[ip] > 0
    PROVE  rules[ip] > 0 \/ (job[t].at = "block.append" /\ ip = job[t].ip)
<1> DEFINE Found == rules[ip] > 0 \/ (job[t].at = "block.append" /\ ip = job[t].ip)
<1>0. rules \in [IPs -> Nat]
  BY DEF TypeOK
<1>1. UNCHANGED rules => Found
  OBVIOUS
<1>2. CASE BlockAppend(t)
  BY <1>0, <1>2 DEF BlockAppend, At
<1>3. CASE UnbanUnblock(t)
  BY <1>0, <1>3 DEF UnbanUnblock, WithoutOne
<1>4. CASE SyncFlush(t) \/ Flush(t)
  BY <1>0, <1>4 DEF SyncFlush, Flush, NoRules
<1>5. CASE BanPolicy(t) \/ BanLock(t) \/ BanMode(t) \/ BlockCheck(t) \/ UnbanClear(t)
  BY <1>1, <1>5 DEF BanPolicy, BanLock, BanMode, BlockCheck, UnbanClear
<1>6. CASE SyncMode(t) \/ SyncList(t) \/ SyncDone(t)
  BY <1>1, <1>6 DEF SyncMode, SyncList, SyncDone
<1>7. ASSUME NEW i \in IPs, SyncSkip(t, i) \/ SyncBlock(t, i) PROVE Found
  BY <1>1, <1>7 DEF SyncSkip, SyncBlock
<1>8. CASE SettingsSave(t) \/ SettingsRoute(t) \/ SettingsUndo(t)
  BY <1>1, <1>8 DEF SettingsSave, SettingsRoute, SettingsUndo
<1>9. QED
  BY <1>2, <1>3, <1>4, <1>5, <1>6, <1>7, <1>8 DEF Work

LEMMA WorkDisk ==
    ASSUME ~DbMayFail, DiskInv, NEW t \in Threads, Work(t)
    PROVE  SameStrikes' /\ RulesHaveRecords' /\ DiskBanIsLive'
<1>1. /\ TypeOK /\ TypeOK' /\ Shape /\ SameStrikes /\ RulesHaveRecords /\ DiskBanIsLive
  BY TypeStep DEF DiskInv, Shape, Next
<1>2. /\ mem \in [IPs -> Record] /\ mem' \in [IPs -> Record]
      /\ db \in [IPs -> Record] /\ db' \in [IPs -> Record]
      /\ rules \in [IPs -> Nat] /\ rules' \in [IPs -> Nat]
  BY <1>1 DEF TypeOK
<1>3. server # "down"
  BY <1>1, WorkBusy DEF Shape, JobsMatchServer, Threads
<1>4. \A ip \in IPs : /\ mem[ip].strikes = db[ip].strikes
                      /\ Active(mem[ip]) /\ Active(db[ip]) => mem[ip].ban = db[ip].ban
  BY <1>1, <1>3 DEF SameStrikes
<1>5. \A u \in Threads \ {t} : job'[u] = job[u]
  BY <1>1, WorkFrame
<1>6. /\ \A ip \in IPs : mem'[ip].strikes = db'[ip].strikes
      /\ \A ip \in IPs : Active(mem'[ip]) /\ Active(db'[ip]) => mem'[ip].ban = db'[ip].ban
      /\ \A ip \in IPs : db'[ip].strikes >= db[ip].strikes
      /\ \A ip \in IPs : Active(db'[ip]) =>
            \/ Active(mem'[ip])
            \/ \E u \in Handlers : job'[u].at = "unban.clear" /\ job'[u].ip = ip
  <2>0. \A ip \in IPs : Active(db[ip]) =>
            \/ Active(mem[ip])
            \/ \E u \in Handlers : job[u].at = "unban.clear" /\ job[u].ip = ip
    BY <1>1, <1>3 DEF DiskBanIsLive, At
  <2>1. CASE BanLock(t)
    <3> DEFINE r == [strikes |-> mem[job[t].ip].strikes + 1,
                     ban |-> IF job[t].perm THEN "perm" ELSE "temp"]
    <3>1. /\ mem' = [mem EXCEPT ![job[t].ip] = r]
          /\ db' = [db EXCEPT ![job[t].ip] = r]
          /\ job[t].at = "ban.lock"
      BY <2>1 DEF BanLock, At
    <3>2. Active(r)
      BY DEF Active
    <3>3. \A ip \in IPs : mem'[ip].strikes = db'[ip].strikes /\ db'[ip].strikes >= db[ip].strikes
      BY <1>2, <1>4, <3>1 DEF Record
    <3>6. \A ip \in IPs : Active(mem'[ip]) /\ Active(db'[ip]) => mem'[ip].ban = db'[ip].ban
      BY <1>2, <1>4, <3>1
    <3>4. ASSUME NEW ip \in IPs, Active(db'[ip])
          PROVE  \/ Active(mem'[ip])
                 \/ \E u \in Handlers : job'[u].at = "unban.clear" /\ job'[u].ip = ip
      <4>1. CASE ip = job[t].ip
        BY <1>2, <3>1, <3>2, <4>1
      <4>2. CASE ip # job[t].ip
        <5>1. mem'[ip] = mem[ip] /\ db'[ip] = db[ip]
          BY <1>2, <3>1, <4>2
        <5>2. \A u \in Handlers : job[u].at = "unban.clear" => job'[u] = job[u]
          BY <1>5, <3>1 DEF Threads
        <5>3. QED
          BY <2>0, <3>4, <5>1, <5>2
      <4>3. QED
        BY <4>1, <4>2
    <3>5. QED
      BY <3>3, <3>4, <3>6
  <2>2. CASE UnbanClear(t)
    <3>1. mem' = mem /\ db' = [db EXCEPT ![job[t].ip].ban = "clear"]
      BY <2>2 DEF UnbanClear
    <3>2. \A ip \in IPs : /\ db'[ip].strikes = db[ip].strikes
                          /\ Active(db'[ip]) => db'[ip] = db[ip] /\ ip # job[t].ip
      BY <1>2, <3>1 DEF Record, Active
    <3>3. ASSUME NEW ip \in IPs, Active(db'[ip])
          PROVE  \/ Active(mem'[ip])
                 \/ \E u \in Handlers : job'[u].at = "unban.clear" /\ job'[u].ip = ip
      <4>1. Active(db[ip]) /\ ip # job[t].ip
        BY <3>2, <3>3
      <4>2. \A u \in Handlers : job[u].ip = ip => job'[u] = job[u]
        BY <1>5, <4>1 DEF Threads
      <4>3. QED
        BY <2>0, <3>1, <4>1, <4>2
    <3>4. \A ip \in IPs : /\ mem'[ip].strikes = db'[ip].strikes
                          /\ db'[ip].strikes >= db[ip].strikes
      <4>1. \A ip \in IPs : db[ip].strikes \in Nat
        BY <1>2 DEF Record
      <4>2. QED
        BY <1>4, <3>1, <3>2, <4>1
    <3>5. \A ip \in IPs : Active(mem'[ip]) /\ Active(db'[ip]) => mem'[ip].ban = db'[ip].ban
      BY <1>4, <3>1, <3>2
    <3>6. QED
      BY <3>3, <3>4, <3>5
  <2>3. CASE UNCHANGED <<mem, db>> /\ job[t].at # "unban.clear"
    BY <1>2, <1>4, <1>5, <2>0, <2>3 DEF Record, Threads
  <2>4. QED
    BY <2>1, <2>2, <2>3, WorkMemDb
<1>7. SameStrikes' /\ DiskBanIsLive'
  BY <1>6 DEF SameStrikes, DiskBanIsLive, At
<1>8. ASSUME NEW ip \in IPs, rules'[ip] > 0 PROVE Recorded(db'[ip])
  <2>1. CASE rules[ip] > 0
    <3>1. Recorded(db[ip])
      BY <1>1, <2>1 DEF RulesHaveRecords
    <3>2. QED
      BY <1>2, <1>6, <3>1 DEF Recorded, Record
  <2>2. CASE job[t].at = "block.append" /\ ip = job[t].ip
    <3>1. Recorded(mem[ip])
      BY <1>1, <2>2 DEF Shape, BlocksAreCounted, Blocking
    <3>2. QED
      BY <1>2, <1>4, <1>6, <3>1 DEF Recorded, Record
  <2>3. QED
    BY <1>1, <1>8, <2>1, <2>2, WorkRules
<1>9. QED
  BY <1>7, <1>8 DEF RulesHaveRecords

LEMMA DiskInit == Init => DiskInv
BY ShapeInit DEF Init, DiskInv, SameStrikes, RulesHaveRecords, DiskBanIsLive, NoRules

LEMMA DiskStep == ASSUME ~DbMayFail PROVE DiskInv /\ [Next]_vars => DiskInv'
<1> SUFFICES ASSUME DiskInv, [Next]_vars PROVE DiskInv'
  OBVIOUS
<1>1. /\ Shape /\ Shape' /\ TypeOK /\ TypeOK'
      /\ SameStrikes /\ RulesHaveRecords /\ DiskBanIsLive
  BY ShapeStep DEF DiskInv, Shape
<1> DEFINE Disk == SameStrikes /\ RulesHaveRecords /\ DiskBanIsLive
<1> SUFFICES Disk'
  BY <1>1 DEF DiskInv
<1>2. /\ mem \in [IPs -> Record] /\ db \in [IPs -> Record] /\ rules \in [IPs -> Nat]
      /\ job \in [Threads -> Job]
  BY <1>1 DEF TypeOK
<1> USE DEF SameStrikes, RulesHaveRecords, DiskBanIsLive, At
<1>3. ASSUME NEW t \in Handlers, Request(t) PROVE Disk'
  <2>1. t \in Threads
    BY DEF Threads
  <2>2. ASSUME NEW ip \in IPs, BanBegin(t, ip) PROVE Disk'
    <3>1. \A u \in Handlers : job[u].at = "unban.clear" => job'[u] = job[u]
      BY <1>2, <2>1, <2>2 DEF BanBegin, Accept, Idle, Threads
    <3>2. QED
      BY <1>1, <2>2, <3>1, ZenonT(40) DEF BanBegin
  <2>3. ASSUME NEW ip \in IPs, UnbanBegin(t, ip) PROVE Disk'
    <3>1. /\ \A u \in Handlers : job[u].at = "unban.clear" => job'[u] = job[u]
          /\ job'[t].at = "unban.clear" /\ job'[t].ip = ip
      BY <1>2, <2>1, <2>3 DEF UnbanBegin, Accept, Idle, Threads
    <3>2. \A i \in IPs : /\ mem'[i].strikes = mem[i].strikes
                         /\ i # ip => mem'[i] = mem[i]
      BY <1>2, <2>3 DEF UnbanBegin, Record
    <3>3. db' = db /\ rules' = rules /\ server' = server
      BY <2>3 DEF UnbanBegin
    <3>4. SameStrikes' /\ RulesHaveRecords'
      <4>1. ~Active(mem'[ip])
        BY <1>2, <2>3 DEF UnbanBegin, Active
      <4>2. QED
        BY <1>1, <3>2, <3>3, <4>1
    <3>5. ASSUME server # "down", NEW i \in IPs, Active(db[i])
          PROVE  \/ Active(mem'[i])
                 \/ \E u \in Handlers : job'[u].at = "unban.clear" /\ job'[u].ip = i
      BY <1>1, <3>1, <3>2, <3>5
    <3>6. QED
      BY <3>3, <3>4, <3>5
  <2>4. ASSUME NEW m \in Modes \cup {Nil}, NEW p \in Policies \cup {Nil},
               SettingsBegin(t, m, p)
        PROVE  Disk'
    <3>1. \A u \in Handlers : job[u].at = "unban.clear" => job'[u] = job[u]
      BY <1>2, <2>1, <2>4 DEF SettingsBegin, Accept, Idle, Threads
    <3>2. QED
      BY <1>1, <2>4, <3>1, ZenonT(40) DEF SettingsBegin
  <2>5. QED
    BY <1>3, <2>2, <2>3, <2>4 DEF Request
<1>4. ASSUME NEW t \in Threads, Work(t) PROVE Disk'
  BY <1>4, WorkDisk
<1>5. CASE ExpiryLoop
  <2>1. mem' = mem /\ db' = db /\ server' = server /\ job' = job
    BY <1>5 DEF ExpiryLoop, TickMode, TickCollect, TickUnblock
  <2>2. \A ip \in IPs : rules'[ip] > 0 => rules[ip] > 0
    BY <1>2, <1>5 DEF ExpiryLoop, TickMode, TickCollect, TickUnblock, WithoutOne
  <2>3. QED
    BY <1>1, <2>1, <2>2
<1>6. ASSUME NEW ip \in IPs, Lapse(ip) PROVE Disk'
  <2>1. rules' = rules /\ server' = server /\ job' = job
    BY <1>6 DEF Lapse
  <2>2. \A i \in IPs : mem'[i].strikes = mem[i].strikes /\ db'[i].strikes = db[i].strikes
    BY <1>2, <1>6, SMTT(30) DEF Lapse, LapseOf, Record
  <2>3. ASSUME server # "down", NEW i \in IPs, Active(db'[i])
        PROVE  /\ Active(db[i])
               /\ Active(mem[i]) => mem'[i] = mem[i] /\ db'[i] = db[i]
               /\ Active(mem'[i]) => Active(mem[i])
    <3>1. /\ mem[ip].strikes = db[ip].strikes
          /\ Active(mem[ip]) /\ Active(db[ip]) => mem[ip].ban = db[ip].ban
      BY <1>1, <2>3
    <3>2. /\ mem' = [mem EXCEPT ![ip] = LapseOf(@)]
          /\ db' = [db EXCEPT ![ip] = LapseOf(@)]
      BY <1>6, <3>1 DEF Lapse
    <3>3. CASE i = ip
      <4>1. db'[ip] = LapseOf(db[ip]) /\ mem'[ip] = LapseOf(mem[ip])
        BY <1>2, <3>2
      <4>2. db[ip].ban = "perm"
        BY <1>2, <2>3, <3>3, <4>1 DEF LapseOf, Active, Record
      <4>3. db'[ip] = db[ip] /\ Active(db[ip])
        BY <4>1, <4>2 DEF LapseOf, Active
      <4>4. CASE Active(mem[ip])
        <5>1. mem[ip].ban = "perm"
          BY <3>1, <4>2, <4>3, <4>4
        <5>2. QED
          BY <3>3, <4>1, <4>3, <4>4, <5>1 DEF LapseOf
      <4>5. CASE ~Active(mem[ip])
        <5>1. mem'[ip] = mem[ip]
          BY <4>1, <4>5 DEF LapseOf, Active
        <5>2. QED
          BY <3>3, <4>3, <4>5, <5>1
      <4>6. QED
        BY <4>4, <4>5
    <3>4. CASE i # ip
      <4>1. db'[i] = db[i] /\ mem'[i] = mem[i]
        BY <1>2, <3>2, <3>4
      <4>2. QED
        BY <2>3, <4>1
    <3>5. QED
      BY <3>3, <3>4
  <2>4. QED
    BY <1>1, <2>1, <2>2, <2>3 DEF Recorded
<1>7. CASE Start
  BY <1>1, <1>7 DEF Start
<1>8. CASE Stop
  BY <1>1, <1>2, <1>8 DEF Stop, NoRules
<1>9. CASE UNCHANGED vars
  BY <1>1, <1>9 DEF vars
<1>10. QED
  BY <1>3, <1>4, <1>5, <1>6, <1>7, <1>8, <1>9 DEF Next

\* Unless SQL statements fail, every DROP rule is about an IP with a row in the
\* table bans, for any interleaving of requests, ticks, saves and restarts.
THEOREM RulesAreRecorded == ASSUME ~DbMayFail PROVE Spec => []RulesHaveRecords
<1>1. DiskInv => RulesHaveRecords
  BY DEF DiskInv
<1>2. QED
  BY DiskInit, DiskStep, <1>1, PTL DEF Spec

\* Unless SQL statements fail, a lifted ban never comes back with a restart.
THEOREM LiftedBansStayLifted == ASSUME ~DbMayFail PROVE Spec => []DiskBanIsLive
<1>1. DiskInv => DiskBanIsLive
  BY DEF DiskInv
<1>2. QED
  BY DiskInit, DiskStep, <1>1, PTL DEF Spec

\* Unless SQL statements fail, nothing ever lowers the strikes of an IP, not
\* even a restart.
THEOREM StrikesAreKept == ASSUME ~DbMayFail PROVE Spec => StrikesNeverForgotten
<1> DEFINE Kept == \A ip \in IPs : Strikes'[ip] >= Strikes[ip]
<1>1. ASSUME DiskInv, DiskInv', [Next]_vars PROVE [Kept]_vars
  <2>1. /\ Shape /\ TypeOK /\ TypeOK' /\ SameStrikes /\ SameStrikes' /\ JobsMatchServer
    BY <1>1 DEF DiskInv, Shape
  <2>2. /\ \A ip \in IPs : mem[ip].strikes \in Nat /\ mem'[ip].strikes \in Nat
        /\ \A ip \in IPs : db[ip].strikes \in Nat /\ db'[ip].strikes \in Nat
    BY <2>1 DEF TypeOK, Record
  <2>3. ASSUME server' = server, \A ip \in IPs : mem'[ip].strikes >= mem[ip].strikes,
               server = "down" => db' = db \/ \A ip \in IPs : db'[ip].strikes = db[ip].strikes
        PROVE  Kept
    BY <2>2, <2>3 DEF Strikes
  <2>4. CASE \E t \in Handlers : Request(t)
    <3>a. mem' = mem \/ \E ip \in IPs : mem' = [mem EXCEPT ![ip].ban = "clear"]
      BY <2>4 DEF Request, BanBegin, UnbanBegin, SettingsBegin
    <3>b. ASSUME NEW i \in IPs, mem' = [mem EXCEPT ![i].ban = "clear"]
          PROVE  \A ip \in IPs : mem'[ip].strikes = mem[ip].strikes
      <4>1. mem \in [IPs -> Record]
        BY <2>1 DEF TypeOK
      <4>2. mem'[i].strikes = mem[i].strikes
        BY <3>b, <4>1 DEF Record
      <4>3. \A ip \in IPs : ip # i => mem'[ip] = mem[ip]
        BY <3>b, <4>1
      <4>4. QED
        BY <4>2, <4>3
    <3>1. \A ip \in IPs : mem'[ip].strikes = mem[ip].strikes
      BY <3>a, <3>b
    <3>2. server' = server /\ db' = db
      BY <2>4 DEF Request, BanBegin, UnbanBegin, SettingsBegin
    <3>3. QED
      BY <2>2, <2>3, <3>1, <3>2
  <2>5. ASSUME NEW t \in Threads, Work(t) PROVE Kept
    <3>1. \A ip \in IPs : mem'[ip].strikes >= mem[ip].strikes
      BY <2>1, <2>5, WorkCounts
    <3>2. server # "down"
      BY <2>1, <2>5, WorkBusy DEF JobsMatchServer, Threads
    <3>3. CASE server' = "down"
      <4>1. UNCHANGED <<mem, db>>
        BY <2>5, <3>2, <3>3, WorkMemDb DEF BanLock, UnbanClear
      <4>2. QED
        BY <2>1, <2>2, <3>2, <3>3, <4>1 DEF Strikes, SameStrikes
    <3>4. CASE server' # "down"
      BY <3>1, <3>2, <3>4 DEF Strikes
    <3>5. QED
      BY <3>3, <3>4
  <2>6. CASE ExpiryLoop
    BY <2>2, <2>3, <2>6 DEF ExpiryLoop, TickMode, TickCollect, TickUnblock
  <2>7. ASSUME NEW ip \in IPs, Lapse(ip) PROVE Kept
    <3>1. \A i \in IPs : mem'[i].strikes = mem[i].strikes /\ db'[i].strikes = db[i].strikes
      BY <2>1, <2>7 DEF Lapse, LapseOf, TypeOK, Record
    <3>2. QED
      BY <2>2, <2>3, <2>7, <3>1 DEF Lapse
  <2>8. CASE Start
    BY <2>2, <2>8 DEF Start, Strikes
  <2>9. CASE Stop
    BY <2>1, <2>2, <2>9 DEF Stop, Strikes, SameStrikes
  <2>10. QED
    BY <1>1, <2>4, <2>5, <2>6, <2>7, <2>8, <2>9 DEF Next
<1>2. QED
  BY DiskInit, DiskStep, <1>1, PTL DEF Spec, StrikesNeverForgotten

-----------------------------------------------------------------------------
(* Start-up                                                                *)

LEMMA BootInit == Init => BootInv
BY ShapeInit DEF Init, BootInv

\* A step of Boot that leaves the server booting.
LEMMA BootWork ==
    ASSUME BootInv, server = "booting", Work(Boot), server' = "booting"
    PROVE  /\ At(Boot, "sync.flush")' => cfg'.mode = "iptables"
           /\ At(Boot, "sync.list")' => cfg'.mode = "iptables" /\ rules' = NoRules
           /\ job'[Boot].at \in {"sync.next", "block.check", "block.append"} => BootProgress'
           /\ job'[Boot].at \in {"block.check", "block.append"} =>
                 job'[Boot].ip \notin job'[Boot].todo /\ ~IsWhitelisted(job[Boot].ip)'
<1> DEFINE Goal ==
           /\ At(Boot, "sync.flush")' => cfg'.mode = "iptables"
           /\ At(Boot, "sync.list")' => cfg'.mode = "iptables" /\ rules' = NoRules
           /\ job'[Boot].at \in {"sync.next", "block.check", "block.append"} => BootProgress'
           /\ job'[Boot].at \in {"block.check", "block.append"} =>
                 job'[Boot].ip \notin job'[Boot].todo /\ ~IsWhitelisted(job[Boot].ip)'
<1>1. /\ Boot \in Threads /\ Shape /\ TypeOK
      /\ job \in [Threads -> Job] /\ rules \in [IPs -> Nat]
      /\ job[Boot].op = "boot" /\ job[Boot].at \in BootLabels
      /\ job[Boot].todo \subseteq IPs
      /\ At(Boot, "sync.flush") => cfg.mode = "iptables"
      /\ At(Boot, "sync.list") => cfg.mode = "iptables" /\ rules = NoRules
      /\ job[Boot].at \in {"sync.next", "block.check", "block.append"} => BootProgress
      /\ job[Boot].at \in {"block.check", "block.append"} =>
            job[Boot].ip \notin job[Boot].todo /\ ~IsWhitelisted(job[Boot].ip)
  BY DEF BootInv, Shape, TypeOK, JobsMatchServer, Threads, Job
<1>2. ASSUME SyncErr(Boot) PROVE FALSE
  BY <1>1, <1>2 DEF SyncErr
<1>3. CASE SyncMode(Boot)
  <2>1. cfg.mode = "iptables" /\ cfg' = cfg /\ Goto(Boot, "sync.flush")
    BY <1>1, <1>3 DEF SyncMode, SyncOk
  <2>2. job'[Boot].at = "sync.flush"
    BY <1>1, <2>1 DEF Goto
  <2>3. QED
    BY <2>1, <2>2 DEF At
<1>4. CASE SyncFlush(Boot)
  <2>1. /\ cfg.mode = "iptables" /\ cfg' = cfg
        /\ rules' = NoRules /\ Goto(Boot, "sync.list")
    BY <1>1, <1>2, <1>4 DEF SyncFlush
  <2>2. job'[Boot].at = "sync.list"
    BY <1>1, <2>1 DEF Goto
  <2>3. NoRules' = NoRules
    BY DEF NoRules
  <2>4. QED
    BY <2>1, <2>2, <2>3 DEF At
<1>5. CASE SyncList(Boot)
  <2>1. /\ cfg' = cfg /\ mem' = mem /\ rules' = rules /\ rules = NoRules
        /\ cfg.mode = "iptables"
        /\ job'[Boot].at = "sync.next" /\ job'[Boot].todo = {ip \in IPs : Active(mem[ip])}
    BY <1>1, <1>5 DEF SyncList, At
  <2>2. BootProgress'
    BY <2>1 DEF BootProgress, BootTodo, NoRules
  <2>3. QED
    BY <2>1, <2>2 DEF At
<1>6. ASSUME NEW ip \in IPs, SyncSkip(Boot, ip) PROVE Goal
  <2>1. /\ cfg' = cfg /\ mem' = mem /\ rules' = rules /\ IsWhitelisted(ip)
        /\ job[Boot].at = "sync.next" /\ job'[Boot].at = "sync.next"
        /\ job'[Boot].todo = job[Boot].todo \ {ip}
    BY <1>1, <1>6 DEF SyncSkip, At
  <2>2. BootProgress'
    BY <1>1, <2>1 DEF BootProgress, BootTodo, IsWhitelisted
  <2>3. QED
    BY <2>1, <2>2 DEF At
<1>7. ASSUME NEW ip \in IPs, SyncBlock(Boot, ip) PROVE Goal
  <2>1. /\ cfg' = cfg /\ mem' = mem /\ rules' = rules /\ ~IsWhitelisted(ip)
        /\ job[Boot].at = "sync.next" /\ job'[Boot].at = "block.check"
        /\ job'[Boot].todo = job[Boot].todo \ {ip} /\ job'[Boot].ip = ip
        /\ ip \in job[Boot].todo
    BY <1>1, <1>7 DEF SyncBlock, At
  <2>2. BootTodo' = BootTodo
    BY <2>1 DEF BootTodo
  <2>3. BootProgress'
    BY <1>1, <2>1, <2>2 DEF BootProgress, IsWhitelisted
  <2>4. job'[Boot].ip \notin job'[Boot].todo /\ ~IsWhitelisted(job[Boot].ip)'
    BY <2>1 DEF IsWhitelisted
  <2>5. QED
    BY <2>1, <2>3, <2>4 DEF At
<1>8. CASE BlockCheck(Boot)
  <2>1. /\ cfg' = cfg /\ mem' = mem /\ rules' = rules /\ job[Boot].at = "block.check"
    BY <1>8 DEF BlockCheck, At
  <2>2. BootProgress /\ rules[job[Boot].ip] = 0
    BY <1>1, <2>1 DEF BootProgress, BootTodo
  <2>3. Goto(Boot, "block.append")
    BY <1>1, <1>2, <1>8, <2>2 DEF BlockCheck, BlockErr
  <2>4. /\ job'[Boot].at = "block.append"
        /\ job'[Boot].todo = job[Boot].todo /\ job'[Boot].ip = job[Boot].ip
    BY <1>1, <2>3 DEF Goto
  <2>5. BootProgress'
    BY <2>1, <2>2, <2>4 DEF BootProgress, BootTodo, IsWhitelisted
  <2>6. job'[Boot].ip \notin job'[Boot].todo /\ ~IsWhitelisted(job[Boot].ip)'
    BY <1>1, <2>1, <2>4 DEF IsWhitelisted
  <2>7. QED
    BY <2>4, <2>5, <2>6 DEF At
<1>9. CASE BlockAppend(Boot)
  <2> DEFINE ip == job[Boot].ip
  <2>1. /\ cfg' = cfg /\ mem' = mem /\ job[Boot].at = "block.append"
        /\ rules' = [rules EXCEPT ![ip] = @ + 1]
        /\ job' = [job EXCEPT ![Boot].at = "sync.next", ![Boot].ip = Nil]
    BY <1>1, <1>2, <1>9 DEF BlockAppend, BlockOk, BlockErr, At
  <2>2. job'[Boot].at = "sync.next" /\ job'[Boot].todo = job[Boot].todo
    BY <1>1, <2>1
  <2>3. /\ ip \in IPs /\ Recorded(mem[ip]) /\ ~IsWhitelisted(ip) /\ ip \notin job[Boot].todo
    BY <1>1, <2>1 DEF Shape, JobsHaveTargets, BlocksAreCounted, Targeted, Blocking
  <2>4. BootProgress /\ rules[ip] = 0
    BY <1>1, <2>1 DEF BootProgress, BootTodo
  <2>5. rules'[ip] = 1 /\ \A i \in IPs : i # ip => rules'[i] = rules[i]
    BY <1>1, <2>1, <2>3, <2>4
  <2>6. BootTodo = job[Boot].todo \cup {ip} /\ BootTodo' = job[Boot].todo
    BY <2>1, <2>2 DEF BootTodo
  <2>7. BootProgress'
    BY <1>1, <2>1, <2>3, <2>4, <2>5, <2>6 DEF BootProgress, IsWhitelisted
  <2>8. QED
    BY <2>2, <2>7 DEF At
<1>10. CASE SyncDone(Boot)
  BY <1>1, <1>10 DEF SyncDone, SyncOk
<1>11. ~(BanPolicy(Boot) \/ BanLock(Boot) \/ BanMode(Boot) \/ UnbanClear(Boot) \/ UnbanUnblock(Boot))
  BY <1>1 DEF BanPolicy, BanLock, BanMode, UnbanClear, UnbanUnblock, At, BootLabels
<1>12. ~(SettingsSave(Boot) \/ SettingsRoute(Boot) \/ Flush(Boot) \/ SettingsUndo(Boot))
  BY <1>1 DEF SettingsSave, SettingsRoute, Flush, SettingsUndo, At, BootLabels
<1>13. QED
  BY <1>3, <1>4, <1>5, <1>6, <1>7, <1>8, <1>9, <1>10, <1>11, <1>12 DEF Work

LEMMA BootStep == BootInv /\ [Next]_vars => BootInv'
<1> SUFFICES ASSUME BootInv, [Next]_vars PROVE BootInv'
  OBVIOUS
<1> DEFINE Booted ==
           /\ At(Boot, "sync.flush") => cfg.mode = "iptables"
           /\ At(Boot, "sync.list") => cfg.mode = "iptables" /\ rules = NoRules
           /\ job[Boot].at \in {"sync.next", "block.check", "block.append"} => BootProgress
           /\ job[Boot].at \in {"block.check", "block.append"} =>
                 job[Boot].ip \notin job[Boot].todo /\ ~IsWhitelisted(job[Boot].ip)
           Quiescent == server # "up" => tick = TickIdle
<1>1. Shape /\ TypeOK /\ JobsMatchServer /\ Quiescent /\ (server = "booting" => Booted)
  BY DEF BootInv, Shape
<1>2. Shape'
  BY ShapeStep DEF BootInv
<1>3. SUFFICES Quiescent' /\ (server' = "booting" => Booted')
  BY <1>2 DEF BootInv
<1>4. ASSUME server = "booting" /\ UNCHANGED <<cfg, mem, rules, job>> PROVE Booted'
  BY <1>1, <1>4 DEF At, BootProgress, BootTodo, IsWhitelisted, NoRules
<1>5. CASE \E t \in Handlers : Request(t)
  <2>1. server = "up" /\ server' = server
    BY <1>5 DEF Request, Accept, BanBegin, UnbanBegin, SettingsBegin
  <2>2. QED
    BY <2>1
<1>6. ASSUME NEW t \in Threads, Work(t)
      PROVE  Quiescent' /\ (server' = "booting" => Booted')
  <2>1. CASE t = Boot
    <3>1. server = "booting" /\ tick' = tick
      BY <1>1, <1>6, <2>1, WorkBusy, WorkTick DEF JobsMatchServer
    <3>2. QED
      BY <1>1, <1>6, <2>1, <3>1, BootWork
  <2>2. CASE t \in Handlers
    <3>1. server = "up" /\ server' = server
      <4>1. OwnJob(t) /\ t # Boot /\ job[t] # Idle
        BY <1>1, <1>6, <2>2, WorkBusy, WorkOwnJob, BanAssumption
      <4>2. QED
        BY <1>1, <2>2, <4>1 DEF JobsMatchServer, OwnJob
    <3>2. QED
      BY <3>1
  <2>3. QED
    BY <2>1, <2>2 DEF Threads
<1>7. CASE ExpiryLoop
  <2>1. server = "up" /\ server' = server
    BY <1>1, <1>7 DEF ExpiryLoop, TickMode, TickCollect, TickUnblock, TickIdle
  <2>2. QED
    BY <2>1
<1>8. ASSUME NEW ip \in IPs, Lapse(ip)
      PROVE  Quiescent' /\ (server' = "booting" => Booted')
  <2>1. UNCHANGED <<cfg, rules, server, job, tick>>
    BY <1>8 DEF Lapse
  <2>2. \A i \in IPs : /\ mem'[i].strikes = mem[i].strikes
                       /\ Active(mem'[i]) => Active(mem[i])
    <3>1. mem \in [IPs -> Record] /\ (mem' = mem \/ mem' = [mem EXCEPT ![ip] = LapseOf(@)])
      BY <1>1, <1>8 DEF Lapse, TypeOK
    <3>2. \A r \in Record : /\ LapseOf(r).strikes = r.strikes
                            /\ Active(LapseOf(r)) => Active(r)
      BY DEF LapseOf, Record, Active
    <3>3. QED
      BY <3>1, <3>2
  <2>3. BootProgress => BootProgress'
    BY <2>1, <2>2 DEF BootProgress, BootTodo, IsWhitelisted, Recorded
  <2>4. QED
    BY <1>1, <2>1, <2>3 DEF At, IsWhitelisted, NoRules
<1>9. CASE Start
  <2>1. job'[Boot].at = "sync.mode" /\ tick' = TickIdle
    BY <1>1, <1>9 DEF Start, TypeOK, Threads
  <2>2. QED
    BY <2>1 DEF At
<1>10. CASE Stop
  BY <1>10 DEF Stop
<1>11. CASE UNCHANGED vars
  BY <1>1, <1>4, <1>11 DEF vars
<1>12. QED
  BY <1>5, <1>6, <1>7, <1>8, <1>9, <1>10, <1>11 DEF Next

\* Whatever chain an earlier process left, the server never starts serving in
\* iptables mode before the chain holds the rules of all active bans, once
\* each, and none that nothing would delete; failing SQL and iptables commands
\* included.
THEOREM BootIsEnforced == Spec => BootEnforcesBans
<1> DEFINE Enforced ==
       server = "booting" /\ server' = "up" /\ cfg.mode = "iptables" =>
         \A ip \in IPs :
            /\ Active(mem[ip]) /\ ~IsWhitelisted(ip) => rules'[ip] = 1
            /\ rules'[ip] > 0 => rules'[ip] = 1 /\ Recorded(mem[ip]) /\ ~IsWhitelisted(ip)
<1>1. ASSUME BootInv, [Next]_vars PROVE [Enforced]_vars
  <2> SUFFICES ASSUME server = "booting", server' = "up", cfg.mode = "iptables"
               PROVE  Enforced
    OBVIOUS
  <2>1. /\ JobsMatchServer /\ tick = TickIdle /\ job[Boot].op = "boot"
        /\ job[Boot].at \in BootLabels
        /\ job[Boot].at = "sync.next" => BootProgress
    BY <1>1 DEF BootInv, Shape, JobsMatchServer
  <2>2. PICK t \in Threads : Work(t)
    BY <1>1, <2>1 DEF Next, vars, Request, Accept, BanBegin, UnbanBegin, SettingsBegin,
       ExpiryLoop, TickMode, TickCollect, TickUnblock, TickIdle, Lapse, Start, Stop
  <2>3. t = Boot
    BY <1>1, <2>1, <2>2, WorkBusy DEF JobsMatchServer, Threads
  <2>4. SyncDone(Boot)
    BY <2>1, <2>2, <2>3 DEF Work, BanPolicy, BanLock, BanMode, BlockCheck, BlockAppend,
       BlockOk, BlockErr, SyncErr, UnbanClear, UnbanUnblock, SyncMode, SyncFlush, SyncList,
       SyncSkip, SyncBlock, SettingsSave, SettingsRoute, Flush, SettingsUndo
  <2>5. BootProgress /\ BootTodo = {} /\ rules' = rules
    BY <2>1, <2>4 DEF SyncDone, At, BootTodo
  <2>6. QED
    BY <2>5 DEF BootProgress
<1>2. QED
  BY BootInit, BootStep, <1>1, PTL DEF Spec, BootEnforcesBans

=============================================================================
