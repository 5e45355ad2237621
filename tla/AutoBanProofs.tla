--------------------------- MODULE AutoBanProofs ---------------------------
(***************************************************************************)
(* Proofs about AutoBan for any addresses, services, goroutines, settings, *)
(* durations and waiting times.                                            *)
(***************************************************************************)
EXTENDS AutoBan, SequenceTheorems, FiniteSetTheorems, WellFoundedInduction, TLAPS

-----------------------------------------------------------------------------
(* The inductive invariant                                                 *)

\* What the proofs need of TypeOK; TypeCorrect adds the rest.
Types ==
    /\ clock \in Nat /\ policy \in Policies
    /\ windows \in [IPs -> Seq(Nat)]
    /\ unspent \in [IPs -> Nat]
    /\ job \in [Handlers -> Job]

\* A goroutine that works has an IP, those in CheckAutoBan have its settings,
\* and one that waits for bm.mu has not waited for long since it took the time.
JobShape ==
    \A t \in Handlers :
        /\ job[t].op = "none" => job[t].at = "idle"
        /\ job[t].op # "none" => job[t].ip \in IPs
        /\ job[t].at \in {"white", "banned", "locate", "judge", "window", "track"} =>
              job[t].op = "conn"
        /\ job[t].at \in {"judge", "window"} => job[t].ab \in Policies
        /\ At(t, "window") \/ At(t, "ban.lock") =>
              job[t].stamp <= clock /\ clock <= job[t].stamp + MaxWait

\* The times of an IP are in order but for the wait, and past.
NearlySorted ==
    \A ip \in IPs :
        /\ \A i \in 1 .. Len(windows[ip]) : windows[ip][i] <= clock
        /\ \A i, j \in 1 .. Len(windows[ip]) : i < j => windows[ip][i] <= windows[ip][j] + MaxWait

\* Where a request can be that was exempt from the start: a manual ban only
\* ever asks whether it may ban.
ExemptGoesRound ==
    \A t \in Handlers : since[t].exempt =>
        \/ job[t].at \in {"white", "track"}
        \/ At(t, "ban.white") /\ job[t].op = "ban"

\* What Watch remembers holds now as well.
WatchIsCurrent ==
    \A t \in Handlers :
        /\ since[t].exempt => Whitelists(policy, job[t].ip, job[t].module)
        /\ since[t].banned => /\ ~Whitelists(policy, job[t].ip, job[t].module)
                              /\ \A now \in Soon : active(bans[job[t].ip], now)

Inv ==
    /\ Types /\ JobShape /\ NearlySorted /\ CountsSpentOnce /\ WindowsAreBounded
    /\ WatchIsCurrent /\ ExemptGoesRound /\ BannedStaysOut

-----------------------------------------------------------------------------
(* What trimming a list of times does                                      *)

LEMMA TrimmedFacts ==
    ASSUME NEW v \in Seq(Nat), NEW cutoff \in Int, NEW w \in Trimmed(v, cutoff)
    PROVE  \E s \in 1 .. Len(v) :
              /\ w \in Seq(Nat) /\ Len(w) = Len(v) - s + 1
              /\ \A i \in 1 .. Len(w) : w[i] = v[s + i - 1]
              /\ v[s] >= cutoff
              /\ \A j \in 1 .. s - 1 : v[j] < cutoff
<1>1. PICK s \in 1 .. Len(v) :
         /\ w = SubSeq(v, s, Len(v))
         /\ v[s] >= cutoff
         /\ \A j \in 1 .. s - 1 : v[j] < cutoff
  BY DEF Trimmed
<1>2. Len(v) \in Nat /\ \A i \in s .. Len(v) : v[i] \in Nat
  OBVIOUS
<1>3. /\ w \in Seq(Nat) /\ Len(w) = Len(v) - s + 1
      /\ \A i \in 1 .. Len(v) - s + 1 : w[i] = v[s + i - 1]
  BY <1>1, <1>2, SubSeqProperties
<1>4. QED
  BY <1>1, <1>3

LEMMA TrimmedIsUnique ==
    ASSUME NEW v \in Seq(Nat), NEW cutoff \in Int,
           NEW w \in Trimmed(v, cutoff), NEW x \in Trimmed(v, cutoff)
    PROVE  w = x
<1>1. PICK s \in 1 .. Len(v) : w = SubSeq(v, s, Len(v)) /\ v[s] >= cutoff
                               /\ \A j \in 1 .. s - 1 : v[j] < cutoff
  BY DEF Trimmed
<1>2. PICK r \in 1 .. Len(v) : x = SubSeq(v, r, Len(v)) /\ v[r] >= cutoff
                               /\ \A j \in 1 .. r - 1 : v[j] < cutoff
  BY DEF Trimmed
<1>3. v[s] \in Nat /\ v[r] \in Nat
  OBVIOUS
<1>4. s = r
  <2>1. ASSUME s < r PROVE FALSE
    <3>1. s \in 1 .. r - 1
      BY <2>1
    <3>2. v[s] < cutoff /\ v[s] >= cutoff
      BY <1>1, <1>2, <3>1
    <3>3. QED
      BY <1>3, <3>2
  <2>2. ASSUME r < s PROVE FALSE
    <3>1. r \in 1 .. s - 1
      BY <2>2
    <3>2. v[r] < cutoff /\ v[r] >= cutoff
      BY <1>1, <1>2, <3>1
    <3>3. QED
      BY <1>3, <3>2
  <2>3. s \in Int /\ r \in Int
    OBVIOUS
  <2>4. QED
    BY <2>1, <2>2, <2>3
<1>5. QED
  BY <1>1, <1>2, <1>4

\* The list that Slide trims, and what comes out of it.
LEMMA RecentFacts ==
    ASSUME Inv, NEW t \in Handlers, At(t, "window"), NEW w \in Recent(t)
    PROVE  /\ w \in Seq(Nat)
           /\ Len(w) \in 1 .. Len(windows[job[t].ip]) + 1
           /\ \A i \in 1 .. Len(w) : w[i] <= clock
           /\ \A i, j \in 1 .. Len(w) : i < j => w[i] <= w[j] + MaxWait
           /\ \A i \in 1 .. Len(w) : w[i] >= job[t].stamp - job[t].ab.seconds - MaxWait
<1> DEFINE ip == job[t].ip
           v == Append(windows[ip], job[t].stamp)
           cutoff == job[t].stamp - job[t].ab.seconds
<1>1. /\ ip \in IPs /\ job[t].stamp \in Nat
      /\ job[t].stamp <= clock /\ clock <= job[t].stamp + MaxWait
      /\ job[t].ab \in Policies
  BY DEF Inv, Types, JobShape, Job, At, Labels
<1>2. windows[ip] \in Seq(Nat) /\ Len(windows[ip]) \in Nat /\ MaxWait \in Nat /\ clock \in Nat
  BY <1>1, AutoBanAssumption DEF Inv, Types
<1>3. cutoff \in Int /\ job[t].ab.seconds \in Nat
  BY <1>1, AutoBanAssumption DEF Policy
<1>4. /\ v \in Seq(Nat) /\ Len(v) = Len(windows[ip]) + 1
      /\ v[Len(v)] = job[t].stamp
      /\ \A i \in 1 .. Len(windows[ip]) : v[i] = windows[ip][i]
  BY <1>1, <1>2
<1> HIDE DEF v, cutoff
<1>5. \A i \in 1 .. Len(v) : v[i] \in Nat /\ v[i] <= clock
  <2>1. \A i \in 1 .. Len(windows[ip]) : windows[ip][i] <= clock
    BY <1>1 DEF Inv, NearlySorted
  <2> SUFFICES ASSUME NEW i \in 1 .. Len(v) PROVE v[i] \in Nat /\ v[i] <= clock
    OBVIOUS
  <2>2. CASE i = Len(v)
    BY <2>2, <1>1, <1>4
  <2>3. CASE i # Len(v)
    <3>1. i \in 1 .. Len(windows[ip])
      BY <2>3, <1>2, <1>4
    <3>2. windows[ip][i] \in Nat
      BY <3>1, <1>2
    <3>3. QED
      BY <3>1, <3>2, <2>1, <1>4
  <2>4. QED
    BY <2>2, <2>3
<1>6. \A i, j \in 1 .. Len(v) : i < j => v[i] <= v[j] + MaxWait
  <2>1. \A i, j \in 1 .. Len(windows[ip]) : i < j => windows[ip][i] <= windows[ip][j] + MaxWait
    BY <1>1 DEF Inv, NearlySorted
  <2> SUFFICES ASSUME NEW i \in 1 .. Len(v), NEW j \in 1 .. Len(v), i < j
               PROVE  v[i] <= v[j] + MaxWait
    OBVIOUS
  <2>2. CASE j = Len(v)
    BY <2>2, <1>1, <1>2, <1>4, <1>5, SMTT(30)
  <2>3. CASE j # Len(v)
    <3> DEFINE n == Len(windows[ip])
    <3>1. n \in Nat /\ Len(v) = n + 1
      BY <1>2, <1>4
    <3> HIDE DEF n
    <3>2. i \in 1 .. n /\ j \in 1 .. n
      BY <2>3, <3>1
    <3>3. i \in 1 .. Len(windows[ip]) /\ j \in 1 .. Len(windows[ip])
      BY <3>2 DEF n
    <3>4. v[i] = windows[ip][i] /\ v[j] = windows[ip][j]
      BY <3>3, <1>4
    <3>5. QED
      BY <3>3, <3>4, <2>1
  <2>4. QED
    BY <2>2, <2>3
<1>7. PICK s \in 1 .. Len(v) :
         /\ w \in Seq(Nat) /\ Len(w) = Len(v) - s + 1
         /\ \A i \in 1 .. Len(w) : w[i] = v[s + i - 1]
         /\ v[s] >= cutoff
  <2>1. w \in Trimmed(v, cutoff)
    BY DEF Recent, v, cutoff
  <2>2. QED
    BY <2>1, <1>3, <1>4, TrimmedFacts
<1>8. \A i \in 1 .. Len(w) : s + i - 1 \in s .. Len(v) /\ s + i - 1 \in 1 .. Len(v)
  BY <1>7, <1>2, <1>4
<1>9. \A i \in s .. Len(v) : v[i] >= cutoff - MaxWait
  <2> SUFFICES ASSUME NEW i \in s .. Len(v) PROVE v[i] >= cutoff - MaxWait
    OBVIOUS
  <2>1. i \in 1 .. Len(v) /\ s \in 1 .. Len(v) /\ (s = i \/ s < i)
    BY <1>2, <1>4
  <2>2. v[i] \in Nat /\ v[s] \in Nat /\ v[s] >= cutoff
    BY <2>1, <1>5, <1>7
  <2>3. CASE i = s
    BY <2>2, <2>3, <1>2, <1>3
  <2>4. CASE s < i
    <3>1. v[s] <= v[i] + MaxWait
      BY <2>1, <2>4, <1>6
    <3>2. QED
      BY <3>1, <2>2, <1>2, <1>3
  <2>5. QED
    BY <2>1, <2>3, <2>4
<1>10. /\ w \in Seq(Nat) /\ Len(w) \in 1 .. Len(windows[ip]) + 1
  <2> DEFINE n == Len(windows[ip])
  <2>1. n \in Nat /\ Len(v) = n + 1
    BY <1>2, <1>4
  <2> HIDE DEF n
  <2>2. Len(w) = n + 1 - s + 1 /\ s \in 1 .. n + 1
    BY <2>1, <1>7
  <2>3. Len(w) \in 1 .. n + 1
    BY <2>1, <2>2
  <2>4. QED
    BY <2>3, <1>7 DEF n
<1>11. \A i \in 1 .. Len(w) : w[i] <= clock
  BY <1>7, <1>8, <1>5
<1>12. \A i, j \in 1 .. Len(w) : i < j => w[i] <= w[j] + MaxWait
  <2> SUFFICES ASSUME NEW i \in 1 .. Len(w), NEW j \in 1 .. Len(w), i < j
               PROVE  w[i] <= w[j] + MaxWait
    OBVIOUS
  <2>1. /\ s + i - 1 \in 1 .. Len(v) /\ s + j - 1 \in 1 .. Len(v)
        /\ s + i - 1 < s + j - 1
    BY <1>7, <1>8
  <2>2. v[s + i - 1] <= v[s + j - 1] + MaxWait
    BY <2>1, <1>6
  <2>3. QED
    BY <2>2, <1>7
<1>13. \A i \in 1 .. Len(w) : w[i] >= job[t].stamp - job[t].ab.seconds - MaxWait
  BY <1>7, <1>8, <1>9 DEF cutoff
<1>14. QED
  BY <1>10, <1>11, <1>12, <1>13

LEMMA RecentIsUnique ==
    ASSUME Inv, NEW t \in Handlers, At(t, "window"), NEW w \in Recent(t), NEW x \in Recent(t)
    PROVE  w = x
<1>1. /\ job[t].ip \in IPs /\ job[t].stamp \in Nat /\ job[t].ab \in Policies
  BY DEF Inv, Types, JobShape, Job, At, Labels
<1>2. job[t].ab.seconds \in Nat
  BY <1>1, AutoBanAssumption DEF Policy
<1>3. Append(windows[job[t].ip], job[t].stamp) \in Seq(Nat)
  BY <1>1 DEF Inv, Types
<1>4. job[t].stamp - job[t].ab.seconds \in Int
  BY <1>1, <1>2
<1>5. QED
  BY <1>3, <1>4, TrimmedIsUnique DEF Recent

-----------------------------------------------------------------------------
(* Types and the shape of jobs                                             *)

\* A step of t that leaves it with a well-formed job.
JobMoves(t) ==
    \E j \in Job :
        /\ job' = [job EXCEPT ![t] = j]
        /\ j.op = "none" => j.at = "idle"
        /\ j.op # "none" => j.ip \in IPs
        /\ j.at \in {"white", "banned", "locate", "judge", "window", "track"} => j.op = "conn"
        /\ j.at \in {"judge", "window"} => j.ab \in Policies
        /\ j.at \in {"window", "ban.lock"} => j.stamp = clock

LEMMA GotoMoves ==
    ASSUME Types, JobShape, NEW t \in Handlers, job[t].at # "idle",
           NEW l \in Labels \ {"idle", "judge", "window", "ban.lock"}, Goto(t, l),
           l \in {"white", "banned", "locate", "track"} => job[t].op = "conn"
    PROVE  JobMoves(t)
<1> DEFINE j == [job[t] EXCEPT !.at = l]
<1>1. job[t] \in Job
  BY DEF Types
<1>2. j \in Job
  BY <1>1 DEF Job
<1>3. job' = [job EXCEPT ![t] = j]
  BY DEF Goto, Types
<1>4. j.at = l /\ j.op = job[t].op /\ j.ip = job[t].ip
  BY <1>1 DEF Job
<1>5. job[t].op # "none" /\ job[t].ip \in IPs
  BY DEF JobShape
<1> HIDE DEF j
<1>6. QED
  BY <1>2, <1>3, <1>4, <1>5 DEF JobMoves

LEMMA FinishMoves == ASSUME NEW t, Finish(t) PROVE JobMoves(t)
<1>1. Idle \in Job /\ Idle.op = "none" /\ Idle.at = "idle"
  BY DEF Idle, Job, Labels
<1>2. QED
  BY <1>1 DEF Finish, JobMoves

LEMMA HandleMoves ==
    ASSUME Types, JobShape, NEW t \in Handlers, Handle(t)
    PROVE  JobMoves(t)
<1> USE DEF At
<1>1. job[t] \in Job
  BY DEF Types
<1>2. job[t].at # "idle" => job[t].op # "none" /\ job[t].ip \in IPs
  BY DEF JobShape
<1>3. ASSUME NEW ip \in IPs, NEW module \in Modules, NewUserConn(t, ip, module)
      PROVE  JobMoves(t)
  <2> DEFINE j == [Idle EXCEPT !.at = "white", !.op = "conn",
                     !.sync = (mode = "plugin"), !.ip = ip, !.module = module]
  <2>1. j \in Job /\ j.op = "conn" /\ j.ip = ip /\ j.at = "white"
    BY DEF Idle, Job, Labels
  <2> HIDE DEF j
  <2>2. QED
    BY <1>3, <2>1 DEF NewUserConn, JobMoves, j
<1>4. ASSUME NEW ip \in IPs, ManualBan(t, ip) PROVE JobMoves(t)
  <2> DEFINE j == [Idle EXCEPT !.at = "ban.white", !.op = "ban", !.ip = ip]
  <2>1. j \in Job /\ j.op = "ban" /\ j.ip = ip /\ j.at = "ban.white"
    BY DEF Idle, Job, Labels
  <2> HIDE DEF j
  <2>2. QED
    BY <1>4, <2>1 DEF ManualBan, JobMoves, j
<1>5. CASE CheckWhitelist(t)
  BY <1>5, GotoMoves DEF CheckWhitelist, Labels, JobShape
<1>6. CASE CheckBan(t)
  BY <1>6, GotoMoves, FinishMoves DEF CheckBan, Labels, JobShape
<1>7. ASSUME NEW country \in Countries, NEW known \in BOOLEAN, Locate(t, country, known)
      PROVE  JobMoves(t)
  <2>1. CASE Goto(t, "track")
    BY <1>7, <2>1, GotoMoves DEF Locate, Labels, JobShape
  <2>2. CASE job' = [job EXCEPT ![t].at = "judge", ![t].ab = policy]
    <3> DEFINE j == [job[t] EXCEPT !.at = "judge", !.ab = policy]
    <3>1. j \in Job /\ j.op = job[t].op /\ j.ip = job[t].ip /\ j.at = "judge" /\ j.ab = policy
      BY <1>1 DEF Job, Labels, Types
    <3>2. job' = [job EXCEPT ![t] = j]
      BY <2>2 DEF Types
    <3>3. job[t].op = "conn" /\ policy \in Policies
      BY <1>7 DEF Locate, JobShape, Types
    <3> HIDE DEF j
    <3>4. QED
      BY <1>2, <1>7, <3>1, <3>2, <3>3 DEF JobMoves, Locate
  <2>3. QED
    BY <1>7, <2>1, <2>2 DEF Locate
<1>8. CASE Judge(t)
  <2>1. job[t].op = "conn" /\ job[t].ab \in Policies
    BY <1>8 DEF Judge, JobShape
  <2>2. CASE IsWhitelisted(t)
    <3> DEFINE j == [job[t] EXCEPT !.at = "track", !.ab = Nil]
    <3>1. j \in Job /\ j.op = job[t].op /\ j.ip = job[t].ip /\ j.at = "track"
      BY <1>1 DEF Job, Labels
    <3>2. job' = [job EXCEPT ![t] = j]
      BY <1>8, <2>2 DEF Judge, Types
    <3> HIDE DEF j
    <3>3. QED
      BY <1>2, <1>8, <2>1, <3>1, <3>2 DEF JobMoves, Judge
  <2>3. CASE ~IsWhitelisted(t)
    <3> DEFINE j == [job[t] EXCEPT !.at = "window", !.stamp = clock]
    <3>1. /\ j \in Job /\ j.op = job[t].op /\ j.ip = job[t].ip /\ j.at = "window"
          /\ j.ab = job[t].ab /\ j.stamp = clock
      BY <1>1 DEF Job, Labels, Types
    <3>2. job' = [job EXCEPT ![t] = j]
      BY <1>8, <2>3 DEF Judge, Types
    <3> HIDE DEF j
    <3>3. QED
      BY <1>2, <1>8, <2>1, <3>1, <3>2 DEF JobMoves, Judge
  <2>4. QED
    BY <2>2, <2>3
<1>9. CASE Slide(t)
  <2>1. CASE job' = [job EXCEPT ![t].at = "track", ![t].ab = Nil, ![t].stamp = 0]
    <3> DEFINE j == [job[t] EXCEPT !.at = "track", !.ab = Nil, !.stamp = 0]
    <3>1. j \in Job /\ j.op = job[t].op /\ j.ip = job[t].ip /\ j.at = "track"
      BY <1>1 DEF Job, Labels
    <3>2. job' = [job EXCEPT ![t] = j]
      BY <2>1 DEF Types
    <3> HIDE DEF j
    <3>3. QED
      BY <1>2, <1>9, <3>1, <3>2 DEF JobMoves, Slide, JobShape
  <2>2. CASE job' = [job EXCEPT ![t].at = "ban.white", ![t].ab = Nil, ![t].stamp = 0,
                       ![t].module = NoModule]
    <3> DEFINE j == [job[t] EXCEPT !.at = "ban.white", !.ab = Nil, !.stamp = 0, !.module = NoModule]
    <3>1. j \in Job /\ j.op = job[t].op /\ j.ip = job[t].ip /\ j.at = "ban.white"
      BY <1>1 DEF Job, Labels
    <3>2. job' = [job EXCEPT ![t] = j]
      BY <2>2 DEF Types
    <3> HIDE DEF j
    <3>3. QED
      BY <1>2, <1>9, <3>1, <3>2 DEF JobMoves, Slide, JobShape
  <2>3. QED
    BY <1>9, <2>1, <2>2 DEF Slide
<1>10. CASE BanWhite(t)
  BY <1>10, GotoMoves, FinishMoves DEF BanWhite, Labels
<1>11. CASE BanStamp(t)
  <2> DEFINE j == [job[t] EXCEPT !.at = "ban.lock", !.stamp = clock, !.perm = policy.perm]
  <2>1. policy.perm \in BOOLEAN
    BY AutoBanAssumption DEF Types, Policy
  <2>2. j \in Job /\ j.op = job[t].op /\ j.ip = job[t].ip /\ j.at = "ban.lock" /\ j.stamp = clock
    BY <1>1, <2>1 DEF Job, Labels, Types
  <2>3. job' = [job EXCEPT ![t] = j]
    BY <1>11 DEF BanStamp, Types
  <2> HIDE DEF j
  <2>4. QED
    BY <1>2, <1>11, <2>2, <2>3 DEF JobMoves, BanStamp
<1>12. CASE BanLock(t)
  <2>1. CASE Finish(t)
    BY <2>1, FinishMoves
  <2>2. CASE job' = [job EXCEPT ![t].at = "count", ![t].stamp = 0, ![t].perm = FALSE]
    <3> DEFINE j == [job[t] EXCEPT !.at = "count", !.stamp = 0, !.perm = FALSE]
    <3>1. j \in Job /\ j.op = job[t].op /\ j.ip = job[t].ip /\ j.at = "count"
      BY <1>1 DEF Job, Labels
    <3>2. job' = [job EXCEPT ![t] = j]
      BY <2>2 DEF Types
    <3> HIDE DEF j
    <3>3. QED
      BY <1>2, <1>12, <3>1, <3>2 DEF JobMoves, BanLock
  <2>3. QED
    BY <1>12, <2>1, <2>2 DEF BanLock
<1>13. CASE Count(t)
  BY <1>13, GotoMoves, FinishMoves DEF Count, Labels
<1>14. CASE RejectIP(t) \/ TrackAllowed(t)
  BY <1>14, FinishMoves DEF RejectIP, TrackAllowed
<1>15. QED
  BY <1>3, <1>4, <1>5, <1>6, <1>7, <1>8, <1>9, <1>10, <1>11, <1>12, <1>13, <1>14 DEF Handle

-----------------------------------------------------------------------------
(* The lists of times                                                      *)

\* No action but Slide touches the lists.
LEMMA OthersLeaveWindows ==
    ASSUME NEW t \in Handlers, Handle(t)
    PROVE  Slide(t) \/ UNCHANGED <<windows, unspent>>
BY DEF Handle, NewUserConn, ManualBan, CheckWhitelist, CheckBan, Locate, Judge, BanWhite,
       BanStamp, BanLock, Count, RejectIP, TrackAllowed, histories

LEMMA HandleFrame ==
    ASSUME NEW t \in Handlers, Handle(t)
    PROVE  UNCHANGED <<clock, policy>>
BY DEF Handle, NewUserConn, ManualBan, CheckWhitelist, CheckBan, Locate, Judge, Slide, BanWhite,
       BanStamp, BanLock, Count, RejectIP, TrackAllowed

\* What Slide makes of one list.
LEMMA SlideWindows ==
    ASSUME Inv, NEW t \in Handlers, Slide(t)
    PROVE  LET ip == job[t].ip IN
           /\ ip \in IPs
           /\ \E v \in Seq(Nat), n \in Nat :
                /\ windows' = [windows EXCEPT ![ip] = v]
                /\ unspent' = [unspent EXCEPT ![ip] = n]
                /\ Len(v) <= n
                /\ \E p \in Policies : Len(v) < p.count
                /\ \A i \in 1 .. Len(v) : v[i] <= clock
                /\ \A i, j \in 1 .. Len(v) : i < j => v[i] <= v[j] + MaxWait
<1> DEFINE ip == job[t].ip
<1>1. At(t, "window") /\ ip \in IPs /\ job[t].ab \in Policies
  BY DEF Slide, At, Inv, Types, JobShape, Job
<1>2. PICK w \in Recent(t) :
        IF Len(w) < job[t].ab.count
        THEN /\ windows' = [windows EXCEPT ![ip] = w]
             /\ unspent' = [unspent EXCEPT ![ip] = @ + 1]
        ELSE /\ windows' = [windows EXCEPT ![ip] = <<>>]
             /\ unspent' = [unspent EXCEPT ![ip] = @ + 1 - Len(w)]
  BY DEF Slide
<1>3. /\ w \in Seq(Nat) /\ Len(w) \in 1 .. Len(windows[ip]) + 1
      /\ \A i \in 1 .. Len(w) : w[i] <= clock
      /\ \A i, j \in 1 .. Len(w) : i < j => w[i] <= w[j] + MaxWait
  BY <1>1, RecentFacts
<1>4. /\ windows[ip] \in Seq(Nat) /\ Len(windows[ip]) \in Nat
      /\ unspent[ip] \in Nat /\ Len(windows[ip]) <= unspent[ip]
  BY <1>1 DEF Inv, Types, CountsSpentOnce
<1>5. Len(w) \in Nat /\ Len(w) <= unspent[ip] + 1 /\ unspent[ip] + 1 - Len(w) \in Nat
  BY <1>3, <1>4
<1>6. CASE Len(w) < job[t].ab.count
  <2>1. /\ windows' = [windows EXCEPT ![ip] = w]
        /\ unspent' = [unspent EXCEPT ![ip] = unspent[ip] + 1]
    BY <1>2, <1>6
  <2>2. unspent[ip] + 1 \in Nat
    BY <1>4
  <2>3. QED
    BY <1>1, <1>3, <1>5, <1>6, <2>1, <2>2
<1>7. CASE ~(Len(w) < job[t].ab.count)
  <2>1. job[t].ab.count \in Nat \ {0}
    BY <1>1, AutoBanAssumption DEF Policy
  <2> DEFINE v == <<>>
  <2>2. v \in Seq(Nat) /\ Len(v) = 0
    OBVIOUS
  <2>3. windows' = [windows EXCEPT ![ip] = v] /\ unspent' = [unspent EXCEPT ![ip] = unspent[ip] + 1 - Len(w)]
    BY <1>2, <1>7
  <2> HIDE DEF v
  <2>4. \A i \in 1 .. Len(v) : FALSE
    BY <2>2
  <2>5. Len(v) < job[t].ab.count /\ Len(v) <= unspent[ip] + 1 - Len(w)
    BY <2>1, <2>2, <1>5
  <2>6. QED
    BY <1>1, <1>5, <2>2, <2>3, <2>4, <2>5
<1>8. QED
  BY <1>6, <1>7

LEMMA WindowStep ==
    ASSUME Inv, [Next]_vars
    PROVE  /\ windows' \in [IPs -> Seq(Nat)] /\ unspent' \in [IPs -> Nat]
           /\ NearlySorted' /\ CountsSpentOnce' /\ WindowsAreBounded'
<1>1. clock' \in Nat /\ clock \in Nat /\ clock <= clock'
  <2>1. CASE \E t \in Handlers : Handle(t)
    BY <2>1, HandleFrame DEF Inv, Types
  <2>2. CASE Tick
    BY <2>2 DEF Inv, Types, Tick
  <2>3. CASE UNCHANGED clock
    BY <2>3 DEF Inv, Types
  <2>4. (\E t \in Handlers : Handle(t)) \/ Tick \/ UNCHANGED clock
    BY DEF Next, Step, Unban, SaveSettings, vars
  <2>5. QED
    BY <2>1, <2>2, <2>3, <2>4
<1>2. CASE UNCHANGED <<windows, unspent>>
  <2>1. windows \in [IPs -> Seq(Nat)]
    BY DEF Inv, Types
  <2>2. \A ip \in IPs : \A i \in 1 .. Len(windows[ip]) : windows[ip][i] <= clock'
    <3> SUFFICES ASSUME NEW ip \in IPs, NEW i \in 1 .. Len(windows[ip])
                 PROVE  windows[ip][i] <= clock'
      OBVIOUS
    <3>1. windows[ip] \in Seq(Nat)
      BY <2>1
    <3>2. windows[ip][i] \in Nat /\ windows[ip][i] <= clock
      BY <3>1 DEF Inv, NearlySorted
    <3>3. QED
      BY <3>2, <1>1
  <2>3. QED
    BY <1>2, <2>2 DEF Inv, Types, NearlySorted, CountsSpentOnce, WindowsAreBounded
<1>3. ASSUME NEW t \in Handlers, Slide(t)
      PROVE  /\ windows' \in [IPs -> Seq(Nat)] /\ unspent' \in [IPs -> Nat]
             /\ NearlySorted' /\ CountsSpentOnce' /\ WindowsAreBounded'
  <2> DEFINE ip == job[t].ip
  <2>1. ip \in IPs /\ clock' = clock
    BY <1>3, SlideWindows DEF Slide
  <2>2. PICK v \in Seq(Nat), n \in Nat :
          /\ windows' = [windows EXCEPT ![ip] = v]
          /\ unspent' = [unspent EXCEPT ![ip] = n]
          /\ Len(v) <= n
          /\ \E p \in Policies : Len(v) < p.count
          /\ \A i \in 1 .. Len(v) : v[i] <= clock
          /\ \A i, j \in 1 .. Len(v) : i < j => v[i] <= v[j] + MaxWait
    BY <1>3, SlideWindows
  <2>3. /\ windows' \in [IPs -> Seq(Nat)] /\ unspent' \in [IPs -> Nat]
        /\ windows'[ip] = v /\ unspent'[ip] = n
        /\ \A q \in IPs : q # ip => windows'[q] = windows[q] /\ unspent'[q] = unspent[q]
    BY <2>1, <2>2 DEF Inv, Types
  <2>4. NearlySorted'
    BY <2>1, <2>2, <2>3 DEF Inv, NearlySorted
  <2>5. CountsSpentOnce' /\ WindowsAreBounded'
    BY <2>2, <2>3 DEF Inv, CountsSpentOnce, WindowsAreBounded
  <2>6. QED
    BY <2>3, <2>4, <2>5
<1>4. CASE \E t \in Handlers : Handle(t)
  BY <1>2, <1>3, <1>4, OthersLeaveWindows
<1>5. CASE ~ \E t \in Handlers : Handle(t)
  BY <1>2, <1>5 DEF Next, Step, Unban, SaveSettings, Tick, vars, histories
<1>6. QED
  BY <1>4, <1>5

LEMMA ShapeStep ==
    ASSUME Inv, [Next]_vars
    PROVE  Types' /\ JobShape'
<1>1. windows' \in [IPs -> Seq(Nat)] /\ unspent' \in [IPs -> Nat]
  BY WindowStep
<1> USE DEF Inv
<1>2. ASSUME NEW t \in Handlers, Handle(t) PROVE Types' /\ JobShape'
  <2>1. UNCHANGED <<clock, policy>> /\ JobMoves(t)
    BY <1>2, HandleFrame, HandleMoves
  <2>2. PICK j \in Job :
          /\ job' = [job EXCEPT ![t] = j]
          /\ j.op = "none" => j.at = "idle"
          /\ j.op # "none" => j.ip \in IPs
          /\ j.at \in {"white", "banned", "locate", "judge", "window", "track"} => j.op = "conn"
          /\ j.at \in {"judge", "window"} => j.ab \in Policies
          /\ j.at \in {"window", "ban.lock"} => j.stamp = clock
    BY <2>1 DEF JobMoves
  <2>3. job' \in [Handlers -> Job] /\ job'[t] = j /\ \A u \in Handlers : u # t => job'[u] = job[u]
    BY <2>2 DEF Types
  <2>4. clock \in Nat /\ MaxWait \in Nat
    BY AutoBanAssumption DEF Types
  <2>5. QED
    BY <1>1, <2>1, <2>2, <2>3, <2>4 DEF Types, JobShape, At
<1>3. CASE Tick
  <2>1. \A t \in Handlers : job[t].stamp \in Nat
    BY DEF Types, Job
  <2>2. clock \in Nat /\ MaxWait \in Nat /\ clock' = clock + 1 /\ job' = job /\ policy' = policy
    BY <1>3, AutoBanAssumption DEF Types, Tick
  <2>3. \A t \in Handlers : At(t, "window") \/ At(t, "ban.lock") =>
          job[t].stamp <= clock' /\ clock' <= job[t].stamp + MaxWait
    BY <1>3, <2>1, <2>2 DEF Tick, JobShape, At
  <2>4. QED
    BY <1>1, <2>2, <2>3 DEF Types, JobShape, At
<1>4. CASE \E ip \in IPs : Unban(ip)
  BY <1>1, <1>4 DEF Unban, Types, JobShape, At
<1>5. CASE \E m \in Modes, p \in Policies : SaveSettings(m, p)
  BY <1>1, <1>5 DEF SaveSettings, Types, JobShape, At
<1>6. CASE UNCHANGED vars
  BY <1>1, <1>6 DEF vars, Types, JobShape, At
<1>7. QED
  BY <1>2, <1>3, <1>4, <1>5, <1>6 DEF Next, Step

-----------------------------------------------------------------------------
(* What has held ever since a request came                                 *)

LEMMA WatchFacts ==
    ASSUME Next, NEW t \in Handlers
    PROVE  /\ since'[t].exempt =>
                /\ job'[t].op # "none"
                /\ job[t].op # "none" => since[t].exempt
                /\ Whitelists(policy', job'[t].ip, job'[t].module)
           /\ since'[t].banned =>
                /\ job'[t].op # "none"
                /\ job[t].op # "none" => since[t].banned
                /\ ~Whitelists(policy', job'[t].ip, job'[t].module)
                /\ \A now \in Soon' : active(bans'[job'[t].ip], now)
<1> DEFINE old == IF job[t].op = "none" THEN [exempt |-> TRUE, banned |-> TRUE] ELSE since[t]
           white == Whitelists(policy', job'[t].ip, job'[t].module)
           lasts == \A now \in Soon' : active(bans'[job'[t].ip], now)
<1>1. since'[t] = IF job'[t].op = "none" THEN [exempt |-> FALSE, banned |-> FALSE]
                  ELSE [exempt |-> old.exempt /\ white, banned |-> old.banned /\ ~white /\ lasts]
  BY DEF Next, Watch
<1>2. job[t].op # "none" => old.exempt = since[t].exempt /\ old.banned = since[t].banned
  OBVIOUS
<1> HIDE DEF old, white, lasts
<1>3. CASE job'[t].op = "none"
  <2>1. since'[t] = [exempt |-> FALSE, banned |-> FALSE]
    BY <1>1, <1>3
  <2>2. since'[t].exempt = FALSE /\ since'[t].banned = FALSE
    BY <2>1
  <2>3. QED
    BY <2>2
<1>4. CASE job'[t].op # "none"
  <2> DEFINE e == old.exempt /\ white
             b == old.banned /\ ~white /\ lasts
  <2>1. since'[t] = [exempt |-> e, banned |-> b]
    BY <1>1, <1>4
  <2> HIDE DEF e, b
  <2>2. since'[t].exempt = e /\ since'[t].banned = b
    BY <2>1
  <2>3. since'[t].exempt => old.exempt /\ white
    BY <2>2, Zenon DEF e
  <2>4. since'[t].banned => old.banned /\ ~white /\ lasts
    BY <2>2, Zenon DEF b
  <2>5. QED
    BY <1>2, <1>4, <2>3, <2>4, Zenon DEF white, lasts
<1>5. QED
  BY <1>3, <1>4

LEMMA WatchStep ==
    ASSUME Inv, [Next]_vars
    PROVE  WatchIsCurrent'
<1>1. CASE Next
  BY <1>1, WatchFacts DEF WatchIsCurrent
<1>2. CASE UNCHANGED vars
  BY <1>2 DEF vars, Inv, WatchIsCurrent, Soon, active, Whitelists
<1>3. QED
  BY <1>1, <1>2

\* A goroutine that does not step keeps its job.
LEMMA OneStepsAtATime ==
    ASSUME Inv, NEW t \in Handlers, Handle(t)
    PROVE  \A u \in Handlers : u # t => job'[u] = job[u]
<1>1. JobMoves(t)
  BY HandleMoves DEF Inv
<1>2. QED
  BY <1>1 DEF JobMoves, Inv, Types

\* The two ways of a request: where its goroutine can go from each label, by
\* what it was told of the whitelist and of the ban.
LEMMA Routes ==
    ASSUME Inv, NEW t \in Handlers, Handle(t), job[t].op # "none"
    PROVE  /\ job'[t].op = "none" \/ job'[t].op = job[t].op
           /\ At(t, "white") => job'[t].at = IF IsWhitelisted(t) THEN "track" ELSE "banned"
           /\ At(t, "track") => job'[t].op = "none"
           /\ At(t, "reject") => job'[t].op = "none"
           /\ At(t, "count") => job'[t].op = "none" \/ job'[t].at = "reject"
           /\ At(t, "banned") /\ (\A now \in Soon : active(bans[job[t].ip], now)) =>
                 job'[t].op = "none" \/ job'[t].at = "count"
           /\ At(t, "ban.white") /\ job[t].op = "ban" /\ IsWhitelisted(t) => job'[t].op = "none"
<1> USE DEF At
<1>1. job \in [Handlers -> Job] /\ job[t] \in Job /\ job[t].at # "idle" /\ Idle.op = "none"
  <2>1. job \in [Handlers -> Job]
    BY DEF Inv, Types
  <2>2. Idle.op = "none"
    BY DEF Idle
  <2>3. ~(\E ip \in IPs, module \in Modules : NewUserConn(t, ip, module))
        /\ ~(\E ip \in IPs : ManualBan(t, ip))
    BY <2>2 DEF NewUserConn, ManualBan
  <2>4. job[t].at # "idle"
    BY <2>3 DEF Handle, CheckWhitelist, CheckBan, Locate, Judge, Slide,
                BanWhite, BanStamp, BanLock, Count, RejectIP, TrackAllowed
  <2>5. QED
    BY <2>1, <2>2, <2>4
<1> USE <1>1 DEF Job
<1>2. ~(\E ip \in IPs, module \in Modules : NewUserConn(t, ip, module))
      /\ ~(\E ip \in IPs : ManualBan(t, ip))
  BY DEF NewUserConn, ManualBan
<1>3. CASE CheckWhitelist(t)
  BY <1>3 DEF CheckWhitelist, Goto
<1>4. CASE CheckBan(t)
  <2>1. PICK now \in Soon :
           IF active(bans[job[t].ip], now)
           THEN IF job[t].sync THEN Goto(t, "count") ELSE Finish(t)
           ELSE Goto(t, "locate")
    BY <1>4 DEF CheckBan
  <2>2. QED
    BY <1>4, <2>1 DEF CheckBan, Goto, Finish
<1>5. CASE \E country \in Countries, known \in BOOLEAN : Locate(t, country, known)
  BY <1>5 DEF Locate, Goto
<1>6. CASE Judge(t)
  BY <1>6 DEF Judge
<1>7. CASE Slide(t)
  BY <1>7 DEF Slide
<1>8. CASE BanWhite(t)
  BY <1>8 DEF BanWhite, Goto, Finish
<1>9. CASE BanStamp(t)
  BY <1>9 DEF BanStamp
<1>10. CASE BanLock(t)
  BY <1>10 DEF BanLock, Finish
<1>11. CASE Count(t)
  BY <1>11 DEF Count, Goto, Finish
<1>12. CASE RejectIP(t) \/ TrackAllowed(t)
  BY <1>12 DEF RejectIP, TrackAllowed, Finish
<1>13. QED
  BY <1>2, <1>3, <1>4, <1>5, <1>6, <1>7, <1>8, <1>9, <1>10, <1>11, <1>12 DEF Handle

\* Where a new request starts.
LEMMA Starts ==
    ASSUME Inv, NEW t \in Handlers, Handle(t), job[t].op = "none"
    PROVE  \/ job'[t].op = "conn" /\ job'[t].at = "white"
           \/ job'[t].op = "ban" /\ job'[t].at = "ban.white"
<1>1. job[t].at = "idle"
  BY DEF Inv, JobShape
<1>2. (\E ip \in IPs, module \in Modules : NewUserConn(t, ip, module))
      \/ (\E ip \in IPs : ManualBan(t, ip))
  BY <1>1 DEF Handle, CheckWhitelist, CheckBan, Locate, Judge, Slide,
              BanWhite, BanStamp, BanLock, Count, RejectIP, TrackAllowed, At
<1>3. job \in [Handlers -> Job]
  BY DEF Inv, Types
<1>4. ASSUME NEW ip \in IPs, NEW module \in Modules, NewUserConn(t, ip, module)
      PROVE  job'[t].op = "conn" /\ job'[t].at = "white"
  <2>1. job'[t] = [Idle EXCEPT !.at = "white", !.op = "conn",
                     !.sync = (mode = "plugin"), !.ip = ip, !.module = module]
    BY <1>3, <1>4 DEF NewUserConn
  <2>2. QED
    BY <2>1 DEF Idle
<1>5. ASSUME NEW ip \in IPs, ManualBan(t, ip)
      PROVE  job'[t].op = "ban" /\ job'[t].at = "ban.white"
  <2>1. job'[t] = [Idle EXCEPT !.at = "ban.white", !.op = "ban", !.ip = ip]
    BY <1>3, <1>5 DEF ManualBan
  <2>2. QED
    BY <2>1 DEF Idle
<1>6. QED
  BY <1>2, <1>4, <1>5

\* A request of another goroutine, or one that no step of its own disturbs.
LEMMA ResultsStand ==
    ASSUME Inv, [Next]_vars, NEW t \in Handlers, job'[t] = job[t]
    PROVE  /\ since'[t].exempt => since[t].exempt
           /\ since'[t].banned => since[t].banned
<1>1. CASE Next
  BY <1>1, WatchFacts
<1>2. CASE UNCHANGED vars
  BY <1>2 DEF vars
<1>3. QED
  BY <1>1, <1>2

LEMMA StepsOfOthers ==
    ASSUME Inv, [Next]_vars, NEW t \in Handlers
    PROVE  job'[t] = job[t] \/ (Next /\ Handle(t))
<1>1. ASSUME NEW u \in Handlers, Handle(u), Next PROVE job'[t] = job[t] \/ (Next /\ Handle(t))
  BY <1>1, OneStepsAtATime
<1>2. CASE UNCHANGED job
  BY <1>2
<1>3. QED
  BY <1>1, <1>2 DEF Next, Step, Unban, SaveSettings, Tick, vars

LEMMA ExemptStep ==
    ASSUME Inv, [Next]_vars
    PROVE  ExemptGoesRound'
<1> SUFFICES ASSUME NEW t \in Handlers, since'[t].exempt
             PROVE  \/ job'[t].at \in {"white", "track"}
                    \/ job'[t].at = "ban.white" /\ job'[t].op = "ban"
  BY DEF ExemptGoesRound, At
<1>1. CASE job'[t] = job[t]
  BY <1>1, ResultsStand DEF Inv, ExemptGoesRound, At
<1>2. CASE Next /\ Handle(t)
  <2>1. job'[t].op # "none" /\ (job[t].op # "none" => since[t].exempt)
    BY <1>2, WatchFacts
  <2>2. CASE job[t].op = "none"
    BY <1>2, <2>2, Starts
  <2>3. CASE job[t].op # "none"
    <3>1. IsWhitelisted(t)
      BY <2>1, <2>3 DEF Inv, WatchIsCurrent, IsWhitelisted
    <3>2. job[t].at \in {"white", "track"} \/ (At(t, "ban.white") /\ job[t].op = "ban")
      BY <2>1, <2>3 DEF Inv, ExemptGoesRound
    <3>3. QED
      BY <1>2, <2>1, <2>3, <3>1, <3>2, Routes DEF At
  <2>4. QED
    BY <2>2, <2>3
<1>3. QED
  BY <1>1, <1>2, StepsOfOthers

LEMMA BannedStep ==
    ASSUME Inv, [Next]_vars
    PROVE  BannedStaysOut'
<1> SUFFICES ASSUME NEW t \in Handlers, job'[t].op = "conn", since'[t].banned
             PROVE  job'[t].at \in {"white", "banned", "count", "reject"}
  BY DEF BannedStaysOut
<1>1. CASE job'[t] = job[t]
  BY <1>1, ResultsStand DEF Inv, BannedStaysOut
<1>2. CASE Next /\ Handle(t)
  <2>1. job[t].op # "none" => since[t].banned
    BY <1>2, WatchFacts
  <2>2. CASE job[t].op = "none"
    BY <1>2, <2>2, Starts
  <2>3. CASE job[t].op # "none"
    <3>1. job[t].op = "conn"
      BY <1>2, <2>3, Routes
    <3>2. job[t].at \in {"white", "banned", "count", "reject"}
      BY <2>1, <2>3, <3>1 DEF Inv, BannedStaysOut
    <3>3. ~IsWhitelisted(t) /\ \A now \in Soon : active(bans[job[t].ip], now)
      BY <2>1, <2>3 DEF Inv, WatchIsCurrent, IsWhitelisted
    <3>4. QED
      BY <1>2, <2>3, <3>2, <3>3, Routes DEF At
  <2>4. QED
    BY <2>2, <2>3
<1>3. QED
  BY <1>1, <1>2, StepsOfOthers

-----------------------------------------------------------------------------
(* What the invariant shows                                                *)

LEMMA InitInv == Init => Inv
<1> SUFFICES ASSUME Init PROVE Inv
  OBVIOUS
<1>1. Idle \in Job /\ Idle.op = "none" /\ Idle.at = "idle"
  BY DEF Idle, Job, Labels
<1>2. Types
  BY <1>1, AutoBanAssumption DEF Init, Types
<1>3. JobShape
  BY <1>1 DEF Init, JobShape, At
<1>4. \A t \in Handlers : since[t].exempt = FALSE /\ since[t].banned = FALSE
  BY DEF Init
<1>5. WatchIsCurrent /\ ExemptGoesRound /\ BannedStaysOut
  BY <1>4 DEF WatchIsCurrent, ExemptGoesRound, BannedStaysOut
<1>6. \A ip \in IPs : windows[ip] = <<>> /\ Len(windows[ip]) = 0 /\ unspent[ip] = 0
  BY DEF Init
<1>7. NearlySorted /\ CountsSpentOnce
  BY <1>6 DEF NearlySorted, CountsSpentOnce
<1>8. WindowsAreBounded
  <2>1. policy \in Policies /\ policy.count \in Nat \ {0}
    BY AutoBanAssumption DEF Init, Policy
  <2>2. QED
    BY <1>6, <2>1 DEF WindowsAreBounded
<1>9. QED
  BY <1>2, <1>3, <1>5, <1>7, <1>8 DEF Inv

LEMMA StepInv == Inv /\ [Next]_vars => Inv'
<1> SUFFICES ASSUME Inv, [Next]_vars PROVE Inv'
  OBVIOUS
<1>1. QED
  BY ShapeStep, WindowStep, WatchStep, ExemptStep, BannedStep DEF Inv

\* The inductive invariant.
LEMMA Invariance == Spec => []Inv
<1>1. QED
  BY InitInv, StepInv, PTL DEF Spec

\* No connection counts towards two bans: CheckAutoBan reads, trims and uses up
\* the list of an IP in one critical section.
THEOREM ConnectionsCountOnce == Spec => []CountsSpentOnce
<1>1. Inv => CountsSpentOnce
  BY DEF Inv
<1>2. QED
  BY <1>1, Invariance, PTL

\* The memory that CheckAutoBan keeps of one IP is bounded by the largest
\* threshold an administrator may save.
THEOREM WindowsStayShort == Spec => []WindowsAreBounded
<1>1. Inv => WindowsAreBounded
  BY DEF Inv
<1>2. QED
  BY <1>1, Invariance, PTL

\* Whoever is whitelisted from the start of a request on is neither counted,
\* banned nor rejected, whatever other goroutines do meanwhile.
THEOREM WhitelistHolds == Spec => []ExemptPasses
<1>1. Inv => ExemptPasses
  BY DEF Inv, ExemptGoesRound, ExemptPasses, At
<1>2. QED
  BY <1>1, Invariance, PTL

\* Whoever is banned from the start of a request on is not let through, and
\* the request does not count towards another ban.
THEOREM BansHold == Spec => []BannedStaysOut
<1>1. Inv => BannedStaysOut
  BY DEF Inv
<1>2. QED
  BY <1>1, Invariance, PTL

\* A ban is for enough connections, none of them older than the window and the
\* longest wait for the mutex, although the list of times need not be in order.
THEOREM AutoBansAreEarned == Spec => BansAreEarned
<1>1. ASSUME Inv, [Next]_vars
      PROVE  [\A t \in Handlers : Verdict(t) =>
                \A w \in Recent(t) :
                   /\ Len(w) >= job[t].ab.count
                   /\ \A i \in 1 .. Len(w) : w[i] >= job[t].stamp - job[t].ab.seconds - MaxWait]_vars
  <2> SUFFICES ASSUME Next, NEW t \in Handlers, Verdict(t), NEW w \in Recent(t)
               PROVE  /\ Len(w) >= job[t].ab.count
                      /\ \A i \in 1 .. Len(w) : w[i] >= job[t].stamp - job[t].ab.seconds - MaxWait
    BY <1>1
  <2>1. At(t, "window") /\ job'[t].at = "ban.white" /\ job[t].op # "none"
    BY <1>1 DEF Verdict, At, Inv, JobShape
  <2>2. Handle(t)
    BY <1>1, <2>1, StepsOfOthers DEF At
  <2>3. Idle.op = "none"
    BY DEF Idle
  <2>4. ~(\E ip \in IPs, module \in Modules : NewUserConn(t, ip, module))
        /\ ~(\E ip \in IPs : ManualBan(t, ip))
    BY <2>1, <2>3 DEF NewUserConn, ManualBan
  <2>5. Slide(t)
    BY <2>1, <2>2, <2>4 DEF Handle, CheckWhitelist, CheckBan, Locate, Judge, BanWhite, BanStamp,
                            BanLock, Count, RejectIP, TrackAllowed, At
  <2>6. job \in [Handlers -> Job] /\ job[t].ab \in Policies
    BY <1>1, <2>1 DEF Inv, Types, JobShape, At
  <2>7. PICK x \in Recent(t) :
          ~(Len(x) < job[t].ab.count)
             \/ job' = [job EXCEPT ![t].at = "track", ![t].ab = Nil, ![t].stamp = 0]
    BY <2>5 DEF Slide
  <2>8. ~(Len(x) < job[t].ab.count)
    BY <2>1, <2>6, <2>7 DEF Job
  <2>9. x = w
    BY <1>1, <2>1, RecentIsUnique
  <2>10. Len(w) \in Nat /\ job[t].ab.count \in Nat
    BY <1>1, <2>1, <2>6, RecentFacts, AutoBanAssumption DEF Policy
  <2>11. QED
    BY <1>1, <2>1, <2>8, <2>9, <2>10, RecentFacts
<1>2. QED
  BY <1>1, Invariance, PTL DEF Spec, BansAreEarned

-----------------------------------------------------------------------------
(* Escalation                                                              *)

\* Induction over the numbers, for a set instead of an operator.
LEMMA SetInduction ==
  ASSUME NEW T, 0 \in T, \A n \in Nat : n \in T => n + 1 \in T
  PROVE  \A n \in Nat : n \in T
<1> DEFINE B == {n \in Nat : n \notin T}
<1>1. SUFFICES ASSUME B # {} PROVE FALSE
  OBVIOUS
<1>2. IsWellFoundedOn(OpToRel(<, Nat), Nat)
  BY NatLessThanWellFounded
<1>3. \E x \in B : \A y \in B : ~ (<<y, x>> \in OpToRel(<, Nat))
  <2>1. B \subseteq Nat
    OBVIOUS
  <2> HIDE DEF B
  <2> QED BY <1>1, <1>2, <2>1, WFMin, Zenon
<1>4. PICK x \in B : \A y \in B : ~ (y < x)
  BY <1>3 DEF OpToRel
<1>5. x # 0 /\ x - 1 \in Nat /\ x - 1 < x
  OBVIOUS
<1>6. x - 1 \in T
  BY <1>4, <1>5
<1> QED BY <1>5, <1>6

\* The first n steps of a repetition of F that starts at b.
Repeats(F, b, n, g) == g[0] = b /\ \A i \in 0 .. n - 1 : g[i + 1] = F[g[i]]

LEMMA RepeatsOnce ==
  ASSUME NEW T, NEW F \in [T -> T], NEW b \in T
  PROVE  \A n \in Nat : /\ \E g \in [0 .. n -> T] : Repeats(F, b, n, g)
                        /\ \A g, h \in [0 .. n -> T] :
                              Repeats(F, b, n, g) /\ Repeats(F, b, n, h) => g = h
<1> DEFINE Exists(n) == \E g \in [0 .. n -> T] : Repeats(F, b, n, g)
           Unique(n) == \A g, h \in [0 .. n -> T] :
                           Repeats(F, b, n, g) /\ Repeats(F, b, n, h) => g = h
           N == {n \in Nat : Exists(n) /\ Unique(n)}
<1>1. Exists(0) /\ Unique(0)
  <2>1. [i \in 0 .. 0 |-> b] \in [0 .. 0 -> T] /\ Repeats(F, b, 0, [i \in 0 .. 0 |-> b])
    BY DEF Repeats
  <2>2. ASSUME NEW g \in [0 .. 0 -> T], NEW h \in [0 .. 0 -> T],
               Repeats(F, b, 0, g), Repeats(F, b, 0, h)
        PROVE  g = h
    <3>1. \A i \in 0 .. 0 : g[i] = h[i]
      BY <2>2 DEF Repeats
    <3>2. QED
      BY <3>1
  <2>3. QED
    BY <2>1, <2>2
<1>2. ASSUME NEW n \in Nat, Exists(n), Unique(n) PROVE Exists(n + 1) /\ Unique(n + 1)
  <2>1. PICK g \in [0 .. n -> T] : Repeats(F, b, n, g)
    BY <1>2
  <2> DEFINE h == [i \in 0 .. n + 1 |-> IF i <= n THEN g[i] ELSE F[g[n]]]
  <2>2. h \in [0 .. n + 1 -> T]
    OBVIOUS
  <2>3. Repeats(F, b, n + 1, h)
    <3>1. h[0] = b
      BY <2>1 DEF Repeats
    <3>2. ASSUME NEW i \in 0 .. n PROVE h[i + 1] = F[h[i]]
      <4>1. CASE i = n
        BY <4>1
      <4>2. CASE i \in 0 .. n - 1
        BY <2>1, <4>2 DEF Repeats
      <4>3. QED
        BY <4>1, <4>2
    <3>3. (n + 1) - 1 = n
      OBVIOUS
    <3> HIDE DEF h
    <3>4. QED
      BY <3>1, <3>2, <3>3 DEF Repeats
  <2>4. ASSUME NEW u \in [0 .. n + 1 -> T], NEW v \in [0 .. n + 1 -> T],
               Repeats(F, b, n + 1, u), Repeats(F, b, n + 1, v)
        PROVE  u = v
    <3> DEFINE cut(f) == [i \in 0 .. n |-> f[i]]
    <3>1. cut(u) \in [0 .. n -> T] /\ cut(v) \in [0 .. n -> T]
      OBVIOUS
    <3>2. Repeats(F, b, n, cut(u)) /\ Repeats(F, b, n, cut(v))
      BY <2>4 DEF Repeats
    <3>3. cut(u) = cut(v)
      BY <1>2, <3>1, <3>2
    <3>4. \A i \in 0 .. n : u[i] = v[i]
      <4>1. \A i \in 0 .. n : cut(u)[i] = u[i] /\ cut(v)[i] = v[i]
        OBVIOUS
      <4>2. QED
        BY <3>3, <4>1
    <3>5. u[n + 1] = F[u[n]] /\ v[n + 1] = F[v[n]]
      BY <2>4 DEF Repeats
    <3>6. \A i \in 0 .. n + 1 : u[i] = v[i]
      BY <3>4, <3>5
    <3>7. QED
      BY <3>6
  <2> HIDE DEF h
  <2>5. QED
    BY <2>2, <2>3, <2>4
<1> HIDE DEF Exists, Unique
<1>3. 0 \in N /\ \A n \in Nat : n \in N => n + 1 \in N
  BY <1>1, <1>2
<1> HIDE DEF N
<1>4. \A n \in Nat : n \in N
  BY <1>3, SetInduction
<1>5. QED
  BY <1>4 DEF N, Exists, Unique

GoesOn(F, b, m) == m[0] = b /\ \A n \in Nat : m[n + 1] = F[m[n]]

\* A repetition can be continued for ever.
LEMMA RepeatsForever ==
  ASSUME NEW T, NEW F \in [T -> T], NEW b \in T
  PROVE  \E m \in [Nat -> T] : GoesOn(F, b, m)
<1> DEFINE G(n) == CHOOSE g \in [0 .. n -> T] : Repeats(F, b, n, g)
           m == [n \in Nat |-> G(n)[n]]
<1>1. \A n \in Nat : G(n) \in [0 .. n -> T] /\ Repeats(F, b, n, G(n))
  BY RepeatsOnce
<1> HIDE DEF G
<1>2. m \in [Nat -> T]
  <2>1. \A n \in Nat : n \in 0 .. n
    OBVIOUS
  <2>2. \A n \in Nat : G(n)[n] \in T
    BY <1>1, <2>1
  <2>3. QED
    BY <2>2
<1>3. m[0] = b
  BY <1>1 DEF Repeats
<1>4. ASSUME NEW n \in Nat PROVE m[n + 1] = F[m[n]]
  <2> DEFINE u == G(n + 1)
             cut == [i \in 0 .. n |-> u[i]]
  <2>1. u \in [0 .. n + 1 -> T] /\ Repeats(F, b, n + 1, u)
    BY <1>1
  <2> HIDE DEF u
  <2>2. cut \in [0 .. n -> T]
    BY <2>1
  <2>3. Repeats(F, b, n, cut)
    BY <2>1 DEF Repeats
  <2>4. cut = G(n)
    BY <1>1, <2>2, <2>3, RepeatsOnce
  <2>5. u[n] = G(n)[n]
    <3>1. cut[n] = u[n]
      OBVIOUS
    <3>2. QED
      BY <2>4, <3>1
  <2>6. u[n + 1] = F[u[n]]
    BY <2>1 DEF Repeats
  <2>7. m[n + 1] = u[n + 1] /\ m[n] = G(n)[n]
    BY DEF u
  <2>8. QED
    BY <2>5, <2>6, <2>7
<1> HIDE DEF m
<1>5. QED
  BY <1>2, <1>3, <1>4 DEF GoesOn

\* The loop of escalatingMinutes doubles until it reaches the maximum.
Doubled(maximum, x) ==
    IF x >= maximum THEN x ELSE IF x > maximum \div 2 THEN maximum ELSE 2 * x

Loop(initial, maximum, m) ==
    m = [i \in Nat |-> IF i <= 1 THEN initial
                       ELSE IF m[i - 1] >= maximum THEN m[i - 1]
                       ELSE IF m[i - 1] > maximum \div 2 THEN maximum
                       ELSE 2 * m[i - 1]]

LEMMA LoopRuns ==
  ASSUME NEW initial \in Nat, NEW maximum \in Nat
  PROVE  \E m : Loop(initial, maximum, m)
<1> DEFINE F == [x \in Nat |-> Doubled(maximum, x)]
<1>1. F \in [Nat -> Nat]
  BY DEF Doubled
<1> HIDE DEF F
<1>2. PICK r \in [Nat -> Nat] : r[0] = initial /\ \A n \in Nat : r[n + 1] = F[r[n]]
  <2>1. \E r \in [Nat -> Nat] : GoesOn(F, initial, r)
    BY <1>1, RepeatsForever
  <2>2. QED
    BY <2>1 DEF GoesOn
<1> DEFINE m == [i \in Nat |-> IF i = 0 THEN initial ELSE r[i - 1]]
<1>3. ASSUME NEW i \in Nat
      PROVE  m[i] = IF i <= 1 THEN initial ELSE Doubled(maximum, m[i - 1])
  <2>1. CASE i <= 1
    BY <1>2, <2>1
  <2>2. CASE ~(i <= 1)
    <3>1. i - 1 \in Nat /\ i - 2 \in Nat /\ (i - 2) + 1 = i - 1 /\ i # 0 /\ i - 1 # 0
      BY <2>2
    <3>2. m[i] = r[i - 1] /\ m[i - 1] = r[i - 2]
      BY <3>1
    <3>3. r[i - 1] = F[r[i - 2]] /\ r[i - 2] \in Nat
      BY <1>2, <3>1
    <3>4. QED
      BY <2>2, <3>2, <3>3 DEF F
  <2>3. QED
    BY <2>1, <2>2
<1>4. m = [i \in Nat |-> m[i]]
  OBVIOUS
<1> HIDE DEF m
<1>5. QED
  BY <1>3, <1>4 DEF Loop, Doubled

Minutes(initial, maximum) == CHOOSE m : Loop(initial, maximum, m)

LEMMA EscalationIs ==
  ASSUME NEW initial \in Nat, NEW maximum \in Nat, NEW n \in Nat
  PROVE  escalatingMinutes(initial, maximum, n) =
           IF Minutes(initial, maximum)[n] > maximum THEN maximum
           ELSE Minutes(initial, maximum)[n]
BY DEF escalatingMinutes, Minutes, Loop

\* The loop never passes the maximum and never falls.
LEMMA NumbersBelow ==
  ASSUME NEW initial \in Nat, NEW maximum \in Nat, initial <= maximum
  PROVE  \A n \in Nat :
           LET m == Minutes(initial, maximum)
           IN m[n] \in Nat /\ m[n] <= maximum /\ m[n] <= m[n + 1]
<1> DEFINE m == Minutes(initial, maximum)
<1>1. Loop(initial, maximum, m)
  BY LoopRuns DEF Minutes
<1> HIDE DEF m
<1>2. \A i \in Nat : m[i] = IF i <= 1 THEN initial ELSE Doubled(maximum, m[i - 1])
  BY <1>1 DEF Loop, Doubled
<1> DEFINE N == {i \in Nat : m[i] \in Nat /\ m[i] <= maximum}
<1>3. 0 \in N
  BY <1>2
<1>4. ASSUME NEW i \in Nat, i \in N PROVE i + 1 \in N /\ m[i] <= m[i + 1]
  <2>1. i + 1 \in Nat /\ (i + 1) - 1 = i /\ m[i] \in Nat /\ m[i] <= maximum
    BY <1>4
  <2>2. CASE i = 0
    BY <1>2, <1>3, <2>2
  <2>3. CASE i # 0
    <3>1. m[i + 1] = Doubled(maximum, m[i])
      BY <1>2, <2>1, <2>3
    <3>2. maximum \div 2 \in Nat /\ 2 * (maximum \div 2) <= maximum
      OBVIOUS
    <3>3. Doubled(maximum, m[i]) \in Nat /\ Doubled(maximum, m[i]) <= maximum
          /\ m[i] <= Doubled(maximum, m[i])
      BY <2>1, <3>2 DEF Doubled
    <3>4. QED
      BY <3>1, <3>3
  <2>4. QED
    BY <2>2, <2>3
<1> HIDE DEF N
<1>5. \A i \in Nat : i \in N
  BY <1>3, <1>4, SetInduction
<1>6. \A i \in Nat : m[i] \in Nat /\ m[i] <= maximum /\ m[i] <= m[i + 1]
  BY <1>4, <1>5 DEF N
<1>7. QED
  BY <1>6 DEF m

\* Every strike bans for at least as long as the one before, and none for longer
\* than the longest.
LEMMA EscalationGrows ==
  ASSUME NEW initial \in Nat, NEW maximum \in Nat, initial <= maximum, NEW n \in Nat
  PROVE  /\ escalatingMinutes(initial, maximum, n) \in 0 .. maximum
         /\ escalatingMinutes(initial, maximum, n) <= escalatingMinutes(initial, maximum, n + 1)
<1> DEFINE m == Minutes(initial, maximum)
<1>1. /\ m[n] \in Nat /\ m[n] <= maximum
      /\ m[n + 1] \in Nat /\ m[n + 1] <= maximum
      /\ m[n] <= m[n + 1]
  BY NumbersBelow
<1>2. /\ escalatingMinutes(initial, maximum, n) = m[n]
      /\ escalatingMinutes(initial, maximum, n + 1) = m[n + 1]
  BY <1>1, EscalationIs
<1>3. QED
  BY <1>1, <1>2

\* README.md:185: the first strike bans for the initial time, and each further
\* one for twice as long as the one before, but not longer than the maximum.
THEOREM EscalationDoubles ==
  ASSUME NEW initial \in Nat, NEW maximum \in Nat, initial <= maximum
  PROVE  /\ escalatingMinutes(initial, maximum, 1) = initial
         /\ \A n \in Nat \ {0} :
               LET doubled == 2 * escalatingMinutes(initial, maximum, n)
               IN escalatingMinutes(initial, maximum, n + 1) =
                     IF doubled <= maximum THEN doubled ELSE maximum
<1> DEFINE m == Minutes(initial, maximum)
           f(n) == escalatingMinutes(initial, maximum, n)
<1>1. Loop(initial, maximum, m)
  BY LoopRuns DEF Minutes
<1>2. \A n \in Nat : f(n) = IF m[n] > maximum THEN maximum ELSE m[n]
  BY EscalationIs
<1> HIDE DEF m, f
<1>4. \A i \in Nat : m[i] = IF i <= 1 THEN initial ELSE Doubled(maximum, m[i - 1])
  BY <1>1 DEF Loop, Doubled
<1>5. f(1) = initial
  BY <1>2, <1>4
<1>6. ASSUME NEW n \in Nat \ {0}
      PROVE  f(n + 1) = IF 2 * f(n) <= maximum THEN 2 * f(n) ELSE maximum
  <2>1. m[n + 1] = Doubled(maximum, m[n])
    BY <1>4
  <2>2. /\ maximum \div 2 \in Nat /\ 2 * (maximum \div 2) <= maximum
        /\ maximum < 2 * (maximum \div 2) + 2
    OBVIOUS
  <2>3. m[n] \in Nat /\ m[n] <= maximum
    BY NumbersBelow DEF m
  <2>4. f(n) = m[n] /\ f(n + 1) = m[n + 1]
    BY NumbersBelow, <1>2, <2>3 DEF m
  <2>5. QED
    BY <2>1, <2>2, <2>3, <2>4 DEF Doubled
<1>7. QED
  BY <1>5, <1>6 DEF f

-----------------------------------------------------------------------------
(* The ends of bans                                                        *)

\* A ban ends no later than if it had been pronounced right now.
BansLast ==
    /\ bans \in [IPs -> Record]
    /\ \A ip \in IPs :
          bans[ip].until <= clock + escalatingMinutes(InitialBan, MaxBan, bans[ip].strikes)

\* What BanLock makes of a record.
LEMMA LockedBan ==
    ASSUME Inv, BansLast, NEW t \in Handlers, BanLock(t)
    PROVE  LET ip == job[t].ip IN
           /\ ip \in IPs
           /\ \E r \in Record :
                /\ bans' = [bans EXCEPT ![ip] = r]
                /\ r.strikes = bans[ip].strikes + 1
                /\ r.until <= clock + escalatingMinutes(InitialBan, MaxBan, r.strikes)
                /\ ~r.perm => r.until >= bans[ip].until - MaxWait
<1> DEFINE ip == job[t].ip
           n == bans[ip].strikes
           e == escalatingMinutes(InitialBan, MaxBan, n)
           f == escalatingMinutes(InitialBan, MaxBan, n + 1)
           r == [strikes |-> n + 1, perm |-> job[t].perm,
                 until |-> IF job[t].perm THEN 0 ELSE job[t].stamp + f]
<1>1. /\ ip \in IPs /\ job[t].stamp \in Nat /\ job[t].perm \in BOOLEAN
      /\ job[t].stamp <= clock /\ clock <= job[t].stamp + MaxWait
  <2>1. At(t, "ban.lock") /\ job[t] \in Job
    BY DEF BanLock, Inv, Types
  <2>2. job[t].op # "none"
    BY <2>1 DEF Inv, JobShape, At
  <2>3. QED
    BY <2>1, <2>2 DEF Inv, JobShape, Job
<1>2. clock \in Nat /\ MaxWait \in Nat
  BY AutoBanAssumption DEF Inv, Types
<1>3. n \in Nat /\ bans[ip].until \in Nat /\ bans[ip].until <= clock + e
  BY <1>1 DEF BansLast, Record
<1>4. InitialBan \in Nat /\ MaxBan \in Nat /\ InitialBan <= MaxBan
  BY AutoBanAssumption
<1>5. e \in Nat /\ f \in Nat /\ e <= f
  <2> HIDE DEF n
  <2>1. n + 1 \in Nat
    BY <1>3
  <2>2. e \in 0 .. MaxBan /\ f \in 0 .. MaxBan /\ e <= f
    BY <1>3, <1>4, <2>1, EscalationGrows
  <2>3. QED
    BY <1>4, <2>2
<1>6. bans' = [bans EXCEPT ![ip] = r]
  BY DEF BanLock
<1>7. r.strikes = n + 1 /\ r.perm = job[t].perm
      /\ r.until = IF job[t].perm THEN 0 ELSE job[t].stamp + f
  OBVIOUS
<1> HIDE DEF e, f
<1>8. r \in Record
  BY <1>1, <1>3, <1>5 DEF Record
<1> HIDE DEF r, n, ip
<1>9. r.until <= clock + f
  BY <1>1, <1>2, <1>5, <1>7
<1>10. ~r.perm => r.until >= bans[ip].until - MaxWait
  BY <1>1, <1>2, <1>3, <1>5, <1>7
<1>11. QED
  BY <1>1, <1>6, <1>7, <1>8, <1>9, <1>10 DEF n, f, ip

LEMMA OthersLeaveBans ==
    ASSUME NEW t \in Handlers, Handle(t)
    PROVE  BanLock(t) \/ UNCHANGED bans
BY DEF Handle, NewUserConn, ManualBan, CheckWhitelist, CheckBan, Locate, Judge, Slide, BanWhite,
       BanStamp, Count, RejectIP, TrackAllowed

LEMMA BanStep ==
    ASSUME Inv, BansLast, [Next]_vars
    PROVE  /\ BansLast'
           /\ \A ip \in IPs :
                bans'[ip].strikes > bans[ip].strikes /\ ~bans'[ip].perm =>
                   bans'[ip].until >= bans[ip].until - MaxWait
<1>1. clock \in Nat
  BY DEF Inv, Types
<1>2. ASSUME NEW ip \in IPs
      PROVE  /\ bans[ip] \in Record /\ bans[ip].strikes \in Nat /\ bans[ip].until \in Nat
             /\ escalatingMinutes(InitialBan, MaxBan, bans[ip].strikes) \in Nat
             /\ bans[ip].until <= clock + escalatingMinutes(InitialBan, MaxBan, bans[ip].strikes)
  <2>1. bans[ip] \in Record /\ bans[ip].strikes \in Nat /\ bans[ip].until \in Nat
    BY DEF BansLast, Record
  <2>2. InitialBan \in Nat /\ MaxBan \in Nat /\ InitialBan <= MaxBan
    BY AutoBanAssumption
  <2>3. escalatingMinutes(InitialBan, MaxBan, bans[ip].strikes) \in 0 .. MaxBan
    BY <2>1, <2>2, EscalationGrows
  <2>4. QED
    BY <2>1, <2>2, <2>3 DEF BansLast
<1>3. ASSUME NEW t \in Handlers, BanLock(t) PROVE BansLast' /\
             \A ip \in IPs :
                bans'[ip].strikes > bans[ip].strikes /\ ~bans'[ip].perm =>
                   bans'[ip].until >= bans[ip].until - MaxWait
  <2> DEFINE x == job[t].ip
  <2>1. x \in IPs /\ clock' = clock
    BY <1>3, LockedBan DEF BanLock
  <2>2. PICK r \in Record :
          /\ bans' = [bans EXCEPT ![x] = r]
          /\ r.until <= clock + escalatingMinutes(InitialBan, MaxBan, r.strikes)
          /\ ~r.perm => r.until >= bans[x].until - MaxWait
    BY <1>3, LockedBan
  <2> HIDE DEF x
  <2>3. bans' \in [IPs -> Record] /\ bans'[x] = r /\ \A ip \in IPs \ {x} : bans'[ip] = bans[ip]
    BY <2>1, <2>2 DEF BansLast
  <2>4. ASSUME NEW ip \in IPs
        PROVE  bans'[ip].until <= clock' + escalatingMinutes(InitialBan, MaxBan, bans'[ip].strikes)
    <3>1. CASE ip = x
      BY <2>1, <2>2, <2>3, <3>1
    <3>2. CASE ip # x
      <4>1. bans'[ip] = bans[ip]
        BY <2>3, <3>2
      <4>2. QED
        BY <1>2, <2>1, <4>1
    <3>3. QED
      BY <3>1, <3>2
  <2>5. ASSUME NEW ip \in IPs, bans'[ip].strikes > bans[ip].strikes, ~bans'[ip].perm
        PROVE  bans'[ip].until >= bans[ip].until - MaxWait
    <3>1. ip = x
      BY <1>2, <2>3, <2>5
    <3>2. QED
      BY <2>2, <2>3, <2>5, <3>1
  <2>6. QED
    BY <2>3, <2>4, <2>5 DEF BansLast
<1>4. ASSUME clock' \in Nat, clock <= clock', bans' \in [IPs -> Record],
             \A ip \in IPs : /\ bans'[ip].strikes = bans[ip].strikes
                             /\ bans'[ip].until <= bans[ip].until
      PROVE  BansLast' /\
             \A ip \in IPs :
                bans'[ip].strikes > bans[ip].strikes /\ ~bans'[ip].perm =>
                   bans'[ip].until >= bans[ip].until - MaxWait
  <2>1. ASSUME NEW ip \in IPs
        PROVE  /\ ~(bans'[ip].strikes > bans[ip].strikes)
               /\ bans'[ip].until <= clock' + escalatingMinutes(InitialBan, MaxBan, bans'[ip].strikes)
    <3>1. /\ bans'[ip].strikes = bans[ip].strikes
          /\ bans'[ip].until <= bans[ip].until /\ bans'[ip].until \in Nat
      BY <1>4 DEF Record
    <3>2. QED
      BY <1>1, <1>2, <1>4, <3>1
  <2>2. QED
    BY <1>4, <2>1 DEF BansLast
<1>5. CASE UNCHANGED <<clock, bans>>
  BY <1>1, <1>2, <1>4, <1>5 DEF BansLast
<1>6. CASE Tick
  BY <1>1, <1>2, <1>4, <1>6 DEF Tick, BansLast
<1>7. ASSUME NEW ip \in IPs, Unban(ip)
      PROVE BansLast' /\
             \A i \in IPs :
                bans'[i].strikes > bans[i].strikes /\ ~bans'[i].perm =>
                   bans'[i].until >= bans[i].until - MaxWait
  <2> DEFINE r == [bans[ip] EXCEPT !.perm = FALSE, !.until = 0]
  <2>1. bans' = [bans EXCEPT ![ip] = r] /\ clock' = clock
    BY <1>7 DEF Unban, BansLast
  <2>2. r \in Record /\ r.strikes = bans[ip].strikes /\ r.until = 0
    BY <1>2 DEF Record
  <2> HIDE DEF r
  <2>3. bans' \in [IPs -> Record] /\ bans'[ip] = r /\ \A i \in IPs \ {ip} : bans'[i] = bans[i]
    BY <2>1, <2>2 DEF BansLast
  <2>4. ASSUME NEW i \in IPs
        PROVE  bans'[i].strikes = bans[i].strikes /\ bans'[i].until <= bans[i].until
    <3>1. CASE i = ip
      BY <1>2, <2>2, <2>3, <3>1
    <3>2. CASE i # ip
      BY <1>2, <2>3, <3>2
    <3>3. QED
      BY <3>1, <3>2
  <2>5. QED
    BY <1>1, <1>4, <2>1, <2>3, <2>4
<1>8. ASSUME NEW t \in Handlers, Handle(t) PROVE BanLock(t) \/ UNCHANGED <<clock, bans>>
  BY <1>8, OthersLeaveBans, HandleFrame
<1>9. CASE \E m \in Modes, p \in Policies : SaveSettings(m, p)
  BY <1>5, <1>9 DEF SaveSettings
<1>10. CASE UNCHANGED vars
  BY <1>5, <1>10 DEF vars
<1>11. QED
  BY <1>3, <1>5, <1>6, <1>7, <1>8, <1>9, <1>10 DEF Next, Step

LEMMA BansLastAlways == Spec => []BansLast
<1>1. Init => BansLast
  <2> SUFFICES ASSUME Init PROVE BansLast
    OBVIOUS
  <2>1. InitialBan \in Nat /\ MaxBan \in Nat /\ InitialBan <= MaxBan
    BY AutoBanAssumption
  <2>2. escalatingMinutes(InitialBan, MaxBan, 0) \in 0 .. MaxBan
    BY <2>1, EscalationGrows
  <2>3. \A ip \in IPs : bans[ip] = NoRecord /\ bans[ip].strikes = 0 /\ bans[ip].until = 0
    BY DEF Init, NoRecord
  <2>4. NoRecord \in Record /\ clock = 0 /\ bans = [ip \in IPs |-> NoRecord]
    BY DEF Init, NoRecord, Record
  <2>5. QED
    BY <2>1, <2>2, <2>3, <2>4 DEF BansLast
<1>2. Inv /\ BansLast /\ [Next]_vars => BansLast'
  BY BanStep
<1>3. QED
  BY <1>1, <1>2, Invariance, PTL DEF Spec

\* Of concurrent bans of one IP the last, although its time may be the oldest,
\* shortens no temporary ban by more than the wait for the mutex: escalation
\* never bans for a shorter time than the strike before.
THEOREM BansNeverShrink == Spec => NoShorterBan
<1>1. Inv /\ BansLast /\ [Next]_vars =>
        [\A ip \in IPs :
           bans'[ip].strikes > bans[ip].strikes /\ ~bans'[ip].perm /\ ~bans[ip].perm =>
              bans'[ip].until >= bans[ip].until - MaxWait]_vars
  BY BanStep
<1>2. QED
  BY <1>1, Invariance, BansLastAlways, PTL DEF Spec, NoShorterBan

-----------------------------------------------------------------------------
(* The counters                                                            *)

CountersOK ==
    /\ mode \in Modes /\ {blocked, logged, silent} \subseteq Nat
    /\ since \in [Handlers -> [exempt : BOOLEAN, banned : BOOLEAN]]

\* The goroutines between IncrementBlocked and the event log.
Rejecting == {t \in Handlers : At(t, "reject")}

\* What a step of t does to the counters: nothing, count, or log.
LEMMA CounterMoves ==
    ASSUME Inv, NEW t \in Handlers, Handle(t)
    PROVE  /\ UNCHANGED mode
           /\ \/ /\ UNCHANGED <<blocked, logged, silent>>
                 /\ ~At(t, "reject") /\ job'[t].at # "reject"
              \/ /\ blocked' = blocked + 1 /\ UNCHANGED logged /\ ~At(t, "reject")
                 /\ \/ silent' = silent /\ job'[t].at = "reject"
                    \/ silent' = silent + 1 /\ job'[t].at # "reject"
              \/ /\ logged' = logged + 1 /\ UNCHANGED <<blocked, silent>>
                 /\ At(t, "reject") /\ job'[t].at # "reject"
<1> DEFINE Quiet == /\ UNCHANGED <<mode, blocked, logged, silent>>
                    /\ job[t].at # "reject" /\ job'[t].at # "reject"
<1> USE DEF At, histories
<1>1. job \in [Handlers -> Job] /\ job[t] \in Job /\ Idle.at = "idle"
  BY DEF Inv, Types, Idle
<1>2. ASSUME NEW ip \in IPs, NEW module \in Modules, NewUserConn(t, ip, module) PROVE Quiet
  <2>1. job'[t] = [Idle EXCEPT !.at = "white", !.op = "conn",
                     !.sync = (mode = "plugin"), !.ip = ip, !.module = module]
    BY <1>1, <1>2 DEF NewUserConn
  <2>2. job'[t].at = "white"
    BY <2>1 DEF Idle
  <2>3. QED
    BY <1>1, <1>2, <2>2 DEF NewUserConn
<1>3. ASSUME NEW ip \in IPs, ManualBan(t, ip) PROVE Quiet
  <2>1. job'[t] = [Idle EXCEPT !.at = "ban.white", !.op = "ban", !.ip = ip]
    BY <1>1, <1>3 DEF ManualBan
  <2>2. job'[t].at = "ban.white"
    BY <2>1 DEF Idle
  <2>3. QED
    BY <1>1, <1>3, <2>2 DEF ManualBan
<1>4. ASSUME NEW l, Goto(t, l) PROVE job'[t].at = l
  BY <1>1, <1>4 DEF Goto, Job
<1>5. Finish(t) => job'[t].at = "idle"
  BY <1>1 DEF Finish
<1>6. CASE CheckWhitelist(t)
  BY <1>4, <1>6 DEF CheckWhitelist
<1>7. CASE CheckBan(t)
  BY <1>4, <1>5, <1>7 DEF CheckBan
<1>8. ASSUME NEW country \in Countries, NEW known \in BOOLEAN, Locate(t, country, known)
      PROVE  Quiet
  <2>1. CASE Goto(t, "track")
    BY <1>4, <1>8, <2>1 DEF Locate
  <2>2. CASE job' = [job EXCEPT ![t].at = "judge", ![t].ab = policy]
    BY <1>1, <1>8, <2>2 DEF Locate, Job
  <2>3. QED
    BY <1>8, <2>1, <2>2 DEF Locate
<1>9. CASE Judge(t)
  BY <1>1, <1>9 DEF Judge, Job
<1>10. CASE Slide(t)
  BY <1>1, <1>10 DEF Slide, Job
<1>11. CASE BanWhite(t)
  BY <1>4, <1>5, <1>11 DEF BanWhite
<1>12. CASE BanStamp(t)
  BY <1>1, <1>12 DEF BanStamp, Job
<1>13. CASE BanLock(t)
  <2>1. CASE Finish(t)
    BY <1>5, <1>13, <2>1 DEF BanLock
  <2>2. CASE job' = [job EXCEPT ![t].at = "count", ![t].stamp = 0, ![t].perm = FALSE]
    BY <1>1, <1>13, <2>2 DEF BanLock, Job
  <2>3. QED
    BY <1>13, <2>1, <2>2 DEF BanLock
<1>14. CASE Count(t)
  BY <1>4, <1>5, <1>14 DEF Count
<1>15. CASE RejectIP(t)
  BY <1>5, <1>15 DEF RejectIP
<1>16. CASE TrackAllowed(t)
  BY <1>5, <1>16 DEF TrackAllowed
<1>17. QED
  BY <1>2, <1>3, <1>6, <1>7, <1>8, <1>9, <1>10, <1>11, <1>12, <1>13, <1>14, <1>15, <1>16 DEF Handle

\* Watch records two truth values for each goroutine.
LEMMA WatchTypes ==
    ASSUME CountersOK, Watch
    PROVE  since' \in [Handlers -> [exempt : BOOLEAN, banned : BOOLEAN]]
<1>1. ASSUME NEW t \in Handlers PROVE since'[t] \in [exempt : BOOLEAN, banned : BOOLEAN]
  <2> DEFINE old == IF job[t].op = "none" THEN [exempt |-> TRUE, banned |-> TRUE] ELSE since[t]
             e == old.exempt /\ Whitelists(policy', job'[t].ip, job'[t].module)
             b == /\ old.banned /\ ~Whitelists(policy', job'[t].ip, job'[t].module)
                  /\ \A now \in Soon' : active(bans'[job'[t].ip], now)
  <2>1. e \in BOOLEAN /\ b \in BOOLEAN
    OBVIOUS
  <2>2. since'[t] = IF job'[t].op = "none" THEN [exempt |-> FALSE, banned |-> FALSE]
                    ELSE [exempt |-> e, banned |-> b]
    BY Zenon DEF Watch
  <2> HIDE DEF e, b
  <2>3. QED
    BY <2>1, <2>2
<1>2. since' = [t \in Handlers |-> since'[t]]
  BY DEF Watch
<1>3. QED
  BY <1>1, <1>2

LEMMA CountersStep == Inv /\ CountersOK /\ [Next]_vars => CountersOK'
<1> SUFFICES ASSUME Inv, CountersOK, [Next]_vars PROVE CountersOK'
  OBVIOUS
<1>1. CASE UNCHANGED vars
  BY <1>1 DEF vars, histories, CountersOK
<1>2. CASE Next
  <2>1. since' \in [Handlers -> [exempt : BOOLEAN, banned : BOOLEAN]]
    BY <1>2, WatchTypes DEF Next
  <2>2. mode' \in Modes /\ {blocked', logged', silent'} \subseteq Nat
    <3>1. ASSUME NEW t \in Handlers, Handle(t)
          PROVE  mode' \in Modes /\ {blocked', logged', silent'} \subseteq Nat
      BY <3>1, CounterMoves DEF CountersOK
    <3>2. QED
      BY <1>2, <3>1 DEF Next, Step, Unban, SaveSettings, Tick, histories, CountersOK
  <2>3. QED
    BY <2>1, <2>2 DEF CountersOK
<1>3. QED
  BY <1>1, <1>2

LEMMA CountersInit == Init => CountersOK
BY DEF Init, CountersOK, Modes

\* Every reachable state is well-typed; a ban always has an end in time.
THEOREM TypeCorrect == Spec => []TypeOK
<1>1. Spec => []CountersOK
  BY CountersInit, CountersStep, Invariance, PTL DEF Spec
<1>2. Inv /\ BansLast /\ CountersOK => TypeOK
  BY DEF Inv, Types, BansLast, CountersOK, TypeOK
<1>3. QED
  BY <1>1, <1>2, Invariance, BansLastAlways, PTL

RejectInv == CountersOK /\ IsFiniteSet(Rejecting) /\ RejectionsAddUp

LEMMA RejectStep == Inv /\ RejectInv /\ [Next]_vars => RejectInv'
<1> SUFFICES ASSUME Inv, RejectInv, [Next]_vars PROVE RejectInv'
  OBVIOUS
<1>1. CountersOK' /\ {blocked, logged, silent} \subseteq Nat
  BY CountersStep DEF RejectInv, CountersOK
<1>2. /\ IsFiniteSet(Rejecting) /\ Cardinality(Rejecting) \in Nat
      /\ blocked = logged + silent + Cardinality(Rejecting)
  BY FS_CardinalityType DEF RejectInv, RejectionsAddUp, Rejecting
<1>3. ASSUME UNCHANGED <<blocked, logged, silent>>, Rejecting' = Rejecting PROVE RejectInv'
  BY <1>1, <1>2, <1>3 DEF RejectInv, RejectionsAddUp, Rejecting
<1>4. ASSUME NEW t \in Handlers, Handle(t) PROVE RejectInv'
  <2>1. \A u \in Handlers : u # t => job'[u] = job[u]
    BY <1>4, OneStepsAtATime
  <2>2. CASE /\ UNCHANGED <<blocked, logged, silent>>
             /\ ~At(t, "reject") /\ job'[t].at # "reject"
    <3>1. Rejecting' = Rejecting
      BY <2>1, <2>2 DEF Rejecting, At
    <3>2. QED
      BY <1>3, <2>2, <3>1
  <2>3. CASE /\ blocked' = blocked + 1 /\ UNCHANGED logged /\ ~At(t, "reject")
             /\ silent' = silent /\ job'[t].at = "reject"
    <3>1. Rejecting' = Rejecting \cup {t} /\ t \notin Rejecting
      BY <2>1, <2>3 DEF Rejecting, At
    <3>2. IsFiniteSet(Rejecting') /\ Cardinality(Rejecting') = Cardinality(Rejecting) + 1
      BY <1>2, <3>1, FS_AddElement
    <3>3. blocked' = logged' + silent' + Cardinality(Rejecting')
      BY <1>1, <1>2, <2>3, <3>2
    <3>4. QED
      BY <1>1, <3>2, <3>3 DEF RejectInv, RejectionsAddUp, Rejecting
  <2>4. CASE /\ blocked' = blocked + 1 /\ UNCHANGED logged /\ ~At(t, "reject")
             /\ silent' = silent + 1 /\ job'[t].at # "reject"
    <3>1. Rejecting' = Rejecting
      BY <2>1, <2>4 DEF Rejecting, At
    <3>2. blocked' = logged' + silent' + Cardinality(Rejecting')
      BY <1>1, <1>2, <2>4, <3>1
    <3>3. QED
      BY <1>1, <1>2, <3>1, <3>2 DEF RejectInv, RejectionsAddUp, Rejecting
  <2>5. CASE /\ logged' = logged + 1 /\ UNCHANGED <<blocked, silent>>
             /\ At(t, "reject") /\ job'[t].at # "reject"
    <3>1. Rejecting' = Rejecting \ {t} /\ t \in Rejecting
      BY <2>1, <2>5 DEF Rejecting, At
    <3>2. IsFiniteSet(Rejecting') /\ Cardinality(Rejecting') = Cardinality(Rejecting) - 1
      BY <1>2, <3>1, FS_RemoveElement
    <3>3. blocked' = logged' + silent' + Cardinality(Rejecting')
      BY <1>1, <1>2, <2>5, <3>2
    <3>4. QED
      BY <1>1, <3>2, <3>3 DEF RejectInv, RejectionsAddUp, Rejecting
  <2>6. QED
    BY <1>4, <2>2, <2>3, <2>4, <2>5, CounterMoves
<1>5. CASE UNCHANGED <<blocked, logged, silent, job>>
  BY <1>3, <1>5 DEF Rejecting, At
<1>6. QED
  BY <1>4, <1>5 DEF Next, Step, Unban, SaveSettings, Tick, vars, histories

\* Every rejection is counted once and, but for those of iptables mode and the
\* answers in progress, logged once.
THEOREM RejectionsAreLogged == Spec => []RejectionsAddUp
<1>1. Init => RejectInv
  <2> SUFFICES ASSUME Init PROVE RejectInv
    OBVIOUS
  <2>1. Rejecting = {}
    BY DEF Init, Rejecting, At, Idle
  <2>2. IsFiniteSet(Rejecting) /\ Cardinality(Rejecting) = 0
    BY <2>1, FS_EmptySet
  <2>3. blocked = 0 /\ logged = 0 /\ silent = 0
    BY DEF Init
  <2>4. QED
    BY <2>2, <2>3, CountersInit DEF RejectInv, RejectionsAddUp, Rejecting
<1>2. RejectInv => RejectionsAddUp
  BY DEF RejectInv
<1>3. QED
  BY <1>1, <1>2, RejectStep, Invariance, PTL DEF Spec

=============================================================================
