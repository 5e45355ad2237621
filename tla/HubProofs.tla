----------------------------- MODULE HubProofs ------------------------------
(***************************************************************************)
(* Proofs about Hub for any number of connections and any capacities.      *)
(***************************************************************************)
EXTENDS Hub, TLAPS

-----------------------------------------------------------------------------
(* Channels as sequences                                                   *)

\* Sending on a channel with room.
LEMMA AppendFacts ==
    ASSUME NEW s \in Seq(Nat), NEW x \in Nat
    PROVE  /\ Append(s, x) \in Seq(Nat)
           /\ Len(Append(s, x)) = Len(s) + 1
           /\ \A i \in 1..Len(s) : Append(s, x)[i] = s[i]
           /\ Append(s, x)[Len(s) + 1] = x
OBVIOUS

\* Receiving from a channel that is not empty.
LEMMA TailFacts ==
    ASSUME NEW s \in Seq(Nat), s # <<>>
    PROVE  /\ Len(s) \in Nat /\ Len(s) > 0 /\ Head(s) = s[1] /\ s[1] \in Nat
           /\ Tail(s) \in Seq(Nat)
           /\ Len(Tail(s)) = Len(s) - 1
           /\ \A i \in 1..(Len(s) - 1) : Tail(s)[i] = s[i + 1]
OBVIOUS

-----------------------------------------------------------------------------
(* Types                                                                   *)

LEMMA TypeInit == Init => TypeOK
BY HubAssumption DEF Init, TypeOK

LEMMA TypeStep == TypeOK /\ [Next]_vars => TypeOK'
<1> SUFFICES ASSUME TypeOK, [Next]_vars PROVE TypeOK'
  OBVIOUS
<1> USE HubAssumption DEF TypeOK
<1>1. CASE Emit
  BY <1>1 DEF Emit
<1>2. CASE RunTake
  BY <1>2 DEF RunTake
<1>3. ASSUME NEW c \in Clients, RunRegister(c) PROVE TypeOK'
  BY <1>3 DEF RunRegister
<1>4. ASSUME NEW c \in Clients, RunUnregister(c) PROVE TypeOK'
  BY <1>4 DEF RunUnregister
<1>5. ASSUME NEW c \in Clients, RunSend(c) PROVE TypeOK'
  <2>1. Append(send[c], sent) \in Seq(Nat)
    BY AppendFacts
  <2>2. QED
    BY <1>5, <2>1 DEF RunSend
<1>6. ASSUME NEW c \in Clients, RunDrop(c) PROVE TypeOK'
  BY <1>6 DEF RunDrop
<1>7. ASSUME NEW c \in Clients, Upgrade(c) PROVE TypeOK'
  BY <1>7 DEF Upgrade
<1>8. ASSUME NEW c \in Clients, Greet(c) PROVE TypeOK'
  <2>1. Append(send[c], 0) \in Seq(Nat)
    BY AppendFacts
  <2>2. send' \in [Clients -> Seq(Nat)]
    BY <1>8, <2>1 DEF Greet
  <2>3. greeted' \in [Clients -> 0..Greetings]
    <3>1. Greetings \in Nat
      OBVIOUS
    <3>2. greeted[c] < Greetings /\ greeted' \in {greeted, [greeted EXCEPT ![c] = @ + 1]}
      BY <1>8 DEF Greet
    <3>3. greeted[c] + 1 \in 0..Greetings
      BY <3>1, <3>2
    <3>4. [greeted EXCEPT ![c] = @ + 1] \in [Clients -> 0..Greetings]
      BY <3>3
    <3>5. QED
      BY <3>2, <3>4
  <2>4. QED
    BY <1>8, <2>2, <2>3 DEF Greet
<1>9. ASSUME NEW c \in Clients, StartPumps(c) PROVE TypeOK'
  BY <1>9 DEF StartPumps
<1>10. ASSUME NEW c \in Clients, Take(c) PROVE TypeOK'
  <2>1. Tail(send[c]) \in Seq(Nat) /\ Head(send[c]) \in Nat
    BY <1>10, TailFacts DEF Take
  <2>2. QED
    BY <1>10, <2>1 DEF Take
<1>11. ASSUME NEW c \in Clients, Written(c) PROVE TypeOK'
  BY <1>11 DEF Written
<1>12. ASSUME NEW c \in Clients, WriterEnd(c) PROVE TypeOK'
  BY <1>12 DEF WriterEnd
<1>13. ASSUME NEW c \in Clients, ReaderEnd(c) PROVE TypeOK'
  BY <1>13 DEF ReaderEnd
<1>14. ASSUME NEW c \in Clients, Break(c) PROVE TypeOK'
  BY <1>14 DEF Break
<1>15. CASE UNCHANGED vars
  BY <1>15 DEF vars
<1>16. QED
  BY <1>1, <1>2, <1>3, <1>4, <1>5, <1>6, <1>7, <1>8, <1>9, <1>10, <1>11, <1>12, <1>13,
     <1>14, <1>15 DEF Next, Run, Handle

\* Every variable of the hub keeps its type.
THEOREM TypeCorrect == Spec => []TypeOK
BY TypeInit, TypeStep, PTL DEF Spec

-----------------------------------------------------------------------------
(* No send on a closed channel                                             *)

\* A client whose handler has not registered it has left no trace.
Unregistered(c) ==
    handler[c] \in {"away", "register"} =>
        c \notin clients /\ c \notin shut /\ reader[c] = "off" /\ writer[c] = "off" /\ send[c] = <<>>

ServedInv ==
    /\ TypeOK
    /\ ServedChannelsAreOpen
    /\ todo \subseteq clients
    /\ \A c \in Clients : Unregistered(c)

LEMMA ServedInit == Init => ServedInv
BY TypeInit DEF Init, ServedInv, ServedChannelsAreOpen, Unregistered

LEMMA ServedStep == ServedInv /\ [Next]_vars => ServedInv'
<1> SUFFICES ASSUME ServedInv, [Next]_vars PROVE ServedInv'
  OBVIOUS
<1>1. TypeOK /\ TypeOK'
  BY TypeStep DEF ServedInv
<1> DEFINE Rest == /\ ServedChannelsAreOpen
                   /\ todo \subseteq clients
                   /\ \A c \in Clients : Unregistered(c)
<1>2. SUFFICES Rest'
  BY <1>1 DEF ServedInv
<1>3. Rest
  BY DEF ServedInv
<1> USE <1>1, <1>3 DEF ServedChannelsAreOpen, Unregistered, TypeOK
<1>4. CASE Emit
  BY <1>4 DEF Emit
<1>5. CASE RunTake
  BY <1>5 DEF RunTake
<1>6. ASSUME NEW c \in Clients, RunRegister(c) PROVE Rest'
  BY <1>6 DEF RunRegister
<1>7. ASSUME NEW c \in Clients, RunUnregister(c) PROVE Rest'
  BY <1>7 DEF RunUnregister
<1>8. ASSUME NEW c \in Clients, RunSend(c) PROVE Rest'
  BY <1>8 DEF RunSend
<1>9. ASSUME NEW c \in Clients, RunDrop(c) PROVE Rest'
  BY <1>9 DEF RunDrop
<1>10. ASSUME NEW c \in Clients, Upgrade(c) PROVE Rest'
  BY <1>10 DEF Upgrade
<1>11. ASSUME NEW c \in Clients, Greet(c) PROVE Rest'
  BY <1>11 DEF Greet
<1>12. ASSUME NEW c \in Clients, StartPumps(c) PROVE Rest'
  BY <1>12 DEF StartPumps
<1>13. ASSUME NEW c \in Clients, Take(c) PROVE Rest'
  <2>1. /\ UNCHANGED <<todo, clients, shut, handler, reader>>
        /\ handler[c] \notin {"away", "register"}
        /\ \A d \in Clients : d # c => send'[d] = send[d] /\ writer'[d] = writer[d]
    BY <1>13 DEF Take
  <2>2. QED
    BY <2>1
<1>14. ASSUME NEW c \in Clients, Written(c) \/ WriterEnd(c) \/ ReaderEnd(c) \/ Break(c) PROVE Rest'
  <2>1. UNCHANGED <<todo, clients, shut, handler, send>>
    BY <1>14 DEF Written, WriterEnd, ReaderEnd, Break
  <2>2. /\ \A d \in Clients : d # c => writer'[d] = writer[d] /\ reader'[d] = reader[d]
        /\ handler[c] \in {"away", "register"} => writer'[c] = writer[c] /\ reader'[c] = reader[c]
    <3>1. CASE Written(c)
      BY <3>1 DEF Written
    <3>2. CASE WriterEnd(c)
      BY <3>2 DEF WriterEnd
    <3>3. CASE ReaderEnd(c)
      BY <3>3 DEF ReaderEnd
    <3>4. CASE Break(c)
      BY <3>4 DEF Break
    <3>5. QED
      BY <1>14, <3>1, <3>2, <3>3, <3>4
  <2>3. QED
    BY <2>1, <2>2
<1>15. CASE UNCHANGED vars
  BY <1>15 DEF vars
<1>16. QED
  BY <1>4, <1>5, <1>6, <1>7, <1>8, <1>9, <1>10, <1>11, <1>12, <1>13, <1>14, <1>15
     DEF Next, Run, Handle

\* Run never meets a closed channel, for any number of connections that come,
\* go and fall behind while it broadcasts.
THEOREM RunNeverMeetsClosedChannels == Spec => []ServedChannelsAreOpen
<1>1. ServedInv => ServedChannelsAreOpen
  BY DEF ServedInv
<1>2. QED
  BY ServedInit, ServedStep, <1>1, PTL DEF Spec

-----------------------------------------------------------------------------
(* Why the handler may panic                                               *)

\* Before its pumps start a client is dropped only by Run, with a full channel,
\* and nothing takes out of that channel.
GreetInv ==
    /\ ServedInv
    /\ \A c \in Clients :
         /\ handler[c] = "greet" => writer[c] = "off" /\ reader[c] = "off"
         /\ handler[c] = "greet" /\ c \in shut => ~HasRoom(c)
         /\ handler[c] = "panicked" => ~HasRoom(c) /\ c \in shut /\ writer[c] = "off"

LEMMA GreetStep == GreetInv /\ [Next]_vars => GreetInv'
<1> SUFFICES ASSUME GreetInv, [Next]_vars PROVE GreetInv'
  OBVIOUS
<1> DEFINE Panics(c) ==
         /\ handler[c] = "greet" => writer[c] = "off" /\ reader[c] = "off"
         /\ handler[c] = "greet" /\ c \in shut => ~HasRoom(c)
         /\ handler[c] = "panicked" => ~HasRoom(c) /\ c \in shut /\ writer[c] = "off"
<1>1. /\ TypeOK /\ ServedChannelsAreOpen /\ todo \subseteq clients
      /\ \A c \in Clients : Unregistered(c)
      /\ \A c \in Clients : Panics(c)
  BY DEF GreetInv, ServedInv
<1>2. SUFFICES ASSUME NEW d \in Clients PROVE Panics(d)'
  BY ServedStep DEF GreetInv
<1>3. Panics(d) /\ Unregistered(d)
  BY <1>1
<1> USE DEF TypeOK, HasRoom
<1>4. CASE Emit
  BY <1>3, <1>4 DEF Emit
<1>5. CASE RunTake
  BY <1>3, <1>5 DEF RunTake
<1>6. ASSUME NEW c \in Clients, RunRegister(c) PROVE Panics(d)'
  BY <1>1, <1>3, <1>6 DEF RunRegister, Unregistered
<1>7. ASSUME NEW c \in Clients, RunUnregister(c) PROVE Panics(d)'
  BY <1>1, <1>3, <1>7 DEF RunUnregister
<1>8. ASSUME NEW c \in Clients, RunSend(c) PROVE Panics(d)'
  <2>1. c \notin shut
    BY <1>1, <1>8 DEF RunSend, ServedChannelsAreOpen
  <2>2. CASE d = c
    BY <1>1, <1>3, <1>8, <2>1, <2>2 DEF RunSend
  <2>3. CASE d # c
    BY <1>1, <1>3, <1>8, <2>3 DEF RunSend
  <2>4. QED
    BY <2>2, <2>3
<1>9. ASSUME NEW c \in Clients, RunDrop(c) PROVE Panics(d)'
  BY <1>1, <1>3, <1>9 DEF RunDrop
<1>10. ASSUME NEW c \in Clients, Upgrade(c) PROVE Panics(d)'
  BY <1>1, <1>3, <1>10 DEF Upgrade
<1>11. ASSUME NEW c \in Clients, Greet(c) PROVE Panics(d)'
  <2>1. CASE d = c
    BY <1>1, <1>3, <1>11, <2>1 DEF Greet
  <2>2. CASE d # c
    BY <1>1, <1>3, <1>11, <2>2 DEF Greet
  <2>3. QED
    BY <2>1, <2>2
<1>12. ASSUME NEW c \in Clients, StartPumps(c) PROVE Panics(d)'
  BY <1>1, <1>3, <1>12 DEF StartPumps
<1>13. ASSUME NEW c \in Clients, Take(c) PROVE Panics(d)'
  <2>1. CASE d = c
    BY <1>1, <1>3, <1>13, <2>1 DEF Take
  <2>2. CASE d # c
    BY <1>1, <1>3, <1>13, <2>2 DEF Take
  <2>3. QED
    BY <2>1, <2>2
<1>14. ASSUME NEW c \in Clients, Written(c) \/ WriterEnd(c) \/ ReaderEnd(c) \/ Break(c)
       PROVE  Panics(d)'
  BY <1>1, <1>3, <1>14 DEF Written, WriterEnd, ReaderEnd, Break
<1>15. CASE UNCHANGED vars
  BY <1>3, <1>15 DEF vars
<1>16. QED
  BY <1>4, <1>5, <1>6, <1>7, <1>8, <1>9, <1>10, <1>11, <1>12, <1>13, <1>14, <1>15
     DEF Next, Run, Handle

\* A browser that leaves while it is greeted never makes the handler panic; only
\* a client that fell behind does.
THEOREM OnlyOverflowMakesPanics == Spec => []OnlyOverflowPanics
<1>1. Init => GreetInv
  BY ServedInit DEF Init, GreetInv
<1>2. GreetInv => OnlyOverflowPanics
  BY DEF GreetInv, OnlyOverflowPanics
<1>3. QED
  BY <1>1, <1>2, GreetStep, PTL DEF Spec

-----------------------------------------------------------------------------
(* The hub implements Feed                                                 *)

\* What waits in a channel continues where its write pump is: the broadcasts in
\* it ascend and leave nothing out, from the last one taken on.
Ascends(c) ==
    \A i, j \in 1..Len(send[c]) : i < j /\ send[c][i] > 0 /\ send[c][j] > 0 => send[c][i] < send[c][j]

Bounded(c) == \A i \in 1..Len(send[c]) : send[c][i] > 0 => read[c] < send[c][i] /\ send[c][i] <= sent

Holds(c, n) == \E i \in 1..Len(send[c]) : send[c][i] = n

Gapless(c) ==
    \A i \in 1..Len(send[c]) : send[c][i] > 0 =>
        \A n \in (read[c] + 1)..send[c][i] : Holds(c, n)

\* A client in the map has been handed every broadcast since it registered, but
\* for the one of this round if it is still to be served.
UpToDate(c) ==
    /\ read[c] <= sent
    /\ c \in clients /\ c \notin todo => \A n \in (read[c] + 1)..sent : Holds(c, n)
    /\ c \in todo => /\ read[c] < sent
                     /\ \A n \in (read[c] + 1)..(sent - 1) : Holds(c, n)
                     /\ \A i \in 1..Len(send[c]) : send[c][i] < sent

Continues(c) == Ascends(c) /\ Bounded(c) /\ Gapless(c) /\ UpToDate(c)

FeedInv == ServedInv /\ \A c \in Clients : Continues(c)

\* A greeting in the channel takes no place among the broadcasts.
LEMMA GreetingKeepsFeed ==
    ASSUME TypeOK, NEW c \in Clients, Continues(c),
           send'[c] = Append(send[c], 0), read' = read, sent' = sent,
           clients' = clients, todo' = todo
    PROVE  Continues(c)'
<1> DEFINE s == send[c]
           u == send'[c]
<1>1. /\ s \in Seq(Nat) /\ Len(s) \in Nat /\ Len(u) = Len(s) + 1
      /\ \A i \in 1..Len(s) : u[i] = s[i]
      /\ u[Len(s) + 1] = 0
  BY AppendFacts DEF TypeOK
<1>2. \A n : Holds(c, n) => Holds(c, n)'
  BY <1>1 DEF Holds
<1>3. Ascends(c)' /\ Bounded(c)'
  BY <1>1 DEF Continues, Ascends, Bounded
<1>4. Gapless(c)'
  BY <1>1, <1>2 DEF Continues, Gapless
<1>5. UpToDate(c)'
  <2>1. UpToDate(c) /\ read[c] \in Nat /\ sent \in Nat
    BY DEF Continues, TypeOK
  <2>2. c \in todo => \A i \in 1..Len(u) : u[i] < sent
    BY <1>1, <2>1 DEF UpToDate
  <2>3. QED
    BY <1>2, <2>1, <2>2 DEF UpToDate
<1>6. QED
  BY <1>3, <1>4, <1>5 DEF Continues

\* Run hands message number sent to a client still to be served.
LEMMA SendKeepsFeed ==
    ASSUME TypeOK, NEW c \in Clients, Continues(c), c \in todo,
           send'[c] = Append(send[c], sent), read' = read, sent' = sent,
           clients' = clients, todo' = todo \ {c}
    PROVE  Continues(c)'
<1> DEFINE s == send[c]
           u == send'[c]
<1>1. /\ s \in Seq(Nat) /\ Len(s) \in Nat /\ Len(u) = Len(s) + 1
      /\ sent \in Nat /\ read[c] \in Nat
      /\ \A i \in 1..Len(s) : u[i] = s[i]
      /\ u[Len(s) + 1] = sent
  BY AppendFacts DEF TypeOK
<1>2. /\ \A n : Holds(c, n) => Holds(c, n)'
      /\ Holds(c, sent)'
  <2>1. \A n : Holds(c, n) => Holds(c, n)'
    BY <1>1 DEF Holds
  <2>2. \E i \in 1..Len(u) : u[i] = sent'
    BY <1>1
  <2>3. QED
    BY <2>1, <2>2 DEF Holds
<1>3. /\ read[c] < sent
      /\ \A n \in (read[c] + 1)..(sent - 1) : Holds(c, n)
      /\ \A i \in 1..Len(s) : s[i] < sent
  BY DEF Continues, UpToDate
<1>4. \A n \in (read[c] + 1)..sent : Holds(c, n)'
  <2>1. SUFFICES ASSUME NEW n \in (read[c] + 1)..sent PROVE Holds(c, n)'
    OBVIOUS
  <2>2. n = sent \/ n \in (read[c] + 1)..(sent - 1)
    BY <1>1
  <2>3. QED
    BY <1>2, <1>3, <2>2
<1>5. Ascends(c)'
  BY <1>1, <1>3 DEF Continues, Ascends
<1>6. Bounded(c)'
  BY <1>1, <1>3 DEF Continues, Bounded
<1>7. Gapless(c)'
  BY <1>1, <1>4, <1>6 DEF Gapless, Bounded
<1>8. UpToDate(c)'
  BY <1>1, <1>3, <1>4 DEF UpToDate
<1>9. QED
  BY <1>5, <1>6, <1>7, <1>8 DEF Continues

\* The write pump takes the next broadcast, or a greeting.
LEMMA TakeKeepsFeed ==
    ASSUME TypeOK, NEW c \in Clients, Continues(c), send[c] # <<>>,
           send'[c] = Tail(send[c]), sent' = sent, clients' = clients, todo' = todo,
           read'[c] = IF Head(send[c]) > 0 THEN Head(send[c]) ELSE read[c]
    PROVE  /\ Continues(c)'
           /\ Head(send[c]) > 0 => Head(send[c]) = read[c] + 1 /\ read[c] < sent
<1> DEFINE s == send[c]
           u == send'[c]
<1>1. /\ s \in Seq(Nat) /\ Len(s) \in Nat /\ Len(s) > 0 /\ Head(s) = s[1] /\ s[1] \in Nat
      /\ Len(u) = Len(s) - 1
      /\ \A i \in 1..Len(u) : u[i] = s[i + 1]
      /\ sent \in Nat /\ read[c] \in Nat
      /\ \A i \in 1..Len(s) : s[i] \in Nat
  BY TailFacts DEF TypeOK
<1>2. Ascends(c) /\ Bounded(c) /\ Gapless(c) /\ UpToDate(c)
  BY DEF Continues
<1>3. ASSUME s[1] > 0 PROVE s[1] = read[c] + 1 /\ read[c] < sent
  <2>1. read[c] < s[1] /\ s[1] <= sent
    BY <1>1, <1>2, <1>3 DEF Bounded
  <2>2. Holds(c, read[c] + 1)
    <3>1. 1 \in 1..Len(s) /\ read[c] + 1 \in (read[c] + 1)..s[1]
      BY <1>1, <2>1
    <3>2. \A n \in (read[c] + 1)..s[1] : Holds(c, n)
      BY <1>2, <1>3, <3>1 DEF Gapless
    <3>3. QED
      BY <3>1, <3>2
  <2>3. PICK j \in 1..Len(s) : s[j] = read[c] + 1
    BY <2>2 DEF Holds
  <2>4. j = 1 \/ s[1] < s[j]
    BY <1>1, <1>2, <1>3, <2>3 DEF Ascends
  <2>5. QED
    BY <1>1, <2>1, <2>3, <2>4
<1>4. read'[c] \in Nat /\ read[c] <= read'[c] /\ read'[c] <= sent
  BY <1>1, <1>2, <1>3 DEF UpToDate
<1>5. \A n : Holds(c, n) /\ n # s[1] => Holds(c, n)'
  <2>1. SUFFICES ASSUME NEW n, Holds(c, n), n # s[1] PROVE Holds(c, n)'
    OBVIOUS
  <2>2. PICK j \in 1..Len(s) : s[j] = n
    BY <2>1 DEF Holds
  <2>3. j # 1 /\ j - 1 \in 1..Len(u) /\ u[j - 1] = n
    BY <1>1, <2>1, <2>2, SMTT(30)
  <2>4. QED
    BY <2>3 DEF Holds
<1>6. \A n \in Nat : n > read'[c] => n > 0 /\ n > read[c] /\ n # s[1]
  BY <1>1, <1>3, <1>4
<1>7. Ascends(c)'
  BY <1>1, <1>2 DEF Ascends
<1>8. Bounded(c)'
  <2>1. SUFFICES ASSUME NEW i \in 1..Len(u), u[i] > 0 PROVE read'[c] < u[i] /\ u[i] <= sent
    BY DEF Bounded
  <2>2. i + 1 \in 1..Len(s) /\ s[i + 1] = u[i]
    BY <1>1
  <2>3. read[c] < u[i] /\ u[i] <= sent
    BY <1>2, <2>1, <2>2 DEF Bounded
  <2>4. s[1] > 0 => s[1] < u[i]
    BY <1>1, <1>2, <2>1, <2>2 DEF Ascends
  <2>5. QED
    BY <1>1, <2>3, <2>4
<1>9. Gapless(c)'
  <2>1. SUFFICES ASSUME NEW i \in 1..Len(u), u[i] > 0, NEW n \in (read'[c] + 1)..u[i]
                 PROVE  Holds(c, n)'
    BY DEF Gapless
  <2>2. i + 1 \in 1..Len(s) /\ s[i + 1] = u[i] /\ u[i] \in Nat
    BY <1>1
  <2>3. n \in Nat /\ n > read'[c] /\ n <= u[i]
    BY <1>4, <2>2
  <2>4. n \in (read[c] + 1)..s[i + 1] /\ n # s[1]
    BY <1>1, <1>6, <2>2, <2>3
  <2>5. Holds(c, n)
    BY <1>2, <2>1, <2>2, <2>4 DEF Gapless
  <2>6. QED
    BY <1>5, <2>4, <2>5
<1>10. UpToDate(c)'
  <2>1. \A m \in Int : (\A n \in (read[c] + 1)..m : Holds(c, n))
                       => \A n \in (read'[c] + 1)..m : Holds(c, n)'
    <3>1. SUFFICES ASSUME NEW m \in Int, \A n \in (read[c] + 1)..m : Holds(c, n),
                          NEW n \in (read'[c] + 1)..m
                   PROVE  Holds(c, n)'
      OBVIOUS
    <3>2. n \in Nat /\ n > read'[c] /\ n <= m
      BY <1>4
    <3>3. n \in (read[c] + 1)..m /\ n # s[1]
      BY <1>1, <1>6, <3>2
    <3>4. QED
      BY <1>5, <3>1, <3>3
  <2>2. c \in todo => read'[c] < sent /\ \A i \in 1..Len(u) : u[i] < sent
    BY <1>1, <1>2 DEF UpToDate
  <2>3. sent \in Int /\ sent - 1 \in Int
    BY <1>1
  <2>4. QED
    BY <1>2, <1>4, <2>1, <2>2, <2>3 DEF UpToDate
<1>11. QED
  BY <1>1, <1>3, <1>7, <1>8, <1>9, <1>10 DEF Continues

\* A client nobody sends to or takes from.
LEMMA OthersKeepFeed ==
    ASSUME NEW c \in Clients, Continues(c), send'[c] = send[c], read'[c] = read[c],
           sent' = sent, c \in clients' => c \in clients, c \in todo' <=> c \in todo
    PROVE  Continues(c)'
BY DEF Continues, Ascends, Bounded, Gapless, UpToDate, Holds

LEMMA FeedInit == Init => FeedInv
BY ServedInit DEF Init, FeedInv, Continues, Ascends, Bounded, Gapless, UpToDate, Holds

LEMMA FeedStep == FeedInv /\ [Next]_vars => FeedInv'
<1> SUFFICES ASSUME FeedInv, [Next]_vars PROVE FeedInv'
  OBVIOUS
<1>1. /\ ServedInv /\ TypeOK /\ todo \subseteq clients
      /\ \A c \in Clients : Continues(c) /\ Unregistered(c)
      /\ send \in [Clients -> Seq(Nat)] /\ read \in [Clients -> Nat] /\ sent \in Nat
  BY DEF FeedInv, ServedInv, TypeOK
<1>2. SUFFICES ASSUME NEW d \in Clients PROVE Continues(d)'
  BY <1>1, ServedStep DEF FeedInv
<1>3. Continues(d) /\ Unregistered(d)
  BY <1>1
<1>4. CASE Emit
  BY <1>3, <1>4, OthersKeepFeed DEF Emit
<1>5. CASE RunTake
  <2>1. /\ todo = {} /\ todo' = clients /\ clients' = clients /\ sent' = sent + 1
        /\ send' = send /\ read' = read
    BY <1>5 DEF RunTake
  <2>2. Ascends(d) /\ Bounded(d) /\ Gapless(d) /\ UpToDate(d)
    BY <1>3 DEF Continues
  <2>3. /\ \A n : Holds(d, n) => Holds(d, n)'
        /\ send[d] \in Seq(Nat) /\ read[d] \in Nat
    BY <1>1, <2>1 DEF Holds
  <2>4. Ascends(d)' /\ Gapless(d)'
    BY <2>1, <2>2, <2>3 DEF Ascends, Gapless
  <2>5. \A i \in 1..Len(send[d]) : send[d][i] \in Nat /\ send[d][i] < sent + 1
    BY <1>1, <2>2, <2>3 DEF Bounded
  <2>6. Bounded(d)'
    BY <1>1, <2>1, <2>2, <2>5 DEF Bounded
  <2>7. UpToDate(d)'
    BY <1>1, <2>1, <2>2, <2>3, <2>5 DEF UpToDate
  <2>8. QED
    BY <2>4, <2>6, <2>7 DEF Continues
<1>6. ASSUME NEW c \in Clients, RunRegister(c) PROVE Continues(d)'
  <2>1. CASE d = c
    <3>1. /\ send'[d] = <<>> /\ read'[d] = sent /\ sent' = sent /\ todo' = {}
      BY <1>1, <1>3, <1>6, <2>1 DEF RunRegister, Unregistered
    <3>2. Len(send'[d]) = 0
      BY <3>1
    <3>3. QED
      BY <1>1, <3>1, <3>2 DEF Continues, Ascends, Bounded, Gapless, UpToDate
  <2>2. CASE d # c
    BY <1>1, <1>3, <1>6, <2>2, OthersKeepFeed DEF RunRegister
  <2>3. QED
    BY <2>1, <2>2
<1>7. ASSUME NEW c \in Clients, RunUnregister(c) PROVE Continues(d)'
  BY <1>3, <1>7, OthersKeepFeed DEF RunUnregister
<1>8. ASSUME NEW c \in Clients, RunSend(c) PROVE Continues(d)'
  <2>1. CASE d = c
    BY <1>1, <1>3, <1>8, <2>1, SendKeepsFeed DEF RunSend
  <2>2. CASE d # c
    BY <1>1, <1>3, <1>8, <2>2, OthersKeepFeed DEF RunSend
  <2>3. QED
    BY <2>1, <2>2
<1>9. ASSUME NEW c \in Clients, RunDrop(c) PROVE Continues(d)'
  <2>1. CASE d = c
    <3>1. d \notin clients' /\ d \notin todo' /\ send' = send /\ read' = read /\ sent' = sent
      BY <1>9, <2>1 DEF RunDrop
    <3>2. QED
      BY <1>3, <3>1 DEF Continues, Ascends, Bounded, Gapless, UpToDate, Holds
  <2>2. CASE d # c
    BY <1>3, <1>9, <2>2, OthersKeepFeed DEF RunDrop
  <2>3. QED
    BY <2>1, <2>2
<1>10. ASSUME NEW c \in Clients, Greet(c) PROVE Continues(d)'
  <2>1. CASE send' = send
    BY <1>3, <1>10, <2>1, OthersKeepFeed DEF Greet
  <2>2. CASE send' = [send EXCEPT ![c] = Append(@, 0)]
    <3>1. CASE d = c
      BY <1>1, <1>3, <1>10, <2>2, <3>1, GreetingKeepsFeed DEF Greet
    <3>2. CASE d # c
      BY <1>1, <1>3, <1>10, <2>2, <3>2, OthersKeepFeed DEF Greet
    <3>3. QED
      BY <3>1, <3>2
  <2>3. QED
    BY <1>10, <2>1, <2>2 DEF Greet
<1>11. ASSUME NEW c \in Clients, Take(c) PROVE Continues(d)'
  <2>1. CASE d = c
    BY <1>1, <1>3, <1>11, <2>1, TakeKeepsFeed DEF Take
  <2>2. CASE d # c
    BY <1>1, <1>3, <1>11, <2>2, OthersKeepFeed DEF Take
  <2>3. QED
    BY <2>1, <2>2
<1>12. ASSUME NEW c \in Clients, Upgrade(c) \/ StartPumps(c) \/ Written(c) \/ WriterEnd(c)
                                 \/ ReaderEnd(c) \/ Break(c)
       PROVE  Continues(d)'
  BY <1>3, <1>12, OthersKeepFeed DEF Upgrade, StartPumps, Written, WriterEnd, ReaderEnd, Break
<1>13. CASE UNCHANGED vars
  BY <1>3, <1>13, OthersKeepFeed DEF vars
<1>14. QED
  BY <1>4, <1>5, <1>6, <1>7, <1>8, <1>9, <1>10, <1>11, <1>12, <1>13 DEF Next, Run, Handle

\* Every dashboard is given all broadcasts from its registration on, in order
\* and without gaps, until its connection ends: Hub implements Feed, for any
\* number of browsers, slow ones and lost ones included.
THEOREM HubImplementsFeed == Spec => FeedSpec
<1> DEFINE J == {c \in Clients : handler[c] \notin {"away", "register"}}
<1>1. Init => Dashboards!Init
  BY DEF Init, Dashboards!Init
<1>2. ASSUME FeedInv, [Next]_vars PROVE [Dashboards!Next]_(Dashboards!vars)
  <2>1. /\ TypeOK /\ handler \in [Clients -> {"away", "register", "greet", "done", "panicked"}]
        /\ read \in [Clients -> Nat] /\ sent \in 0..emitted /\ emitted \in Nat
        /\ \A c \in Clients : Continues(c) /\ Unregistered(c)
    BY <1>2 DEF FeedInv, ServedInv, TypeOK
  <2>2. CASE Emit
    BY <2>2 DEF Emit, Dashboards!Next, Dashboards!Emit
  <2>3. ASSUME NEW c \in Clients, RunRegister(c) PROVE Dashboards!Join(c)
    <3>1. c \notin J /\ J' = J \cup {c}
      BY <2>1, <2>3 DEF RunRegister
    <3>2. sent \in 0..emitted /\ read' = [read EXCEPT ![c] = sent] /\ emitted' = emitted
      BY <2>1, <2>3 DEF RunRegister
    <3>3. QED
      BY <3>1, <3>2 DEF Dashboards!Join
  <2>4. ASSUME NEW c \in Clients, Take(c) PROVE [Dashboards!Deliver(c)]_(Dashboards!vars)
    <3>1. /\ J' = J /\ emitted' = emitted
          /\ read' = [read EXCEPT ![c] = IF Head(send[c]) > 0 THEN Head(send[c]) ELSE @]
      BY <2>4 DEF Take
    <3>2. CASE Head(send[c]) > 0
      <4>1. Head(send[c]) = read[c] + 1 /\ read[c] < sent
        BY <2>1, <2>4, <3>1, <3>2, TakeKeepsFeed DEF Take, TypeOK
      <4>2. c \in J
        BY <2>1, <2>4 DEF Take, Unregistered
      <4>3. read[c] < emitted
        BY <2>1, <4>1
      <4>4. read' = [read EXCEPT ![c] = @ + 1]
        BY <3>1, <3>2, <4>1
      <4>5. Dashboards!Deliver(c)
        BY <3>1, <4>2, <4>3, <4>4 DEF Dashboards!Deliver
      <4>6. QED
        BY <4>5
    <3>3. CASE ~(Head(send[c]) > 0)
      <4>1. read' = read
        BY <2>1, <3>1, <3>3
      <4>2. QED
        BY <3>1, <4>1 DEF Dashboards!vars
    <3>4. QED
      BY <3>2, <3>3
  <2>5. ASSUME emitted' = emitted, J' = J, read' = read PROVE UNCHANGED Dashboards!vars
    BY <2>5 DEF Dashboards!vars
  <2>6. CASE RunTake \/ \E c \in Clients : RunUnregister(c) \/ RunSend(c) \/ RunDrop(c)
    BY <2>5, <2>6 DEF RunTake, RunUnregister, RunSend, RunDrop
  <2>7. ASSUME NEW c \in Clients, Upgrade(c) \/ Greet(c) \/ StartPumps(c)
        PROVE  UNCHANGED Dashboards!vars
    <3>1. emitted' = emitted /\ read' = read
      BY <2>7 DEF Upgrade, Greet, StartPumps
    <3>2. \A d \in Clients : handler[d] \in {"away", "register"} <=> handler'[d] \in {"away", "register"}
      BY <2>1, <2>7 DEF Upgrade, Greet, StartPumps
    <3>3. J' = J
      BY <3>2
    <3>4. QED
      BY <2>5, <3>1, <3>3
  <2>8. CASE \E c \in Clients : Written(c) \/ WriterEnd(c) \/ ReaderEnd(c) \/ Break(c)
    BY <2>5, <2>8 DEF Written, WriterEnd, ReaderEnd, Break
  <2>9. CASE UNCHANGED vars
    BY <2>5, <2>9 DEF vars
  <2>10. QED
    BY <1>2, <2>2, <2>3, <2>4, <2>6, <2>7, <2>8, <2>9 DEF Next, Run, Handle, Dashboards!Next
<1>3. QED
  BY FeedInit, FeedStep, <1>1, <1>2, PTL DEF Spec, FeedSpec, Dashboards!Spec

=============================================================================
