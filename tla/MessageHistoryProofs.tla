------------------------ MODULE MessageHistoryProofs ------------------------
(***************************************************************************)
(* Proofs, for any number of clients, hops and messages, of what a         *)
(* received history says.  The invariant follows a history through every   *)
(* place it is kept in: it is open, that is its last entry is not sent,    *)
(* with the hop that received it, and odd with clients, even with the      *)
(* server.  The object that a sender holds is closed, and stays closed     *)
(* while other senders complete it again.                                  *)
(***************************************************************************)
EXTENDS MessageHistoryProperties, SequenceTheorems, TLAPS

Entries == [name : Clients \cup {Server}, recv : Nat, send : Nat \cup {NotSent}, perf : Int]

\* h is a history at time n: hops alternate, times are in order, only the last entry may be open.
Sound(h, n) ==
    /\ h \in Seq(Entries)
    /\ Len(h) > 0
    /\ \A k \in 1..Len(h) :
          /\ h[k].name = Server <=> k % 2 = 0
          /\ h[k].recv <= n
          /\ h[k].send # NotSent => h[k].recv <= h[k].send /\ h[k].send <= n
    /\ \A k \in 1..(Len(h) - 1) : h[k].send # NotSent /\ h[k].send <= h[k + 1].recv

Open(h) == h[Len(h)].send = NotSent
Odd(h) == Len(h) % 2 = 1

\* The histories a client keeps, sends, gets, and the server keeps and sends, at time n.
Kept(n) == {h \in Seq(Entries) : Sound(h, n) /\ Odd(h) /\ Open(h)}
Got(n, c) == {h \in Kept(n) : h[Len(h)].name = c}
Uplink(n) == {h \in Seq(Entries) : Sound(h, n) /\ Odd(h) /\ ~Open(h)}
Object(n) == {h \in Seq(Entries) : Sound(h, n) /\ ~Odd(h)}
Downlink(n) == {h \in Object(n) : ~Open(h)}

Inv ==
    /\ now \in Nat
    /\ sendQ \in [Clients -> Seq(Kept(now))]
    /\ up \in [Clients -> Seq(Uplink(now))]
    /\ objects \in Seq(Object(now))
    /\ notifyQ \in [Clients -> Seq(1..Len(objects))]
    /\ holds \in [Clients -> 0..Len(objects)]
    /\ \A c \in Clients : holds[c] # 0 => ~Open(objects[holds[c]])
    /\ down \in [Clients -> Seq(Downlink(now))]
    /\ received \in [Clients -> Seq(Kept(now))]
    /\ \A c \in Clients : received[c] \in Seq(Got(now, c))

-----------------------------------------------------------------------------
\* A history keeps its properties as time passes.
LEMMA Later ==
    ASSUME NEW n \in Nat, NEW h, Sound(h, n)
    PROVE  Sound(h, n + 1)
  <1>1. \A k \in 1..Len(h) : h[k] \in Entries
    BY DEF Sound
  <1> QED BY <1>1 DEF Sound, Entries, NotSent

\* Arrive appends an open entry to a closed history.
LEMMA ArriveSound ==
    ASSUME now \in Nat, Uptime \in Int, NEW h, Sound(h, now), ~Open(h),
           NEW name \in Clients \cup {Server}, name = Server <=> Odd(h)
    PROVE  /\ Sound(Arrive(h, name), now)
           /\ Open(Arrive(h, name))
           /\ Odd(Arrive(h, name)) <=> ~Odd(h)
           /\ Arrive(h, name)[Len(Arrive(h, name))].name = name
  <1> DEFINE e == [name |-> name, recv |-> now, send |-> NotSent, perf |-> PerfCounter]
  <1>1. e \in Entries
    BY DEF Entries, NotSent, PerfCounter
  <1>2. PICK g : g = Arrive(h, name)
    OBVIOUS
  <1>3. /\ g \in Seq(Entries) /\ Len(g) = Len(h) + 1 /\ g[Len(h) + 1] = e
        /\ \A k \in 1..Len(h) : g[k] = h[k]
    BY <1>1, <1>2 DEF Arrive, Sound
  <1>4. \A k \in 1..Len(h) : h[k] \in Entries
    BY DEF Sound
  <1>5. Len(h) \in Nat /\ Len(h) > 0
    BY DEF Sound
  <1>6. (Len(h) + 1) % 2 = 0 <=> Len(h) % 2 = 1
    BY <1>5
  <1>6a. (Len(h) + 1) % 2 = 1 <=> ~(Len(h) % 2 = 1)
    BY <1>5
  <1>7. Open(g) /\ g[Len(g)].name = name /\ (Odd(g) <=> ~Odd(h))
    BY <1>3, <1>6a DEF Open, Odd
  <1>8. ASSUME NEW k \in 1..Len(g)
        PROVE  /\ g[k].name = Server <=> k % 2 = 0
               /\ g[k].recv <= now
               /\ g[k].send # NotSent => g[k].recv <= g[k].send /\ g[k].send <= now
    <2>1. CASE k \in 1..Len(h)
      BY <2>1, <1>3 DEF Sound
    <2>2. CASE k = Len(h) + 1
      BY <2>2, <1>3, <1>6 DEF Odd
    <2> QED BY <2>1, <2>2, <1>3, <1>5
  <1>9. ASSUME NEW k \in 1..(Len(g) - 1)
        PROVE  g[k].send # NotSent /\ g[k].send <= g[k + 1].recv
    <2>1. CASE k \in 1..(Len(h) - 1)
      <3>1. k \in 1..Len(h) /\ k + 1 \in 1..Len(h)
        BY <2>1, <1>5
      <3> QED BY <2>1, <3>1, <1>3 DEF Sound
    <2>2. CASE k = Len(h)
      <3>1. g[k] = h[k] /\ g[k + 1].recv = now
        BY <2>2, <1>3, <1>5
      <3>2. h[k].send # NotSent /\ h[k].send <= now
        BY <2>2, <1>5 DEF Open, Sound
      <3> QED BY <3>1, <3>2
    <2> QED BY <2>1, <2>2, <1>3, <1>5
  <1>10. Sound(g, now)
    BY <1>3, <1>5, <1>8, <1>9 DEF Sound
  <1> QED BY <1>2, <1>7, <1>10

\* Complete closes the last entry, were it open or not.
LEMMA CompleteSound ==
    ASSUME now \in Nat, Uptime \in Int, NEW h, Sound(h, now)
    PROVE  /\ Sound(Complete(h), now)
           /\ ~Open(Complete(h))
           /\ Odd(Complete(h)) <=> Odd(h)
  <1>1. Len(h) \in Nat /\ Len(h) > 0 /\ Len(h) \in 1..Len(h)
    BY DEF Sound
  <1>2. \A k \in 1..Len(h) : h[k] \in Entries
    BY DEF Sound
  <1>3. PICK g : g = Complete(h)
    OBVIOUS
  <1>4. PICK l : l = h[Len(h)] /\ l \in Entries
    BY <1>1, <1>2
  <1>4a. PICK p : p = [l EXCEPT !.perf = PerfCounter - l.perf]
    OBVIOUS
  <1>4b. p \in Entries /\ p.name = l.name /\ p.recv = l.recv
    BY <1>4, <1>4a DEF Entries, PerfCounter
  <1>4c. PICK e : e = [p EXCEPT !.send = now]
    OBVIOUS
  <1>5. /\ e \in Entries /\ e.send = now
        /\ e.name = h[Len(h)].name /\ e.recv = h[Len(h)].recv
    BY <1>4, <1>4b, <1>4c DEF Entries
  <1>6. g = [h EXCEPT ![Len(h)] = e]
    BY <1>1, <1>3, <1>4, <1>4a, <1>4c DEF Complete, Sound
  <1>7. /\ g \in Seq(Entries) /\ Len(g) = Len(h) /\ g[Len(h)] = e
        /\ \A k \in 1..Len(h) : k # Len(h) => g[k] = h[k]
    BY <1>1, <1>5, <1>6 DEF Sound
  <1>8. ~Open(g) /\ (Odd(g) <=> Odd(h))
    BY <1>5, <1>7 DEF Open, Odd, NotSent
  <1>9. ASSUME NEW k \in 1..Len(g)
        PROVE  /\ g[k].name = Server <=> k % 2 = 0
               /\ g[k].recv <= now
               /\ g[k].send # NotSent => g[k].recv <= g[k].send /\ g[k].send <= now
    <2>1. CASE k = Len(h)
      BY <2>1, <1>1, <1>5, <1>7 DEF Sound
    <2>2. CASE k # Len(h)
      BY <2>2, <1>7 DEF Sound
    <2> QED BY <2>1, <2>2
  <1>10. ASSUME NEW k \in 1..(Len(g) - 1)
         PROVE  g[k].send # NotSent /\ g[k].send <= g[k + 1].recv
    <2>1. k \in 1..(Len(h) - 1) /\ k \in 1..Len(h) /\ k # Len(h) /\ k + 1 \in 1..Len(h)
      BY <1>1, <1>7
    <2>2. g[k] = h[k] /\ g[k + 1].recv = h[k + 1].recv
      BY <2>1, <1>5, <1>7
    <2> QED BY <2>1, <2>2 DEF Sound
  <1>11. Sound(g, now)
    BY <1>1, <1>7, <1>9, <1>10 DEF Sound
  <1> QED BY <1>3, <1>8, <1>11

\* Sequences over a larger set.
LEMMA Wider ==
    ASSUME NEW S, NEW T, S \subseteq T, NEW s \in Seq(S)
    PROVE  s \in Seq(T)
  OBVIOUS

\* A sequence without its element i, as Relay leaves it.
LEMMA Without ==
    ASSUME NEW S, NEW s \in Seq(S), NEW i \in 1..Len(s)
    PROVE  SubSeq(s, 1, i - 1) \o SubSeq(s, i + 1, Len(s)) \in Seq(S)
  <1>1. SubSeq(s, 1, i - 1) \in Seq(S) /\ SubSeq(s, i + 1, Len(s)) \in Seq(S)
    OBVIOUS
  <1> QED BY <1>1, ConcatProperties

-----------------------------------------------------------------------------
LEMMA InvInit == Init => Inv
  BY DEF Init, Inv

\* Every step keeps every history where it belongs.
LEMMA InvStep ==
    ASSUME Server \notin Clients, Uptime \in Int, Inv, [Next]_vars
    PROVE  Inv'
  <1> USE DEF vars, clientVars, serverVars
  <1>1. CASE UNCHANGED vars
    BY <1>1 DEF Inv
  <1>2. CASE Tick
    <2>1. now' = now + 1 /\ now \in Nat /\ UNCHANGED <<clientVars, serverVars>>
      BY <1>2 DEF Tick, Inv
    <2>2. \A h : Sound(h, now) => Sound(h, now')
      BY <2>1, Later
    <2>3. /\ Kept(now) \subseteq Kept(now') /\ Uplink(now) \subseteq Uplink(now')
          /\ Object(now) \subseteq Object(now')
      BY <2>2 DEF Kept, Uplink, Object
    <2>4. /\ Downlink(now) \subseteq Downlink(now')
          /\ \A c : Got(now, c) \subseteq Got(now', c)
      BY <2>3 DEF Downlink, Got
    <2>5. \A c \in Clients : /\ sendQ[c] \in Seq(Kept(now')) /\ up[c] \in Seq(Uplink(now'))
                             /\ down[c] \in Seq(Downlink(now'))
                             /\ received[c] \in Seq(Kept(now'))
                             /\ received[c] \in Seq(Got(now', c))
      BY <2>3, <2>4, Wider DEF Inv
    <2>6. objects \in Seq(Object(now'))
      BY <2>3, Wider DEF Inv
    <2> QED BY <2>1, <2>5, <2>6 DEF Inv
  <1>3. ASSUME NEW c \in Clients, SendData(c) PROVE Inv'
    <2>1. PICK h : h = Arrive(<<>>, c)
      OBVIOUS
    <2>2. h = <<[name |-> c, recv |-> now, send |-> NotSent, perf |-> PerfCounter]>>
      BY <2>1 DEF Arrive
    <2>3. h \in Kept(now)
      <3>1. now \in Nat
        BY DEF Inv
      <3>2. [name |-> c, recv |-> now, send |-> NotSent, perf |-> PerfCounter] \in Entries
        BY <3>1 DEF Entries, PerfCounter
      <3>3. /\ h \in Seq(Entries) /\ Len(h) = 1 /\ h[1].name = c
            /\ h[1].recv = now /\ h[1].send = NotSent
        BY <2>2, <3>2
      <3>4. Sound(h, now)
        BY <3>1, <3>3 DEF Sound
      <3>5. Odd(h) /\ Open(h)
        <4>1. 1 % 2 = 1
          OBVIOUS
        <4> QED BY <4>1, <3>3 DEF Odd, Open
      <3> QED BY <3>3, <3>4, <3>5 DEF Kept
    <2>4. /\ sendQ' = [sendQ EXCEPT ![c] = Append(sendQ[c], h)]
          /\ UNCHANGED <<now, up, objects, notifyQ, holds, down, received>>
      BY <1>3, <2>1 DEF SendData
    <2> QED BY <2>3, <2>4 DEF Inv
  <1>4. ASSUME NEW c \in Clients, Relay(c) PROVE Inv'
    <2>1. PICK i \in 1..Len(received[c]) :
             /\ sendQ' = [sendQ EXCEPT ![c] = Append(sendQ[c], received[c][i])]
             /\ received' = [received EXCEPT ![c] =
                   SubSeq(received[c], 1, i - 1) \o SubSeq(received[c], i + 1, Len(received[c]))]
             /\ UNCHANGED <<now, up, objects, notifyQ, holds, down>>
      BY <1>4 DEF Relay
    <2>2. received[c][i] \in Kept(now)
      BY DEF Inv
    <2>3. sendQ' \in [Clients -> Seq(Kept(now))]
      BY <2>1, <2>2 DEF Inv
    <2>4. PICK t : t = SubSeq(received[c], 1, i - 1) \o SubSeq(received[c], i + 1, Len(received[c]))
      OBVIOUS
    <2>5. t \in Seq(Kept(now)) /\ t \in Seq(Got(now, c))
      BY <2>4, Without DEF Inv
    <2>6. received' = [received EXCEPT ![c] = t]
      BY <2>1, <2>4
    <2>7. /\ received' \in [Clients -> Seq(Kept(now))]
          /\ \A d \in Clients : received'[d] \in Seq(Got(now, d))
      BY <2>5, <2>6 DEF Inv
    <2> QED BY <2>1, <2>3, <2>7 DEF Inv
  <1>5. ASSUME NEW c \in Clients, Generate(c) PROVE Inv'
    <2>1. sendQ[c] # <<>> /\ Head(sendQ[c]) \in Kept(now) /\ now \in Nat
      BY <1>5 DEF Inv, Generate
    <2>2. PICK h : h = Complete(Head(sendQ[c]))
      OBVIOUS
    <2>3. h \in Uplink(now)
      <3>1. Sound(h, now) /\ ~Open(h) /\ Odd(h)
        BY <2>1, <2>2, CompleteSound DEF Kept
      <3> QED BY <3>1 DEF Uplink, Sound
    <2>4. /\ up' = [up EXCEPT ![c] = Append(up[c], h)]
          /\ sendQ' = [sendQ EXCEPT ![c] = Tail(sendQ[c])]
          /\ UNCHANGED <<now, objects, notifyQ, holds, down, received>>
      BY <1>5, <2>2 DEF Generate
    <2>5. Tail(sendQ[c]) \in Seq(Kept(now)) /\ Append(up[c], h) \in Seq(Uplink(now))
      BY <2>1, <2>3 DEF Inv
    <2> QED BY <2>4, <2>5 DEF Inv
  <1>6. ASSUME NEW c \in Clients, Receive(c) PROVE Inv'
    <2>1. down[c] # <<>> /\ Head(down[c]) \in Downlink(now) /\ now \in Nat
      BY <1>6 DEF Inv, Receive
    <2>2. PICK h : h = Arrive(Head(down[c]), c)
      OBVIOUS
    <2>3. h \in Got(now, c)
      <3>1. Sound(h, now) /\ Open(h) /\ Odd(h) /\ h[Len(h)].name = c
        BY <2>1, <2>2, ArriveSound DEF Downlink, Object
      <3> QED BY <3>1 DEF Got, Kept, Sound
    <2>4. /\ received' = [received EXCEPT ![c] = Append(received[c], h)]
          /\ down' = [down EXCEPT ![c] = Tail(down[c])]
          /\ UNCHANGED <<now, sendQ, up, objects, notifyQ, holds>>
      BY <1>6, <2>2 DEF Receive
    <2>5. h \in Kept(now)
      BY <2>3 DEF Got
    <2>6. /\ Append(received[c], h) \in Seq(Kept(now))
          /\ Append(received[c], h) \in Seq(Got(now, c))
          /\ Tail(down[c]) \in Seq(Downlink(now))
      BY <2>1, <2>3, <2>5 DEF Inv
    <2> QED BY <2>4, <2>6 DEF Inv
  <1>7. ASSUME NEW c \in Clients, ServerReceive(c) PROVE Inv'
    <2>1. up[c] # <<>> /\ Head(up[c]) \in Uplink(now) /\ now \in Nat
      BY <1>7 DEF Inv, ServerReceive
    <2>2. PICK h : h = Arrive(Head(up[c]), Server)
      OBVIOUS
    <2>3. h \in Object(now)
      <3>1. Sound(h, now) /\ ~Odd(h)
        BY <2>1, <2>2, ArriveSound DEF Uplink
      <3> QED BY <3>1 DEF Object, Sound
    <2>4. /\ up' = [up EXCEPT ![c] = Tail(up[c])]
          /\ objects' = Append(objects, h)
          /\ UNCHANGED <<now, sendQ, received, holds, down>>
      BY <1>7, <2>2 DEF ServerReceive
    <2>5. Tail(up[c]) \in Seq(Uplink(now))
      BY <2>1 DEF Inv
    <2>6. /\ objects' \in Seq(Object(now)) /\ Len(objects') = Len(objects) + 1
          /\ \A i \in 1..Len(objects) : objects'[i] = objects[i]
          /\ Len(objects) \in Nat
      BY <2>3, <2>4 DEF Inv
    <2>7. 1..Len(objects) \subseteq 1..Len(objects') /\ Len(objects') \in 1..Len(objects')
      BY <2>6
    <2>8. ASSUME NEW d \in Clients
          PROVE  notifyQ'[d] \in Seq(1..Len(objects'))
      <3> DEFINE Old == 1..Len(objects)
                 New == 1..Len(objects')
      <3>a. Old \subseteq New /\ notifyQ[d] \in Seq(Old) /\ Len(objects') \in New
        BY <2>7 DEF Inv
      <3> SUFFICES notifyQ'[d] \in Seq(New)
        OBVIOUS
      <3> HIDE DEF Old, New
      <3>1. notifyQ[d] \in Seq(New)
        BY <3>a, Wider
      <3>2. notifyQ'[d] = notifyQ[d] \/ notifyQ'[d] = Append(notifyQ[d], Len(objects'))
        BY <1>7 DEF ServerReceive
      <3>3. PICK n : n = Len(objects') /\ n \in New
        BY <3>a
      <3>4. Append(notifyQ[d], n) \in Seq(New)
        BY <3>1, <3>3
      <3> QED BY <3>1, <3>2, <3>3, <3>4
    <2>9. notifyQ' \in [Clients -> Seq(1..Len(objects'))]
      BY <2>8, <1>7 DEF ServerReceive
    <2>10. /\ holds' \in [Clients -> 0..Len(objects')]
           /\ \A d \in Clients : holds'[d] # 0 => ~Open(objects'[holds'[d]])
      <3>1. \A d \in Clients : holds'[d] = holds[d] /\ holds[d] \in 0..Len(objects')
        BY SMTT(30), <2>4, <2>6 DEF Inv
      <3>2. ASSUME NEW d \in Clients, holds[d] # 0
            PROVE  objects'[holds[d]] = objects[holds[d]] /\ ~Open(objects[holds[d]])
        BY SMTT(30), <3>2, <2>6 DEF Inv
      <3> QED BY <2>4, <3>1, <3>2 DEF Inv
    <2> QED BY <2>4, <2>5, <2>6, <2>9, <2>10 DEF Inv
  <1>8. ASSUME NEW c \in Clients, SenderCompletes(c) PROVE Inv'
    <2>1. PICK o : o = Head(notifyQ[c])
      OBVIOUS
    <2>2. /\ notifyQ[c] # <<>> /\ o \in 1..Len(objects) /\ objects[o] \in Object(now)
          /\ now \in Nat
      BY <1>8, <2>1 DEF Inv, SenderCompletes
    <2>3. PICK h : h = Complete(objects[o])
      OBVIOUS
    <2>4. h \in Object(now) /\ ~Open(h)
      <3>1. Sound(h, now) /\ ~Open(h) /\ ~Odd(h)
        BY <2>2, <2>3, CompleteSound DEF Object
      <3> QED BY <3>1 DEF Object, Sound
    <2>5. /\ holds' = [holds EXCEPT ![c] = o]
          /\ notifyQ' = [notifyQ EXCEPT ![c] = Tail(notifyQ[c])]
          /\ objects' = [objects EXCEPT ![o] = h]
          /\ UNCHANGED <<now, sendQ, up, received, down>>
      BY <1>8, <2>1, <2>3 DEF SenderCompletes
    <2>6. /\ objects' \in Seq(Object(now)) /\ Len(objects') = Len(objects)
          /\ objects'[o] = h
          /\ \A i \in 1..Len(objects) : i # o => objects'[i] = objects[i]
      BY <2>2, <2>4, <2>5 DEF Inv
    <2>7. Tail(notifyQ[c]) \in Seq(1..Len(objects))
      BY <2>2 DEF Inv
    <2>8. notifyQ' \in [Clients -> Seq(1..Len(objects'))]
      BY <2>5, <2>6, <2>7 DEF Inv
    <2>9. holds' \in [Clients -> 0..Len(objects')]
      BY <2>2, <2>5, <2>6 DEF Inv
    <2>10. ASSUME NEW d \in Clients, holds'[d] # 0
           PROVE  ~Open(objects'[holds'[d]])
      <3>1. CASE holds'[d] = o
        BY <3>1, <2>4, <2>6
      <3>2. CASE holds'[d] # o
        <4>1. holds'[d] = holds[d] /\ holds[d] \in 1..Len(objects) /\ ~Open(objects[holds[d]])
          BY <2>5, <2>10, <3>2 DEF Inv
        <4> QED BY <4>1, <3>2, <2>6
      <3> QED BY <3>1, <3>2
    <2> QED BY <2>5, <2>6, <2>8, <2>9, <2>10 DEF Inv
  <1>9. ASSUME NEW c \in Clients, SenderYields(c) PROVE Inv'
    <2>1. PICK h : h = objects[holds[c]]
      OBVIOUS
    <2>2. h \in Downlink(now)
      <3>1. holds[c] \in 1..Len(objects) /\ ~Open(h) /\ objects[holds[c]] \in Object(now)
        BY <1>9, <2>1 DEF SenderYields, Inv
      <3> QED BY <3>1, <2>1 DEF Downlink
    <2>3. /\ down' = [down EXCEPT ![c] = Append(down[c], h)]
          /\ holds' = [holds EXCEPT ![c] = 0]
          /\ UNCHANGED <<now, sendQ, up, received, objects, notifyQ>>
      BY <1>9, <2>1 DEF SenderYields
    <2>4. Append(down[c], h) \in Seq(Downlink(now))
      BY <2>2 DEF Inv
    <2>5. /\ holds' \in [Clients -> 0..Len(objects)]
          /\ \A d \in Clients : holds'[d] # 0 => holds'[d] = holds[d]
      BY <2>3 DEF Inv
    <2> QED BY <2>3, <2>4, <2>5 DEF Inv
  <1> QED BY <1>1, <1>2, <1>3, <1>4, <1>5, <1>6, <1>7, <1>8, <1>9 DEF Next

\* Server is no client's name: the histories in every place are as Inv says.
LEMMA InvHolds == ASSUME Server \notin Clients, Uptime \in Int PROVE Spec => []Inv
  BY InvInit, InvStep, PTL DEF Spec

-----------------------------------------------------------------------------
\* However many hops relay a message and however many senders share its object in the server,
\* a received history names every hop once and in order and ends with its receiver.
THEOREM HopsInOrderHolds ==
    ASSUME Server \notin Clients, Uptime \in Int
    PROVE  Spec => []HopsInOrder
  <1>1. ASSUME Inv PROVE HopsInOrder
    <2> USE DEF HopsInOrder
    <2> TAKE c \in Clients
    <2> TAKE i \in DOMAIN received[c]
    <2> DEFINE h == received[c][i]
    <2> HIDE DEF h
    <2>1. h \in Got(now, c)
      BY <1>1 DEF Inv, h
    <2>2. h \in Seq(Entries) /\ DOMAIN h = 1..Len(h) /\ Len(h) \in Nat
      BY <2>1 DEF Got, Kept, Sound
    <2>3. ASSUME NEW k \in 1..Len(h) PROVE h[k].send = NotSent <=> k = Len(h)
      <3>1. ASSUME NEW n \in Nat, k \in 1..n PROVE k = n \/ k \in 1..(n - 1)
        BY <3>1
      <3>2. k = Len(h) \/ k \in 1..(Len(h) - 1)
        BY <3>1, <2>2
      <3> QED BY <3>2, <2>1 DEF Got, Kept, Sound, Open
    <2> QED BY <2>1, <2>2, <2>3 DEF Got, Kept, Sound, Odd, h
  <1> QED BY <1>1, InvHolds, PTL

\* With synchronised clocks the transit times of a received history are never negative.
THEOREM TimesInOrderHolds ==
    ASSUME Server \notin Clients, Uptime \in Int
    PROVE  Spec => []TimesInOrder
  <1>1. ASSUME Inv PROVE TimesInOrder
    <2> SUFFICES ASSUME NEW h \in Delivered, NEW k \in 1..(Len(h) - 1)
                 PROVE  h[k].recv <= h[k].send /\ h[k].send <= h[k + 1].recv
      BY DEF TimesInOrder
    <2>1. PICK c \in Clients : \E i \in DOMAIN received[c] : h = received[c][i]
      BY DEF Delivered
    <2>2. Sound(h, now)
      <3>1. received[c] \in Seq(Kept(now)) /\ h \in Kept(now)
        BY <1>1, <2>1 DEF Inv
      <3> QED BY <3>1 DEF Kept
    <2>3. k \in 1..Len(h)
      BY <2>2 DEF Sound
    <2> QED BY <2>2, <2>3 DEF Sound
  <1> QED BY <1>1, InvHolds, PTL
=============================================================================
