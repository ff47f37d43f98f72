---------------------------- MODULE XhciRingProofs ----------------------------
(***************************************************************************)
(* Proofs about XhciRing for rings of every size and any number of laps:   *)
(* the ring is a queue of commands, a wait is told of the command it was   *)
(* for, and the handler is not interrupted for nothing, as long as a port  *)
(* event is acknowledged once.                                             *)
(***************************************************************************)
EXTENDS XhciRing, TLAPS

-----------------------------------------------------------------------------
(* Where the commands are.  Entry w is the next one to be written, after    *)
(* command p, and the one a lap before it is at or behind w.                *)
Place(w, p, c) == IF p - c < w THEN w - 1 - (p - c) ELSE Link + w - 1 - (p - c)

W == IF pc = "clear" THEN currentEntry + 1 ELSE currentEntry
SlotOf(c) == Place(W, posted, c)

Written ==
  /\ \A c \in 1 .. posted : posted - c < Link => ring[SlotOf(c)].cmd = c
  /\ \A i \in 0 .. Link-1 :
       ring[i].cycle = IF i < W THEN cycle_state ELSE 1 - cycle_state

\* The controller is in the driver's lap, in the one before, or, since the
\* link is the controller's from the start, at the start of the next.
SameLap ==
  /\ cycle = cycle_state /\ dequeue <= W
  /\ posted - executed = W - dequeue
LapBehind ==
  /\ cycle = 1 - cycle_state /\ ring[Link].cycle = cycle /\ W <= dequeue
  /\ posted - executed = Link - dequeue + W
LapAhead ==
  cycle = 1 - cycle_state /\ dequeue = 0 /\ W = Link /\ executed = posted

Lap == SameLap \/ LapBehind \/ LapAhead

(* The batch under way: the first one, or one that begins after Base.       *)
ToWrite == IF pc = "clear" THEN todo - 1 ELSE todo
Base == IF pc = "idle" THEN posted ELSE posted + ToWrite - shape.batch
Told(b) == IF b = 0 THEN 0 ELSE IF b = shape.first THEN 1 ELSE b

Opening ==
  /\ shape.first > 0 /\ told = 0 /\ posted + ToWrite = shape.first
  /\ pc = "idle" => posted = 0
  /\ posted > 0 /\ (pc = "clear" => posted # 1) => await = SlotOf(1)
Later ==
  /\ shape.first <= Base /\ (Base - shape.first) % shape.batch = 0
  /\ told = Told(Base) /\ todo <= shape.batch
  /\ pc = "idle" => todo = 0
  /\ pc \in {"ring", "wait"} => await = SlotOf(posted)

Batch ==
  /\ Opening \/ Later
  /\ pc \in {"alloc", "clear"} => todo > 0
  /\ pc \in {"ring", "wait"} => todo = 0
  /\ pc = "clear" => currentEntry < Link /\ posted > 0
  /\ pc # "idle" => posted + ToWrite <= MaxPosts
  /\ told <= executed /\ executed <= posted

(* The events the handler has not looked at.                                *)
Front == IF isr = "out" THEN dequeueTrb ELSE Advance(dequeueTrb)
Rank(f, i) == IF i >= f THEN i - f ELSE i - f + EventEntries
Window == {i \in 0 .. EventEntries-1 : Rank(Front, i) < Rank(Front, enqueue)}
CmdOf(i) == ring[events[i]-1].cmd

Reported ==
  /\ \A i \in Window :
       \/ events[i] = -1
       \/ /\ events[i] - 1 \in 0 .. Link-1
          /\ CmdOf(i) \in told+1 .. executed /\ SlotOf(CmdOf(i)) = events[i] - 1
  /\ \A i, j \in Window :
       events[i] > 0 /\ events[j] > 0 /\ Rank(Front, i) < Rank(Front, j)
         => CmdOf(i) < CmdOf(j)

\* A descriptor of this batch that is marked tells of its own command, and
\* no event of an earlier command is to come.
Noted ==
  \A c \in told+1 .. posted :
    (pc = "clear" => c # posted) /\ cmdDesc[SlotOf(c)].complete =>
      /\ cmdDesc[SlotOf(c)].cmd = c /\ c <= executed
      /\ \A i \in Window : events[i] > 0 => c < CmdOf(i)

Pending ==
  /\ isr # "out" => enqueue # dequeueTrb /\ acks = 1
  /\ interrupt_pending /\ isr \in {"out", "acked"} => enqueue # Front

\* The type invariant in four parts.
TypeRing ==
  /\ ring \in [Slots -> [cmd : 0 .. MaxPosts, cycle : {0, 1}]]
  /\ cmdDesc \in [Slots -> [complete : BOOLEAN, cmd : 0 .. MaxPosts]]
TypeDriver ==
  /\ cycle_state \in {0, 1} /\ currentEntry \in Slots
  /\ pc \in {"idle", "alloc", "clear", "ring", "wait"}
  /\ todo \in Nat /\ await \in 0 .. Link-1
  /\ posted \in 0 .. MaxPosts /\ told \in 0 .. MaxPosts
  /\ shape \in Shapes /\ raced \in BOOLEAN
TypeXhc ==
  /\ dequeue \in Slots /\ cycle \in {0, 1} /\ active \in BOOLEAN
  /\ executed \in 0 .. MaxPosts
TypeEvents ==
  /\ enqueue \in 0 .. EventEntries-1 /\ dequeueTrb \in 0 .. EventEntries-1
  /\ events \in [0 .. EventEntries-1 -> Int]
  /\ interrupt_pending \in BOOLEAN /\ isr \in {"out", "handled", "acked"}
  /\ acks \in Nat /\ ports \in 0 .. MaxPorts

Types == TypeRing /\ TypeDriver /\ TypeXhc /\ TypeEvents

RingInv == Types /\ Batch /\ Written /\ Lap /\ Reported /\ Noted /\ Pending

-----------------------------------------------------------------------------
(* Arithmetic of the places.                                                *)
LEMMA PlaceFacts ==
  ASSUME Link \in Nat, NEW w \in 0 .. Link, NEW p \in Nat, NEW c \in Nat,
         c <= p, p - c < Link
  PROVE  Place(w, p, c) \in 0 .. Link-1
BY DEF Place

LEMMA PlaceDistinct ==
  ASSUME Link \in Nat, NEW w \in 0 .. Link, NEW p \in Nat,
         NEW c \in Nat, c <= p, p - c < Link,
         NEW d \in Nat, d <= p, p - d < Link, c # d
  PROVE  Place(w, p, c) # Place(w, p, d)
BY DEF Place

\* The command written at w takes its place and leaves the others theirs.
LEMMA PlaceWritten ==
  ASSUME Link \in Nat, NEW w \in 0 .. Link-1, NEW p \in Nat
  PROVE  /\ Place(w+1, p+1, p+1) = w
         /\ \A c \in Nat : c <= p => Place(w+1, p+1, c) = Place(w, p, c)
         /\ \A c \in Nat : c <= p /\ p+1 - c < Link => Place(w, p, c) # w
BY DEF Place

LEMMA PlaceWrapped ==
  ASSUME Link \in Nat, NEW p \in Nat, NEW c \in Nat, c <= p, p - c < Link
  PROVE  Place(0, p, c) = Place(Link, p, c)
BY DEF Place

LEMMA PlaceNext ==
  ASSUME Link \in Nat, NEW w \in 0 .. Link, NEW p \in Nat, NEW d \in 0 .. Link-1,
         NEW e \in Nat, e < p,
         p - e = w - d \/ (w <= d /\ p - e = Link - d + w /\ p - e <= Link)
  PROVE  Place(w, p, e+1) = d /\ e+1 <= p /\ p - (e+1) < Link
BY DEF Place

\* Batches follow one another.
LEMMA DivUnique ==
  ASSUME NEW q \in Nat, NEW r \in Nat, NEW d \in Nat \ {0}, r < d
  PROVE  (q * d + r) % d = r
OBVIOUS

LEMMA DivMod ==
  ASSUME NEW x \in Nat, NEW d \in Nat \ {0}
  PROVE  x \div d \in Nat /\ (x \div d) * d + (x % d) = x
OBVIOUS

LEMMA ModStep ==
  ASSUME NEW b \in Nat \ {0}, NEW x \in Nat, x % b = 0, NEW r \in 1 .. b
  PROVE  (x + r) % b = IF r = b THEN 0 ELSE r
<1>1. PICK q \in Nat : x = q * b
  <2>1. x \div b \in Nat /\ (x \div b) * b + (x % b) = x
    BY DivMod
  <2>2. (x \div b) * b \in Nat
    BY <2>1
  <2>3. (x \div b) * b = x
    BY <2>1, <2>2
  <2>4. QED
    BY <2>1, <2>3
<1>2. CASE r = b
  <2>1. (q + 1) * b = q * b + b
    OBVIOUS
  <2>2. x + r = (q + 1) * b + 0
    BY <1>1, <1>2, <2>1
  <2>3. ((q + 1) * b + 0) % b = 0
    BY DivUnique
  <2>4. QED
    BY <1>2, <2>2, <2>3
<1>3. CASE r # b
  <2>1. (q * b + r) % b = r
    BY <1>3, DivUnique
  <2>2. QED
    BY <1>1, <1>3, <2>1
<1>4. QED
  BY <1>2, <1>3

LEMMA ModZero ==
  ASSUME NEW b \in Nat \ {0}
  PROVE  0 % b = 0
OBVIOUS

LEMMA ModNext ==
  ASSUME NEW n \in Nat, n > 1, NEW e \in 0 .. n-1
  PROVE  (e + 1) % n = IF e = n - 1 THEN 0 ELSE e + 1
OBVIOUS

(* The event ring from the handler's place on.                              *)
LEMMA RankFacts ==
  ASSUME NEW f \in 0 .. EventEntries-1, NEW i \in 0 .. EventEntries-1,
         NEW j \in 0 .. EventEntries-1
  PROVE  /\ Rank(f, i) \in 0 .. EventEntries-1
         /\ Rank(f, i) = Rank(f, j) => i = j
         /\ Rank(f, f) = 0
         /\ (Rank(f, i) = 0) = (i = f)
BY RingAssumption DEF Rank

LEMMA AdvanceFacts ==
  ASSUME NEW f \in 0 .. EventEntries-1
  PROVE  /\ Advance(f) \in 0 .. EventEntries-1 /\ Advance(f) # f
         /\ (f + 1) % EventEntries = Advance(f)
BY RingAssumption, ModNext DEF Advance

LEMMA RankAdvanced ==
  ASSUME NEW f \in 0 .. EventEntries-1, NEW i \in 0 .. EventEntries-1, i # f
  PROVE  Rank(Advance(f), i) = Rank(f, i) - 1
BY RingAssumption DEF Rank, Advance

LEMMA RankGrows ==
  ASSUME NEW f \in 0 .. EventEntries-1, NEW e \in 0 .. EventEntries-1, Advance(e) # f
  PROVE  Rank(f, Advance(e)) = Rank(f, e) + 1
BY RingAssumption DEF Rank, Advance

-----------------------------------------------------------------------------
(* Sizes, and how many commands may be out.                                 *)
LEMMA Sizes ==
  ASSUME Types
  PROVE  /\ shape.first \in Nat /\ shape.batch \in Nat \ {0}
         /\ Link \in Nat \ {0} /\ shape.first + shape.batch <= Link
         /\ shape.batch < Link
BY RingAssumption DEF Types, TypeDriver, Link

LEMMA Counts ==
  ASSUME Types
  PROVE  /\ posted \in Nat /\ executed \in Nat /\ told \in Nat /\ todo \in Nat
         /\ currentEntry \in 0 .. Link /\ dequeue \in 0 .. Link
BY RingAssumption DEF Types, TypeRing, TypeDriver, TypeXhc, Slots, Link

LEMMA WInRing ==
  ASSUME Types, Batch
  PROVE  W \in 0 .. Link /\ ToWrite \in Nat
BY Counts, Sizes DEF W, ToWrite, Batch

LEMMA Outstanding ==
  ASSUME Types, Batch
  PROVE  /\ posted - told < Link
         /\ pc = "alloc" => posted + 1 - told < Link
<1>1. /\ posted \in Nat /\ told \in Nat /\ todo \in Nat /\ ToWrite \in Nat
      /\ pc = "alloc" => ToWrite > 0
      /\ pc \in {"alloc", "clear", "ring", "wait", "idle"}
  BY Counts, WInRing DEF Batch, ToWrite, Types, TypeDriver
<1>2. CASE Opening
  BY <1>1, <1>2, Sizes DEF Opening
<1>3. CASE Later
  <2>1. CASE pc = "idle"
    BY <1>1, <1>3, <2>1, Sizes DEF Later, Base, Told
  <2>2. CASE pc # "idle"
    <3>1. posted = Base + shape.batch - ToWrite /\ Base \in Nat
      BY <1>1, <1>3, <2>2, Sizes DEF Later, Base
    <3>2. PICK b : b = Base
      OBVIOUS
    <3>3. b \in Nat /\ shape.first <= b
      BY <1>3, <3>1, <3>2 DEF Later
    <3>4. told = IF b = 0 THEN 0 ELSE IF b = shape.first THEN 1 ELSE b
      BY <1>3, <3>2 DEF Later, Told
    <3>5. posted = b + shape.batch - ToWrite
      BY <3>1, <3>2
    <3>6. QED
      BY <1>1, <3>3, <3>4, <3>5, Sizes
  <2>3. QED
    BY <2>1, <2>2
<1>4. QED
  BY <1>2, <1>3 DEF Batch

\* The commands out are in the ring, each in an entry of its own.
LEMMA SlotFacts ==
  ASSUME RingInv
  PROVE  /\ \A c \in told+1 .. posted :
              /\ c \in 1 .. posted /\ posted - c < Link
              /\ SlotOf(c) \in 0 .. Link-1 /\ SlotOf(c) \in Slots
              /\ ring[SlotOf(c)].cmd = c
         /\ \A c, d \in told+1 .. posted : c # d => SlotOf(c) # SlotOf(d)
<1> USE DEF RingInv, Types
<1>1. /\ posted \in Nat /\ told \in Nat /\ W \in 0 .. Link /\ Link \in Nat
      /\ posted - told < Link
  BY Counts, Sizes, WInRing, Outstanding
<1>2. \A c \in told+1 .. posted : c \in 1 .. posted /\ posted - c < Link /\ c \in Nat /\ c <= posted
  BY <1>1
<1>3. \A c \in told+1 .. posted : SlotOf(c) \in 0 .. Link-1
  BY <1>1, <1>2, PlaceFacts DEF SlotOf
<1>4. \A c \in told+1 .. posted : SlotOf(c) \in Slots
  BY <1>3, RingAssumption DEF Slots, Link
<1>5. \A c, d \in told+1 .. posted : c # d => SlotOf(c) # SlotOf(d)
  BY <1>1, <1>2, PlaceDistinct DEF SlotOf
<1>6. QED
  BY <1>2, <1>3, <1>4, <1>5 DEF Written

-----------------------------------------------------------------------------
(* What a step leaves as it is.                                             *)
LEMMA EventsStill ==
  ASSUME UNCHANGED <<enqueue, dequeueTrb, isr>>
  PROVE  Window' = Window /\ Front' = Front
BY DEF Window, Front, Advance, Rank

LEMMA ReportedFrame ==
  ASSUME RingInv, UNCHANGED <<events, enqueue, dequeueTrb, isr, told>>,
         executed' \in Nat, executed <= executed',
         \A c \in told+1 .. posted : SlotOf(c)' = SlotOf(c)
                                    /\ ring'[SlotOf(c)].cmd = ring[SlotOf(c)].cmd
  PROVE  /\ Reported'
         /\ \A i \in Window : events[i] > 0 => CmdOf(i)' = CmdOf(i)
<1>1. Window' = Window /\ Front' = Front
  BY EventsStill
<1>2. /\ posted \in Nat /\ executed \in Nat /\ told \in Nat /\ executed <= posted
  BY Counts DEF RingInv, Batch
<1>3. ASSUME NEW i \in Window, events[i] # -1
      PROVE  /\ events[i] - 1 \in 0 .. Link-1 /\ CmdOf(i) \in told+1 .. executed
             /\ SlotOf(CmdOf(i)) = events[i] - 1
             /\ CmdOf(i)' = CmdOf(i) /\ SlotOf(CmdOf(i))' = SlotOf(CmdOf(i))
  <2>1. /\ events[i] - 1 \in 0 .. Link-1 /\ CmdOf(i) \in told+1 .. executed
        /\ SlotOf(CmdOf(i)) = events[i] - 1
    BY <1>3 DEF RingInv, Reported
  <2>2. CmdOf(i) \in told+1 .. posted
    BY <1>2, <2>1
  <2>3. PICK c \in told+1 .. posted : c = CmdOf(i)
    BY <2>2
  <2>4. ring'[SlotOf(c)].cmd = ring[SlotOf(c)].cmd /\ SlotOf(c)' = SlotOf(c)
    BY <2>3
  <2>5. ring'[events[i]-1].cmd = ring[events[i]-1].cmd
    BY <2>1, <2>3, <2>4
  <2>6. CmdOf(i)' = CmdOf(i)
    BY <2>5 DEF CmdOf
  <2>7. SlotOf(CmdOf(i))' = SlotOf(c)'
    BY <2>3, <2>6 DEF SlotOf
  <2>8. QED
    BY <2>1, <2>3, <2>4, <2>6, <2>7
<1>4. \A i \in Window : events[i] > 0 => events[i] # -1
  OBVIOUS
<1>5. ASSUME NEW i \in Window
      PROVE  \/ events'[i] = -1
             \/ /\ events'[i] - 1 \in 0 .. Link-1 /\ CmdOf(i)' \in told'+1 .. executed'
                /\ SlotOf(CmdOf(i))' = events'[i] - 1
  BY <1>2, <1>3
<1>6. ASSUME NEW i \in Window, NEW j \in Window, events[i] > 0, events[j] > 0,
             Rank(Front, i) < Rank(Front, j)
      PROVE  CmdOf(i)' < CmdOf(j)'
  <2>1. CmdOf(i)' = CmdOf(i) /\ CmdOf(j)' = CmdOf(j)
    BY <1>3, <1>4, <1>6
  <2>2. CmdOf(i) < CmdOf(j)
    BY <1>6 DEF RingInv, Reported
  <2>3. QED
    BY <2>1, <2>2
<1>7. \A i, j : Rank(Front, i)' = Rank(Front, i)
  BY <1>1 DEF Rank
<1>8. Reported'
  <2>1. \A i \in Window' : \/ events'[i] = -1
             \/ /\ events'[i] - 1 \in 0 .. Link-1 /\ CmdOf(i)' \in told'+1 .. executed'
                /\ SlotOf(CmdOf(i))' = events'[i] - 1
    BY <1>1, <1>5
  <2>2. \A i, j \in Window' :
          events'[i] > 0 /\ events'[j] > 0 /\ Rank(Front, i)' < Rank(Front, j)'
            => CmdOf(i)' < CmdOf(j)'
    BY <1>1, <1>6, <1>7
  <2>3. QED
    BY <2>1, <2>2 DEF Reported, Link
<1>9. QED
  BY <1>3, <1>4, <1>8

LEMMA NotedFrame ==
  ASSUME RingInv, UNCHANGED <<events, enqueue, dequeueTrb, isr, told>>,
         executed' \in Nat, executed <= executed',
         \A i \in Window : events[i] > 0 => CmdOf(i)' = CmdOf(i),
         \A c \in told+1 .. posted' : (pc' = "clear" => c # posted') =>
           \/ ~cmdDesc'[SlotOf(c)'].complete
           \/ /\ c \in told+1 .. posted /\ (pc = "clear" => c # posted)
              /\ cmdDesc'[SlotOf(c)'] = cmdDesc[SlotOf(c)]
  PROVE  Noted'
<1>1. Window' = Window /\ told' = told /\ events' = events
  BY EventsStill
<1>2. executed \in Nat
  BY Counts DEF RingInv
<1> SUFFICES ASSUME NEW c \in told+1 .. posted', pc' = "clear" => c # posted',
                    cmdDesc'[SlotOf(c)'].complete
             PROVE  /\ cmdDesc'[SlotOf(c)'].cmd = c /\ c <= executed'
                    /\ \A i \in Window : events[i] > 0 => c < CmdOf(i)'
  BY <1>1 DEF Noted
<1>3. /\ c \in told+1 .. posted /\ (pc = "clear" => c # posted)
      /\ cmdDesc'[SlotOf(c)'] = cmdDesc[SlotOf(c)]
  OBVIOUS
<1>4. /\ cmdDesc[SlotOf(c)].cmd = c /\ c <= executed
      /\ \A i \in Window : events[i] > 0 => c < CmdOf(i)
  BY <1>3 DEF RingInv, Noted
<1>5. \A i \in Window : events[i] > 0 => c < CmdOf(i)'
  BY <1>4
<1>6. c \in Nat
  BY Counts DEF RingInv
<1>7. QED
  BY <1>2, <1>3, <1>4, <1>5, <1>6

LEMMA PendingFrame ==
  ASSUME Pending, UNCHANGED <<enqueue, dequeueTrb, isr, acks, interrupt_pending>>
  PROVE  Pending'
BY DEF Pending, Front, Advance

-----------------------------------------------------------------------------
LEMMA InitInv == Init => RingInv
<1> SUFFICES ASSUME Init PROVE RingInv
  OBVIOUS
<1> USE DEF Init
<1>1. /\ shape.first \in Nat /\ shape.batch \in Nat \ {0} /\ Link \in Nat \ {0}
      /\ Link \in Slots /\ 0 \in Slots /\ 0 \in 0 .. Link-1
      /\ 0 \in 0 .. EventEntries-1 /\ 0 \in 0 .. MaxPosts /\ 0 \in 0 .. MaxPorts
  <2>1. Entries \in Nat /\ Entries > shape.first + shape.batch
        /\ shape.first \in Nat /\ shape.batch \in Nat \ {0}
    BY RingAssumption
  <2>2. QED
    BY <2>1, RingAssumption DEF Link, Slots
<1>2. TypeRing
  <2>1. ring \in [Slots -> [cmd : 0 .. MaxPosts, cycle : {0, 1}]]
    BY <1>1
  <2>2. cmdDesc \in [Slots -> [complete : BOOLEAN, cmd : 0 .. MaxPosts]]
    BY <1>1 DEF Cleared
  <2>3. QED
    BY <2>1, <2>2 DEF TypeRing
<1>3. TypeDriver /\ TypeXhc
  BY <1>1 DEF TypeDriver, TypeXhc
<1>4. TypeEvents
  <2>1. events \in [0 .. EventEntries-1 -> Int]
    OBVIOUS
  <2>2. QED
    BY <1>1, <2>1 DEF TypeEvents
<1>5. W = 0 /\ ToWrite = shape.first /\ Base = 0
  BY DEF W, ToWrite, Base
<1>6. Batch
  <2>1. CASE shape.first > 0
    BY <1>1, <1>5, <2>1, RingAssumption DEF Batch, Opening
  <2>2. CASE ~(shape.first > 0)
    <3>1. shape.first = 0 /\ 0 % shape.batch = 0
      BY <1>1, <2>2, ModZero
    <3>2. Later
      BY <1>1, <1>5, <3>1 DEF Later, Told
    <3>3. QED
      BY <1>1, <1>5, <3>1, <3>2, RingAssumption DEF Batch
  <2>3. QED
    BY <2>1, <2>2
<1>7. Written
  <2>1. \A i \in 0 .. Link-1 : i \in Slots /\ i # Link
    BY <1>1, RingAssumption DEF Slots, Link
  <2>2. QED
    BY <1>1, <1>5, <2>1 DEF Written
<1>8. Lap
  BY <1>5 DEF Lap, SameLap
<1>9. Window = {}
  <2>1. Front = 0 /\ Rank(0, 0) = 0
    BY DEF Front, Rank
  <2>2. \A i \in 0 .. EventEntries-1 : Rank(0, i) \in 0 .. EventEntries-1
    BY <1>1, RankFacts
  <2>3. QED
    BY <2>1, <2>2 DEF Window
<1>10. Reported /\ Noted
  BY <1>9 DEF Reported, Noted
<1>11. Pending
  BY DEF Pending
<1>12. QED
  BY <1>2, <1>3, <1>4, <1>6, <1>7, <1>8, <1>10, <1>11 DEF RingInv, Types

-----------------------------------------------------------------------------
(* The driver.                                                              *)
LEMMA BeginKeeps ==
  ASSUME RingInv, Begin
  PROVE  RingInv'
<1> USE DEF RingInv, Types
<1>1. /\ pc = "idle" /\ isr = "out" /\ pc' = "alloc" /\ raced' = FALSE
      /\ todo' = (IF todo = 0 THEN shape.batch ELSE todo)
      /\ posted + todo' <= MaxPosts
  BY DEF Begin, At
<1>2. UNCHANGED <<ring, cycle_state, currentEntry, cmdDesc, await, posted, told,
                  shape, dequeue, cycle, active, executed, events, enqueue,
                  dequeueTrb, interrupt_pending, isr, acks, ports>>
  BY DEF Begin, xhc, eventRing
<1>3. /\ todo \in Nat /\ shape.batch \in Nat \ {0} /\ shape.first \in Nat
      /\ posted \in Nat /\ told \in Nat /\ executed \in Nat
  BY Counts, Sizes
<1>4. Types'
  <2>1. TypeDriver'
    BY <1>1, <1>2, <1>3 DEF TypeDriver, Slots, Link
  <2>2. TypeRing' /\ TypeXhc' /\ TypeEvents'
    BY <1>2 DEF TypeRing, TypeXhc, TypeEvents, Slots
  <2>3. QED
    BY <2>1, <2>2
<1>5. W' = W /\ \A c : SlotOf(c)' = SlotOf(c)
  BY <1>1, <1>2 DEF W, SlotOf, Place, Link
<1>6. ToWrite' = todo' /\ ToWrite = todo
  BY <1>1 DEF ToWrite
<1>7. Batch'
  <2>1. CASE Opening
    <3>1. posted = 0 /\ todo = shape.first /\ todo > 0 /\ todo' = todo
      BY <1>1, <1>3, <1>6, <2>1 DEF Opening
    <3>2. Opening'
      BY <1>1, <1>2, <1>3, <1>6, <2>1, <3>1 DEF Opening
    <3>3. QED
      BY <1>1, <1>2, <1>3, <1>6, <3>1, <3>2 DEF Batch
  <2>2. CASE Later
    <3>1. todo = 0 /\ todo' = shape.batch
      BY <1>1, <2>2 DEF Later
    <3>2. Base = posted /\ Base' = posted
      BY <1>1, <1>2, <1>3, <1>6, <3>1 DEF Base
    <3>3. Later'
      BY <1>1, <1>2, <1>3, <2>2, <3>1, <3>2 DEF Later, Told
    <3>4. QED
      BY <1>1, <1>2, <1>3, <1>6, <3>1, <3>3 DEF Batch
  <2>3. QED
    BY <2>1, <2>2 DEF Batch
<1>8. Written'
  BY <1>2, <1>5 DEF Written, Link
<1>9. Lap'
  BY <1>2, <1>5 DEF Lap, SameLap, LapBehind, LapAhead, Link
<1>10. Reported' /\ \A i \in Window : events[i] > 0 => CmdOf(i)' = CmdOf(i)
  BY <1>2, <1>3, <1>5, ReportedFrame
<1>11. Noted'
  BY <1>1, <1>2, <1>3, <1>5, <1>10, NotedFrame
<1>12. Pending'
  BY <1>2, PendingFrame
<1>13. QED
  BY <1>4, <1>7, <1>8, <1>9, <1>10, <1>11, <1>12

LEMMA AllocWrapKeeps ==
  ASSUME RingInv, AllocWrap
  PROVE  RingInv'
<1> USE DEF RingInv, Types
<1>1. /\ pc = "alloc" /\ isr = "out" /\ currentEntry >= Link
      /\ ring' = [ring EXCEPT ![Link].cycle = cycle_state]
      /\ cycle_state' = 1 - cycle_state /\ currentEntry' = 0
  BY DEF AllocWrap, At, Flip
<1>2. UNCHANGED <<cmdDesc, pc, todo, await, posted, told, shape, raced, dequeue,
                  cycle, active, executed, events, enqueue, dequeueTrb,
                  interrupt_pending, isr, acks, ports>>
  BY DEF AllocWrap, kind, xhc, eventRing
<1>3. /\ posted \in Nat /\ told \in Nat /\ executed \in Nat /\ todo \in Nat
      /\ currentEntry \in 0 .. Link /\ Link \in Nat \ {0} /\ dequeue \in 0 .. Link
      /\ cycle_state \in {0, 1} /\ told <= executed
  BY Counts, Sizes DEF TypeDriver, Batch
<1>4. W = Link /\ W' = 0
  BY <1>1, <1>2, <1>3 DEF W
<1>5. /\ Link \in Slots /\ 0 \in Slots
      /\ \A i \in 0 .. Link-1 : i \in Slots /\ i # Link
  BY <1>3, RingAssumption DEF Slots, Link
<1>6. /\ \A i \in Slots : ring'[i].cmd = ring[i].cmd
      /\ \A i \in 0 .. Link-1 : ring'[i] = ring[i]
      /\ ring'[Link].cycle = cycle_state
      /\ ring' \in [Slots -> [cmd : 0 .. MaxPosts, cycle : {0, 1}]]
  <2>1. ring \in [Slots -> [cmd : 0 .. MaxPosts, cycle : {0, 1}]]
    BY DEF TypeRing
  <2>2. QED
    BY <1>1, <1>3, <1>5, <2>1
<1>7. Types'
  <2>1. TypeRing'
    BY <1>2, <1>6 DEF TypeRing, Slots
  <2>2. TypeDriver'
    BY <1>1, <1>2, <1>3, <1>5 DEF TypeDriver, Slots, Link
  <2>3. TypeXhc' /\ TypeEvents'
    BY <1>2 DEF TypeXhc, TypeEvents, Slots
  <2>4. QED
    BY <2>1, <2>2, <2>3
<1>8. \A c \in Nat : c <= posted /\ posted - c < Link => SlotOf(c)' = SlotOf(c)
  <2>1. ASSUME NEW c \in Nat, c <= posted, posted - c < Link
        PROVE  SlotOf(c)' = SlotOf(c)
    <3>1. Place(0, posted, c) = Place(Link, posted, c)
      BY <1>3, <2>1, PlaceWrapped
    <3>2. SlotOf(c)' = Place(0, posted, c)
      BY <1>2, <1>4 DEF SlotOf, Place, Link
    <3>3. SlotOf(c) = Place(Link, posted, c)
      BY <1>4 DEF SlotOf
    <3>4. QED
      BY <3>1, <3>2, <3>3
  <2>2. QED
    BY <2>1
<1>9. posted - told < Link
  BY Outstanding
<1>10. \A c \in told+1 .. posted :
         /\ c \in Nat /\ c <= posted /\ posted - c < Link
         /\ SlotOf(c)' = SlotOf(c) /\ ring'[SlotOf(c)].cmd = ring[SlotOf(c)].cmd
  <2>1. \A c \in told+1 .. posted : c \in Nat /\ c <= posted /\ posted - c < Link
    BY <1>3, <1>9
  <2>2. QED
    BY <1>6, <1>8, <2>1, SlotFacts
<1>11. Batch'
  <2>1. ToWrite' = ToWrite /\ Base' = Base
    BY <1>2 DEF ToWrite, Base
  <2>2. CASE Opening
    <3>1. posted > 0 => 1 \in told+1 .. posted
      BY <1>3, <2>2 DEF Opening
    <3>2. posted > 0 => SlotOf(1)' = SlotOf(1)
      BY <1>10, <3>1
    <3>3. Opening'
      BY <1>1, <1>2, <2>1, <2>2, <3>2 DEF Opening
    <3>4. QED
      BY <1>1, <1>2, <2>1, <3>3 DEF Batch
  <2>3. CASE Later
    <3>1. Later'
      BY <1>1, <1>2, <2>1, <2>3 DEF Later, Told
    <3>2. QED
      BY <1>1, <1>2, <2>1, <3>1 DEF Batch
  <2>4. QED
    BY <2>2, <2>3 DEF Batch
<1>12. Written'
  <2>1. ASSUME NEW c \in 1 .. posted, posted - c < Link
        PROVE  ring'[SlotOf(c)'].cmd = c
    <3>1. c \in Nat /\ c <= posted
      BY <1>3
    <3>2. SlotOf(c)' = SlotOf(c) /\ SlotOf(c) \in 0 .. Link-1
      BY <1>3, <1>4, <1>8, <2>1, <3>1, PlaceFacts DEF SlotOf
    <3>3. ring'[SlotOf(c)].cmd = ring[SlotOf(c)].cmd
      BY <1>5, <1>6, <3>2
    <3>4. QED
      BY <2>1, <3>2, <3>3 DEF Written
  <2>2. ASSUME NEW i \in 0 .. Link-1
        PROVE  ring'[i].cycle = IF i < W' THEN cycle_state' ELSE 1 - cycle_state'
    <3>1. ring[i].cycle = cycle_state
      BY <1>3, <1>4 DEF Written
    <3>2. ~(i < W')
      BY <1>3, <1>4
    <3>3. QED
      BY <1>1, <1>3, <1>6, <3>1, <3>2
  <2>3. QED
    BY <1>2, <2>1, <2>2 DEF Written, Link
<1>13. Lap'
  <2>1. CASE SameLap
    <3>1. LapBehind'
      BY <1>1, <1>2, <1>3, <1>4, <1>6, <2>1 DEF SameLap, LapBehind, Link
    <3>2. QED
      BY <3>1 DEF Lap
  <2>2. CASE LapBehind
    BY <1>3, <1>4, <1>9, <2>2 DEF LapBehind
  <2>3. CASE LapAhead
    <3>1. SameLap'
      BY <1>1, <1>2, <1>3, <1>4, <2>3 DEF SameLap, LapAhead
    <3>2. QED
      BY <3>1 DEF Lap
  <2>4. QED
    BY <2>1, <2>2, <2>3 DEF Lap
<1>14. Reported' /\ \A i \in Window : events[i] > 0 => CmdOf(i)' = CmdOf(i)
  BY <1>2, <1>3, <1>10, ReportedFrame
<1>15. Noted'
  BY <1>2, <1>3, <1>10, <1>14, NotedFrame
<1>16. Pending'
  BY <1>2, PendingFrame
<1>17. QED
  BY <1>7, <1>11, <1>12, <1>13, <1>14, <1>15, <1>16

LEMMA AllocWriteKeeps ==
  ASSUME RingInv, AllocWrite
  PROVE  RingInv'
<1> USE DEF RingInv, Types
<1>1. /\ pc = "alloc" /\ isr = "out" /\ currentEntry < Link /\ pc' = "clear"
      /\ posted' = posted + 1
      /\ ring' = [ring EXCEPT ![currentEntry] = [cmd |-> posted', cycle |-> cycle_state]]
      /\ raced' = (raced \/ active)
  BY DEF AllocWrite, At
<1>2. UNCHANGED <<cycle_state, currentEntry, cmdDesc, todo, await, told, shape,
                  dequeue, cycle, active, executed, events, enqueue, dequeueTrb,
                  interrupt_pending, isr, acks, ports>>
  BY DEF AllocWrite, xhc, eventRing
<1>3. /\ posted \in Nat /\ told \in Nat /\ executed \in Nat /\ todo \in Nat
      /\ currentEntry \in 0 .. Link-1 /\ Link \in Nat \ {0} /\ dequeue \in 0 .. Link
      /\ cycle_state \in {0, 1} /\ told <= executed /\ executed <= posted
      /\ shape.first \in Nat /\ shape.batch \in Nat \ {0}
      /\ posted - told < Link /\ posted + 1 - told < Link
      /\ todo > 0 /\ posted + todo <= MaxPosts
  BY <1>1, Counts, Sizes, Outstanding DEF TypeDriver, Batch, ToWrite
<1>4. W = currentEntry /\ W' = currentEntry + 1 /\ ToWrite = todo /\ ToWrite' = todo - 1
  BY <1>1, <1>2 DEF W, ToWrite
<1>5. /\ currentEntry \in Slots /\ Link \in Slots /\ Link # currentEntry
      /\ \A i \in 0 .. Link-1 : i \in Slots
  BY <1>3, RingAssumption DEF Slots, Link
<1>6. posted' \in 0 .. MaxPosts
  BY <1>1, <1>3, RingAssumption
<1>7. /\ \A i \in Slots : i # currentEntry => ring'[i] = ring[i]
      /\ ring'[currentEntry] = [cmd |-> posted', cycle |-> cycle_state]
      /\ ring' \in [Slots -> [cmd : 0 .. MaxPosts, cycle : {0, 1}]]
  BY <1>1, <1>3, <1>5, <1>6 DEF TypeRing
<1>8. Types'
  <2>1. TypeRing'
    BY <1>2, <1>7 DEF TypeRing, Slots
  <2>2. TypeDriver'
    BY <1>1, <1>2, <1>6 DEF TypeDriver, TypeXhc, Slots, Link
  <2>3. TypeXhc' /\ TypeEvents'
    BY <1>2 DEF TypeXhc, TypeEvents, Slots
  <2>4. QED
    BY <2>1, <2>2, <2>3
<1>9. /\ Place(currentEntry+1, posted+1, posted+1) = currentEntry
      /\ \A c \in Nat : c <= posted =>
           Place(currentEntry+1, posted+1, c) = Place(currentEntry, posted, c)
      /\ \A c \in Nat : c <= posted /\ posted+1 - c < Link =>
           Place(currentEntry, posted, c) # currentEntry
  BY <1>3, PlaceWritten
<1>10. /\ Place(W', posted', posted') = currentEntry
       /\ \A c \in Nat : c <= posted => SlotOf(c)' = SlotOf(c)
       /\ \A c \in Nat : c <= posted /\ posted+1 - c < Link => SlotOf(c) # currentEntry
  BY <1>1, <1>4, <1>9 DEF SlotOf
<1>11. \A c \in told+1 .. posted :
         /\ c \in Nat /\ c <= posted
         /\ SlotOf(c)' = SlotOf(c) /\ ring'[SlotOf(c)].cmd = ring[SlotOf(c)].cmd
  <2>1. \A c \in told+1 .. posted : c \in Nat /\ c <= posted /\ posted+1 - c < Link
    BY <1>3
  <2>2. QED
    BY <1>7, <1>10, <2>1, SlotFacts
<1>12. Batch'
  <2>1. Base' = Base
    BY <1>1, <1>2, <1>3, <1>4 DEF Base
  <2>2. CASE Opening
    <3>1. posted > 0 => await = SlotOf(1)'
      BY <1>1, <1>3, <1>10, <2>2 DEF Opening
    <3>2. posted' # 1 => posted > 0
      BY <1>1, <1>3
    <3>3. Opening'
      BY <1>1, <1>2, <1>3, <1>4, <2>2, <3>1, <3>2 DEF Opening
    <3>4. QED
      BY <1>1, <1>2, <1>3, <1>4, <3>3 DEF Batch, Link
  <2>3. CASE Later
    <3>1. Later'
      BY <1>1, <1>2, <2>1, <2>3 DEF Later, Told
    <3>2. QED
      BY <1>1, <1>2, <1>3, <1>4, <3>1 DEF Batch, Link
  <2>4. QED
    BY <2>2, <2>3 DEF Batch
<1>13. Written'
  <2>1. ASSUME NEW c \in 1 .. posted', posted' - c < Link
        PROVE  ring'[SlotOf(c)'].cmd = c
    <3>1. CASE c = posted'
      <4>1. SlotOf(c)' = Place(W', posted', posted')
        BY <3>1 DEF SlotOf
      <4>2. QED
        BY <1>7, <1>10, <3>1, <4>1
    <3>2. CASE c # posted'
      <4>1. c \in Nat /\ c \in 1 .. posted /\ c <= posted /\ posted+1 - c < Link
            /\ posted - c < Link
        BY <1>1, <1>3, <2>1, <3>2
      <4>2. SlotOf(c)' = SlotOf(c) /\ SlotOf(c) # currentEntry
        BY <1>10, <4>1
      <4>3. SlotOf(c) \in Slots
        BY <1>3, <1>4, <1>5, <4>1, PlaceFacts DEF SlotOf
      <4>4. QED
        BY <1>7, <4>1, <4>2, <4>3 DEF Written
    <3>3. QED
      BY <3>1, <3>2
  <2>2. ASSUME NEW i \in 0 .. Link-1
        PROVE  ring'[i].cycle = IF i < W' THEN cycle_state ELSE 1 - cycle_state
    <3>1. CASE i = currentEntry
      BY <1>3, <1>4, <1>7, <3>1
    <3>2. CASE i # currentEntry
      <4>1. ring'[i] = ring[i]
        BY <1>5, <1>7, <3>2
      <4>2. (i < W') = (i < W)
        BY <1>3, <1>4, <3>2
      <4>3. QED
        BY <4>1, <4>2 DEF Written
    <3>3. QED
      BY <3>1, <3>2
  <2>3. QED
    BY <1>2, <2>1, <2>2 DEF Written, Link
<1>14. Lap'
  <2>1. ring'[Link] = ring[Link]
    BY <1>5, <1>7
  <2>2. CASE SameLap
    <3>1. SameLap'
      BY <1>1, <1>2, <1>3, <1>4, <2>2 DEF SameLap
    <3>2. QED
      BY <3>1 DEF Lap
  <2>3. CASE LapBehind
    <3>1. LapBehind'
      BY <1>1, <1>2, <1>3, <1>4, <2>1, <2>3 DEF LapBehind, Link
    <3>2. QED
      BY <3>1 DEF Lap
  <2>4. CASE LapAhead
    BY <1>3, <1>4, <2>4 DEF LapAhead
  <2>5. QED
    BY <2>2, <2>3, <2>4 DEF Lap
<1>15. Reported' /\ \A i \in Window : events[i] > 0 => CmdOf(i)' = CmdOf(i)
  BY <1>2, <1>3, <1>11, ReportedFrame
<1>16. Noted'
  <2>1. \A c \in told+1 .. posted' : c # posted' => c \in told+1 .. posted
    BY <1>1, <1>3
  <2>2. QED
    BY <1>1, <1>2, <1>3, <1>11, <1>15, <2>1, NotedFrame
<1>17. Pending'
  BY <1>2, PendingFrame
<1>18. QED
  BY <1>8, <1>12, <1>13, <1>14, <1>15, <1>16, <1>17

LEMMA AllocClearKeeps ==
  ASSUME RingInv, AllocClear
  PROVE  RingInv'
<1> USE DEF RingInv, Types
<1>1. /\ pc = "clear" /\ isr = "out" /\ currentEntry' = currentEntry + 1
      /\ cmdDesc' = [cmdDesc EXCEPT ![currentEntry] = Cleared]
      /\ await' = (IF Awaited(posted) THEN currentEntry ELSE await)
      /\ todo' = todo - 1 /\ pc' = (IF todo = 1 THEN "ring" ELSE "alloc")
  BY DEF AllocClear, At, ClearDesc, NextEntry
<1>2. UNCHANGED <<ring, cycle_state, posted, told, shape, raced, dequeue, cycle,
                  active, executed, events, enqueue, dequeueTrb,
                  interrupt_pending, isr, acks, ports>>
  BY DEF AllocClear, kind, xhc, eventRing
<1>3. /\ posted \in Nat /\ told \in Nat /\ executed \in Nat /\ todo \in Nat /\ todo > 0
      /\ currentEntry \in 0 .. Link-1 /\ Link \in Nat \ {0} /\ posted > 0
      /\ shape.first \in Nat /\ shape.batch \in Nat \ {0}
      /\ told <= executed /\ executed <= posted
  BY <1>1, Counts, Sizes DEF Batch
<1>4. pc' # "clear" /\ pc' # "idle" /\ (pc' \in {"ring", "wait"} => todo' = 0)
      /\ (pc' \in {"alloc", "clear"} => todo' > 0)
  BY <1>1, <1>3
<1>5. W' = W /\ W = currentEntry + 1 /\ ToWrite' = ToWrite /\ ToWrite = todo'
  BY <1>1, <1>4 DEF W, ToWrite
<1>6. \A c : SlotOf(c)' = SlotOf(c)
  BY <1>2, <1>5 DEF SlotOf, Place, Link
<1>7. currentEntry \in Slots /\ currentEntry + 1 \in Slots
  BY <1>3, RingAssumption DEF Slots, Link
<1>8. /\ cmdDesc'[currentEntry] = Cleared
      /\ \A i \in Slots : i # currentEntry => cmdDesc'[i] = cmdDesc[i]
      /\ cmdDesc' \in [Slots -> [complete : BOOLEAN, cmd : 0 .. MaxPosts]]
  <2>1. Cleared \in [complete : BOOLEAN, cmd : 0 .. MaxPosts]
    BY RingAssumption DEF Cleared
  <2>2. QED
    BY <1>1, <1>7, <2>1 DEF TypeRing
<1>9. await' \in 0 .. Link-1
  BY <1>1, <1>3 DEF TypeDriver
<1>10. Types'
  <2>1. TypeRing'
    BY <1>2, <1>8 DEF TypeRing, Slots
  <2>2. todo' \in Nat /\ pc' \in {"idle", "alloc", "clear", "ring", "wait"}
    BY <1>1, <1>3
  <2>3. TypeDriver'
    BY <1>1, <1>2, <1>7, <1>9, <2>2 DEF TypeDriver, Slots, Link
  <2>4. TypeXhc' /\ TypeEvents'
    BY <1>2 DEF TypeXhc, TypeEvents, Slots
  <2>5. QED
    BY <2>1, <2>3, <2>4
<1>11. SlotOf(posted) = currentEntry
  BY <1>3, <1>5 DEF SlotOf, Place
<1>12. Batch'
  <2>1. Base' = Base /\ Base = posted + todo' - shape.batch
    BY <1>1, <1>2, <1>4, <1>5 DEF Base
  <2>2. CASE Opening
    <3>1. await' = SlotOf(1)
      <4>1. CASE posted = 1
        BY <1>1, <1>11, <2>2, <4>1 DEF Opening, Awaited
      <4>2. CASE posted # 1
        <5>1. ~(posted > shape.first)
          BY <1>1, <1>3, <1>5, <2>2 DEF Opening
        <5>2. QED
          BY <1>1, <1>3, <2>2, <4>2, <5>1 DEF Opening, Awaited
      <4>3. QED
        BY <4>1, <4>2
    <3>2. Opening'
      BY <1>2, <1>4, <1>5, <1>6, <2>2, <3>1 DEF Opening
    <3>3. QED
      BY <1>1, <1>2, <1>4, <1>5, <3>2 DEF Batch
  <2>3. CASE Later
    <3>1. pc' = "ring" => await' = SlotOf(posted)
      <4> SUFFICES ASSUME pc' = "ring" PROVE Awaited(posted)
        BY <1>1, <1>11
      <4>1. todo' = 0
        BY <1>1
      <4>2. posted - shape.first = (Base - shape.first) + shape.batch
        BY <1>3, <2>1, <4>1
      <4>3. Base \in Nat /\ Base - shape.first \in Nat /\ posted > shape.first
        BY <1>3, <2>1, <2>3, <4>1 DEF Later
      <4>4. (posted - shape.first) % shape.batch = 0
        <5>1. PICK x \in Nat : x = Base - shape.first
          BY <4>3
        <5>2. x % shape.batch = 0
          BY <5>1, <2>3 DEF Later
        <5>3. shape.batch \in 1 .. shape.batch
          BY <1>3
        <5>4. (x + shape.batch) % shape.batch = 0
          BY <1>3, <5>2, <5>3, ModStep
        <5>5. QED
          BY <4>2, <5>1, <5>4
      <4>5. QED
        BY <4>3, <4>4 DEF Awaited
    <3>2. pc' # "wait" /\ todo' <= shape.batch
      BY <1>1, <1>3, <2>3 DEF Later
    <3>3. Later'
      BY <1>2, <1>4, <1>6, <2>1, <2>3, <3>1, <3>2 DEF Later, Told
    <3>4. QED
      BY <1>1, <1>2, <1>4, <1>5, <3>3 DEF Batch
  <2>4. QED
    BY <2>2, <2>3 DEF Batch
<1>13. Written'
  BY <1>2, <1>5, <1>6 DEF Written, Link
<1>14. Lap'
  BY <1>2, <1>5 DEF Lap, SameLap, LapBehind, LapAhead, Link
<1>15. Reported' /\ \A i \in Window : events[i] > 0 => CmdOf(i)' = CmdOf(i)
  BY <1>2, <1>3, <1>6, ReportedFrame
<1>16. Noted'
  <2>1. ASSUME NEW c \in told+1 .. posted
        PROVE  \/ ~cmdDesc'[SlotOf(c)'].complete
               \/ c # posted /\ cmdDesc'[SlotOf(c)'] = cmdDesc[SlotOf(c)]
    <3>1. CASE c = posted
      BY <1>6, <1>8, <1>11, <3>1 DEF Cleared
    <3>2. CASE c # posted
      <4>1. posted \in told+1 .. posted
        BY <1>3
      <4>2. SlotOf(c) # currentEntry /\ SlotOf(c) \in Slots
        BY <1>11, <3>2, <4>1, SlotFacts
      <4>3. QED
        BY <1>6, <1>8, <3>2, <4>2
    <3>3. QED
      BY <3>1, <3>2
  <2>2. QED
    BY <1>2, <1>3, <1>15, <2>1, NotedFrame
<1>17. Pending'
  BY <1>2, PendingFrame
<1>18. QED
  BY <1>10, <1>12, <1>13, <1>14, <1>15, <1>16, <1>17

LEMMA RingKeeps ==
  ASSUME RingInv, xhci_ring
  PROVE  RingInv'
<1> USE DEF RingInv, Types
<1>1. pc = "ring" /\ isr = "out" /\ pc' = "wait" /\ active' = TRUE
  BY DEF xhci_ring, At
<1>2. UNCHANGED <<ring, cycle_state, currentEntry, cmdDesc, todo, await, posted,
                  told, shape, raced, dequeue, cycle, executed, events, enqueue,
                  dequeueTrb, interrupt_pending, isr, acks, ports>>
  BY DEF xhci_ring, kind, eventRing
<1>3. posted \in Nat /\ told \in Nat /\ executed \in Nat
  BY Counts
<1>4. Types'
  <2>1. TypeRing' /\ TypeEvents'
    BY <1>2 DEF TypeRing, TypeEvents, Slots
  <2>2. TypeDriver' /\ TypeXhc'
    BY <1>1, <1>2 DEF TypeDriver, TypeXhc, Slots, Link
  <2>3. QED
    BY <2>1, <2>2
<1>5. W' = W /\ (\A c : SlotOf(c)' = SlotOf(c)) /\ ToWrite' = ToWrite /\ Base' = Base
  BY <1>1, <1>2 DEF W, SlotOf, Place, Link, ToWrite, Base
<1>6. Batch'
  <2>1. Opening => Opening'
    BY <1>1, <1>2, <1>5 DEF Opening
  <2>2. Later => Later'
    BY <1>1, <1>2, <1>5 DEF Later, Told
  <2>3. QED
    BY <1>1, <1>2, <1>5, <2>1, <2>2 DEF Batch
<1>7. Written'
  BY <1>2, <1>5 DEF Written, Link
<1>8. Lap'
  BY <1>2, <1>5 DEF Lap, SameLap, LapBehind, LapAhead, Link
<1>9. Reported' /\ \A i \in Window : events[i] > 0 => CmdOf(i)' = CmdOf(i)
  BY <1>2, <1>3, <1>5, ReportedFrame
<1>10. Noted'
  BY <1>1, <1>2, <1>3, <1>5, <1>9, NotedFrame
<1>11. Pending'
  BY <1>2, PendingFrame
<1>12. QED
  BY <1>4, <1>6, <1>7, <1>8, <1>9, <1>10, <1>11

\* The command a wait is for, which the driver is told of when it returns.
Target == IF Opening THEN 1 ELSE posted

LEMMA TargetFacts ==
  ASSUME RingInv, pc \in {"ring", "wait"}
  PROVE  /\ Target \in told+1 .. posted /\ await = SlotOf(Target)
         /\ Target = Told(posted) /\ posted >= shape.first
         /\ (posted - shape.first) % shape.batch = 0
<1> USE DEF RingInv
<1>1. /\ posted \in Nat /\ told \in Nat /\ todo = 0 /\ ToWrite = 0
      /\ shape.first \in Nat /\ shape.batch \in Nat \ {0}
  BY Counts, Sizes DEF Batch, ToWrite
<1>2. CASE Opening
  <2>1. posted = shape.first /\ shape.first > 0 /\ told = 0 /\ Target = 1
    BY <1>1, <1>2 DEF Opening, Target
  <2>2. await = SlotOf(1)
    BY <1>1, <1>2, <2>1 DEF Opening
  <2>3. posted - shape.first = 0 /\ 0 % shape.batch = 0
    BY <1>1, <2>1, ModZero
  <2>4. QED
    BY <1>1, <2>1, <2>2, <2>3 DEF Told
<1>3. CASE Later /\ ~Opening
  <2>1. Target = posted /\ await = SlotOf(posted)
    BY <1>3 DEF Later, Target
  <2>2. PICK b : b = Base
    OBVIOUS
  <2>3. (b - shape.first) % shape.batch = 0
    BY <1>3, <2>2 DEF Later
  <2>4. /\ b >= shape.first
        /\ told = IF b = 0 THEN 0 ELSE IF b = shape.first THEN 1 ELSE b
    BY <1>3, <2>2 DEF Later, Told
  <2>5. pc # "idle"
    OBVIOUS
  <2>6. b = posted - shape.batch
    BY <1>1, <2>2, <2>5 DEF Base
  <2>7. /\ b \in Nat /\ b - shape.first \in Nat
        /\ posted - shape.first = (b - shape.first) + shape.batch
        /\ posted > shape.first /\ told < posted /\ posted # 0
    BY <1>1, <2>4, <2>6
  <2>8. (posted - shape.first) % shape.batch = 0
    <3>1. PICK x : x = b - shape.first
      OBVIOUS
    <3>2. x \in Nat /\ x % shape.batch = 0 /\ posted - shape.first = x + shape.batch
      BY <2>3, <2>7, <3>1, Zenon
    <3>3. shape.batch \in 1 .. shape.batch
      BY <1>1
    <3>4. (x + shape.batch) % shape.batch = 0
      BY <1>1, <3>2, <3>3, ModStep
    <3>5. QED
      BY <3>2, <3>4, Zenon
  <2>9. posted \in told+1 .. posted
    BY <1>1, <2>7
  <2>10. Told(posted) = posted
    BY <1>1, <2>7 DEF Told
  <2>11. QED
    BY <1>1, <2>1, <2>7, <2>8, <2>9, <2>10
<1>4. QED
  BY <1>2, <1>3 DEF Batch

LEMMA YieldTells ==
  ASSUME RingInv, xhci_yield_until_cmd_complete
  PROVE  /\ told' = Target /\ Target \in told+1 .. executed
         /\ \A i \in Window : events[i] > 0 => Target < CmdOf(i)
<1> USE DEF RingInv
<1>1. pc = "wait" /\ cmdDesc[await].complete /\ told' = cmdDesc[await].cmd
  BY DEF xhci_yield_until_cmd_complete, At
<1>2. Target \in told+1 .. posted /\ await = SlotOf(Target)
  BY <1>1, TargetFacts
<1>3. /\ cmdDesc[SlotOf(Target)].cmd = Target /\ Target <= executed
      /\ \A i \in Window : events[i] > 0 => Target < CmdOf(i)
  BY <1>1, <1>2 DEF Noted
<1>4. QED
  BY <1>1, <1>2, <1>3, Counts

LEMMA YieldKeeps ==
  ASSUME RingInv, xhci_yield_until_cmd_complete
  PROVE  RingInv'
<1> USE DEF RingInv, Types
<1>1. pc = "wait" /\ isr = "out" /\ pc' = "idle"
  BY DEF xhci_yield_until_cmd_complete, At
<1>2. UNCHANGED <<ring, cycle_state, currentEntry, cmdDesc, todo, await, posted,
                  shape, raced, dequeue, cycle, active, executed, events, enqueue,
                  dequeueTrb, interrupt_pending, isr, acks, ports>>
  BY DEF xhci_yield_until_cmd_complete, kind, xhc, eventRing
<1>3. /\ told' = Target /\ Target \in told+1 .. executed
      /\ \A i \in Window : events[i] > 0 => Target < CmdOf(i)
  BY YieldTells
<1>4. /\ posted \in Nat /\ told \in Nat /\ executed \in Nat /\ executed <= posted
      /\ todo = 0
  BY <1>1, Counts DEF Batch
<1>5. Types'
  <2>1. told' \in 0 .. MaxPosts
    BY <1>3, <1>4, RingAssumption DEF TypeXhc
  <2>2. TypeDriver'
    BY <1>1, <1>2, <2>1 DEF TypeDriver, Slots, Link
  <2>3. TypeRing' /\ TypeXhc' /\ TypeEvents'
    BY <1>2 DEF TypeRing, TypeXhc, TypeEvents, Slots
  <2>4. QED
    BY <2>2, <2>3
<1>6. W' = W /\ \A c : SlotOf(c)' = SlotOf(c)
  BY <1>1, <1>2 DEF W, SlotOf, Place, Link
<1>7. Batch'
  <2>1. /\ Target = Told(posted) /\ posted >= shape.first
        /\ (posted - shape.first) % shape.batch = 0
    BY <1>1, TargetFacts
  <2>2. Base' = posted
    BY <1>1, <1>2 DEF Base
  <2>3. told' = Told(Base)' /\ todo' <= shape'.batch
    BY <1>2, <1>3, <1>4, <2>1, <2>2, Sizes DEF Told
  <2>4. Later'
    BY <1>1, <1>2, <1>4, <2>1, <2>2, <2>3 DEF Later
  <2>5. QED
    BY <1>1, <1>2, <1>3, <1>4, <2>4 DEF Batch
<1>8. Written'
  BY <1>2, <1>6 DEF Written, Link
<1>9. Lap'
  BY <1>2, <1>6 DEF Lap, SameLap, LapBehind, LapAhead, Link
<1>10. Window' = Window /\ Front' = Front
  BY <1>2, EventsStill
<1>11. \A i : CmdOf(i)' = CmdOf(i) /\ Rank(Front, i)' = Rank(Front, i)
  BY <1>2, <1>10 DEF CmdOf, Rank
<1>12. Reported'
  <2>1. ASSUME NEW i \in Window
        PROVE  \/ events[i] = -1
               \/ /\ events[i] - 1 \in 0 .. Link-1 /\ CmdOf(i) \in told'+1 .. executed
                  /\ SlotOf(CmdOf(i)) = events[i] - 1
    <3>1. events[i] - 1 \in 0 .. Link-1 => events[i] > 0 /\ CmdOf(i) > told'
      <4>1. events[i] \in Int
        BY DEF TypeEvents, Window
      <4>2. QED
        BY <1>3, <4>1, Sizes
    <3>2. QED
      BY <1>3, <1>4, <3>1 DEF Reported
  <2>2. \A i \in Window : SlotOf(CmdOf(i))' = SlotOf(CmdOf(i))
    <3>1. ASSUME NEW i \in Window PROVE SlotOf(CmdOf(i))' = SlotOf(CmdOf(i))
      BY <1>2, <1>6, <1>11 DEF SlotOf
    <3>2. QED
      BY <3>1
  <2>3. \A i \in Window' :
               \/ events'[i] = -1
               \/ /\ events'[i] - 1 \in 0 .. Link-1 /\ CmdOf(i)' \in told'+1 .. executed'
                  /\ SlotOf(CmdOf(i))' = events'[i] - 1
    BY <1>2, <1>10, <1>11, <2>1, <2>2
  <2>4. \A i, j \in Window' :
          events'[i] > 0 /\ events'[j] > 0 /\ Rank(Front, i)' < Rank(Front, j)'
            => CmdOf(i)' < CmdOf(j)'
    BY <1>2, <1>10, <1>11 DEF Reported
  <2>5. QED
    BY <2>3, <2>4 DEF Reported, Link
<1>13. Noted'
  <2>1. \A c \in told'+1 .. posted : c \in told+1 .. posted
    BY <1>3, <1>4
  <2>2. QED
    BY <1>1, <1>2, <1>6, <1>10, <1>11, <2>1 DEF Noted
<1>14. Pending'
  BY <1>2, PendingFrame
<1>15. QED
  BY <1>5, <1>7, <1>8, <1>9, <1>12, <1>13, <1>14

-----------------------------------------------------------------------------
(* The controller.                                                          *)

\* The entry the controller takes is the next command's.
LEMMA NextCommand ==
  ASSUME RingInv, dequeue # Link, Owned(dequeue)
  PROVE  /\ executed + 1 <= posted /\ ring[dequeue].cmd = executed + 1
         /\ SlotOf(executed + 1) = dequeue /\ dequeue < Link
         /\ (SameLap /\ dequeue < W) \/ (LapBehind /\ ~SameLap)
<1> USE DEF RingInv
<1>1. /\ posted \in Nat /\ told \in Nat /\ executed \in Nat /\ W \in 0 .. Link
      /\ Link \in Nat \ {0} /\ dequeue \in 0 .. Link-1
      /\ told <= executed /\ executed <= posted /\ posted - told < Link
      /\ cycle_state \in {0, 1} /\ ring[dequeue].cycle = cycle
  BY Counts, Sizes, WInRing, Outstanding DEF Batch, Owned, Types, TypeDriver
<1>2. ring[dequeue].cycle = IF dequeue < W THEN cycle_state ELSE 1 - cycle_state
  BY <1>1 DEF Written
<1>3. (SameLap /\ dequeue < W) \/ (LapBehind /\ ~SameLap)
  <2> 1 - cycle_state # cycle_state
    BY <1>1
  <2>1. CASE SameLap
    <3>1. dequeue < W
      BY <1>1, <1>2, <2>1, Zenon DEF SameLap
    <3>2. QED
      BY <2>1, <3>1
  <2>2. CASE LapAhead
    <3>1. dequeue < W
      BY <1>1, <2>2 DEF LapAhead
    <3>2. QED
      BY <1>1, <1>2, <2>2, <3>1, Zenon DEF LapAhead
  <2>3. QED
    BY <2>1, <2>2 DEF Lap
<1>4. /\ executed < posted
      /\ \/ posted - executed = W - dequeue
         \/ (W <= dequeue /\ posted - executed = Link - dequeue + W /\ posted - executed <= Link)
  <2>1. CASE SameLap /\ dequeue < W
    BY <1>1, <2>1 DEF SameLap
  <2>2. CASE LapBehind
    BY <1>1, <2>2 DEF LapBehind
  <2>3. QED
    BY <1>3, <2>1, <2>2
<1>5. /\ Place(W, posted, executed+1) = dequeue
      /\ executed + 1 <= posted /\ posted - (executed + 1) < Link
  BY <1>1, <1>4, PlaceNext
<1>6. ring[dequeue].cmd = executed + 1
  <2>1. PICK c : c = executed + 1
    OBVIOUS
  <2>2. c \in 1 .. posted /\ posted - c < Link /\ SlotOf(c) = dequeue
    BY <1>1, <1>5, <2>1 DEF SlotOf
  <2>3. QED
    BY <2>1, <2>2 DEF Written
<1>7. QED
  BY <1>1, <1>3, <1>5, <1>6 DEF SlotOf

\* An event goes behind those the handler has not looked at.
LEMMA ReportFacts ==
  ASSUME RingInv, RoomForEvent, NEW e \in Int, Report(e),
         UNCHANGED <<dequeueTrb, isr, acks>>, ports' \in 0 .. MaxPorts
  PROVE  /\ Front' = Front /\ Window' = Window \cup {enqueue}
         /\ events'[enqueue] = e /\ \A i \in Window : i # enqueue /\ events'[i] = events[i]
         /\ \A i \in Window : Rank(Front, i) < Rank(Front, enqueue)
         /\ enqueue \in 0 .. EventEntries-1
         /\ Pending' /\ TypeEvents'
<1> USE DEF RingInv, Types
<1>1. /\ enqueue \in 0 .. EventEntries-1 /\ dequeueTrb \in 0 .. EventEntries-1
      /\ events \in [0 .. EventEntries-1 -> Int]
      /\ events' = [events EXCEPT ![enqueue] = e]
      /\ enqueue' = (enqueue + 1) % EventEntries /\ interrupt_pending' = TRUE
      /\ UNCHANGED <<dequeueTrb, isr, acks>> /\ ports' \in 0 .. MaxPorts
  BY DEF Report, TypeEvents
<1>2. /\ enqueue' = Advance(enqueue) /\ enqueue' \in 0 .. EventEntries-1
      /\ enqueue' # dequeueTrb
  BY <1>1, AdvanceFacts DEF RoomForEvent
<1>3. Front' = Front /\ Front \in 0 .. EventEntries-1
  BY <1>1, AdvanceFacts DEF Front, Advance
<1>4. Advance(enqueue) # Front
  <2>1. CASE isr = "out"
    BY <1>2, <2>1 DEF Front
  <2>2. CASE isr # "out"
    <3>1. enqueue # dequeueTrb
      BY <2>2 DEF Pending
    <3>2. QED
      BY <1>1, <2>2, <3>1, RingAssumption DEF Front, Advance
  <2>3. QED
    BY <2>1, <2>2
<1>5. Rank(Front, enqueue') = Rank(Front, enqueue) + 1
  BY <1>1, <1>2, <1>3, <1>4, RankGrows
<1>6. \A i \in 0 .. EventEntries-1 :
        /\ Rank(Front, i) \in 0 .. EventEntries-1
        /\ Rank(Front, i) = Rank(Front, enqueue) => i = enqueue
  BY <1>1, <1>3, RankFacts
<1>7. \A i : Rank(Front, i)' = Rank(Front, i)
  BY <1>3 DEF Rank
<1>8. \A i \in 0 .. EventEntries-1 :
        (Rank(Front, i) < Rank(Front, enqueue')) <=>
          (Rank(Front, i) < Rank(Front, enqueue) \/ i = enqueue)
  <2> SUFFICES ASSUME NEW i \in 0 .. EventEntries-1
               PROVE  (Rank(Front, i) < Rank(Front, enqueue')) <=>
                        (Rank(Front, i) < Rank(Front, enqueue) \/ i = enqueue)
    OBVIOUS
  <2>1. PICK m, n : m = Rank(Front, i) /\ n = Rank(Front, enqueue)
    OBVIOUS
  <2>2. m \in Nat /\ n \in Nat
    BY <1>1, <1>6, <2>1, RingAssumption
  <2>3. m = n <=> i = enqueue
    BY <1>6, <2>1
  <2>4. QED
    BY <1>5, <2>1, <2>2, <2>3
<1>9. Window' = Window \cup {enqueue}
  <2>1. Window' = {i \in 0 .. EventEntries-1 : Rank(Front, i) < Rank(Front, enqueue')}
    BY <1>3 DEF Window, Rank
  <2>2. QED
    BY <1>1, <1>8, <2>1 DEF Window
<1>10. \A i \in Window : Rank(Front, i) < Rank(Front, enqueue) /\ i # enqueue
  BY <1>6, RingAssumption DEF Window
<1>11. events'[enqueue] = e /\ \A i \in Window : events'[i] = events[i]
  BY <1>1, <1>10 DEF Window
<1>12. Pending'
  BY <1>1, <1>2, <1>3, <1>4 DEF Pending
<1>13. TypeEvents'
  BY <1>1, <1>2 DEF TypeEvents
<1>14. QED
  BY <1>1, <1>3, <1>9, <1>10, <1>11, <1>12, <1>13

LEMMA ExecuteKeeps ==
  ASSUME RingInv, xhc_execute
  PROVE  RingInv' /\ executed' = executed + 1 /\ executed < posted
<1> USE DEF RingInv, Types
<1>1. /\ dequeue # Link /\ Owned(dequeue) /\ RoomForEvent
      /\ executed' = ring[dequeue].cmd /\ dequeue' = dequeue + 1
  BY DEF xhc_execute
<1>2. UNCHANGED <<ring, cycle_state, currentEntry, cmdDesc, pc, todo, await, posted,
                  told, shape, raced, cycle, active>>
  BY DEF xhc_execute, driver, kind
<1>3. /\ executed + 1 <= posted /\ ring[dequeue].cmd = executed + 1
      /\ SlotOf(executed + 1) = dequeue /\ dequeue < Link
      /\ (SameLap /\ dequeue < W) \/ (LapBehind /\ ~SameLap)
  BY <1>1, NextCommand
<1>4. /\ posted \in Nat /\ told \in Nat /\ executed \in Nat /\ executed' = executed + 1
      /\ Link \in Nat \ {0} /\ dequeue \in 0 .. Link-1 /\ W \in 0 .. Link
      /\ told <= executed /\ executed <= posted
  BY <1>1, <1>3, Counts, Sizes, WInRing DEF Batch
<1>5. TypeRing' /\ TypeDriver' /\ TypeXhc'
  <2>1. executed' \in 0 .. MaxPosts
    BY <1>3, <1>4, RingAssumption DEF TypeDriver
  <2>2. dequeue' \in Slots
    BY <1>1, <1>4, RingAssumption DEF Slots, Link
  <2>3. QED
    BY <1>2, <2>1, <2>2 DEF TypeRing, TypeDriver, TypeXhc, Slots, Link
<1>6. /\ W' = W /\ (\A c : SlotOf(c)' = SlotOf(c))
      /\ ToWrite' = ToWrite /\ Base' = Base
  BY <1>2 DEF W, SlotOf, Place, Link, ToWrite, Base
<1>7. Batch'
  <2>1. Opening => Opening'
    BY <1>2, <1>6 DEF Opening
  <2>2. Later => Later'
    BY <1>2, <1>6 DEF Later, Told
  <2>3. told <= executed' /\ executed' <= posted
    BY <1>3, <1>4
  <2>4. QED
    BY <1>2, <1>6, <2>1, <2>2, <2>3 DEF Batch, Link
<1>8. Written'
  BY <1>2, <1>6 DEF Written, Link
<1>9. Lap'
  <2>1. CASE SameLap /\ dequeue < W
    <3>1. SameLap'
      BY <1>1, <1>2, <1>4, <1>6, <2>1 DEF SameLap
    <3>2. QED
      BY <3>1 DEF Lap
  <2>2. CASE LapBehind
    <3>1. LapBehind'
      BY <1>1, <1>2, <1>4, <1>6, <2>2 DEF LapBehind, Link
    <3>2. QED
      BY <3>1 DEF Lap
  <2>3. QED
    BY <1>3, <2>1, <2>2
<1>10. CASE UNCHANGED eventRing
  <2>1. UNCHANGED <<events, enqueue, dequeueTrb, interrupt_pending, isr, acks, ports>>
    BY <1>10 DEF eventRing
  <2>2. executed' \in Nat /\ executed <= executed'
    BY <1>4
  <2>3. Reported' /\ \A i \in Window : events[i] > 0 => CmdOf(i)' = CmdOf(i)
    BY <1>2, <1>6, <2>1, <2>2, ReportedFrame
  <2>4. Noted'
    BY <1>2, <1>6, <2>1, <2>2, <2>3, NotedFrame
  <2>5. Pending' /\ TypeEvents'
    BY <2>1, PendingFrame DEF TypeEvents
  <2>6. QED
    BY <1>3, <1>4, <1>5, <1>7, <1>8, <1>9, <2>3, <2>4, <2>5
<1>11. CASE Report(1 + dequeue) /\ UNCHANGED <<dequeueTrb, isr, acks, ports>>
  <2> PICK q : q = enqueue
    OBVIOUS
  <2>1. /\ Front' = Front /\ Window' = Window \cup {q}
        /\ events'[q] = 1 + dequeue
        /\ \A i \in Window : i # q /\ events'[i] = events[i]
        /\ \A i \in Window : Rank(Front, i) < Rank(Front, q)
        /\ q \in 0 .. EventEntries-1
        /\ Pending' /\ TypeEvents'
    BY <1>1, <1>4, <1>11, ReportFacts DEF TypeEvents
  <2>2. CmdOf(q)' = executed + 1 /\ SlotOf(CmdOf(q))' = dequeue
    <3>1. events'[q] - 1 = dequeue
      BY <1>4, <2>1
    <3>2. CmdOf(q)' = executed + 1
      BY <1>2, <1>3, <2>1, <3>1 DEF CmdOf
    <3>3. SlotOf(CmdOf(q))' = Place(W, posted, executed + 1)
      BY <1>2, <1>6, <3>2 DEF SlotOf
    <3>4. QED
      BY <1>3, <3>2, <3>3 DEF SlotOf
  <2>3. \A i \in Window : CmdOf(i)' = CmdOf(i) /\ SlotOf(CmdOf(i))' = SlotOf(CmdOf(i))
    <3>1. \A i \in Window : CmdOf(i)' = CmdOf(i)
      BY <1>2, <2>1 DEF CmdOf
    <3>2. \A i \in Window : SlotOf(CmdOf(i))' = SlotOf(CmdOf(i))
      BY <1>2, <1>6, <3>1 DEF SlotOf
    <3>3. QED
      BY <3>1, <3>2
  <2>4. \A i : Rank(Front, i)' = Rank(Front, i)
    BY <2>1 DEF Rank
  <2>5. \A i \in Window : events[i] > 0 =>
          /\ CmdOf(i) \in told+1 .. executed
    <3>1. \A i \in Window : events[i] > 0 => events[i] # -1
      OBVIOUS
    <3>2. QED
      BY <3>1 DEF Reported
  <2>6. Reported'
    <3>1. ASSUME NEW i \in Window'
          PROVE  \/ events'[i] = -1
                 \/ /\ events'[i] - 1 \in 0 .. Link-1 /\ CmdOf(i)' \in told'+1 .. executed'
                    /\ SlotOf(CmdOf(i))' = events'[i] - 1
      <4>1. CASE i = q
        BY <1>2, <1>3, <1>4, <2>1, <2>2, <4>1
      <4>2. CASE i \in Window
        <5>1. \A c : c \in told+1 .. executed => c \in told+1 .. executed'
          BY <1>4
        <5>2. QED
          BY <1>2, <2>1, <2>3, <4>2, <5>1 DEF Reported
      <4>3. QED
        BY <2>1, <4>1, <4>2
    <3>2. ASSUME NEW i \in Window', NEW j \in Window', events'[i] > 0, events'[j] > 0,
                 Rank(Front, i)' < Rank(Front, j)'
          PROVE  CmdOf(i)' < CmdOf(j)'
      <4>1. CASE i \in Window /\ j \in Window
        BY <2>1, <2>3, <2>4, <3>2, <4>1 DEF Reported
      <4>2. CASE i \in Window /\ j = q
        BY <1>4, <2>1, <2>2, <2>3, <2>5, <3>2, <4>2
      <4>3. CASE i = q
        <5>1. Rank(Front, q) < Rank(Front, j)
          BY <2>4, <3>2, <4>3
        <5>2. j = q \/ Rank(Front, j) < Rank(Front, q)
          BY <2>1
        <5>3. Rank(Front, j) \in Int /\ Rank(Front, q) \in Int
          <6>1. j \in 0 .. EventEntries-1
            BY <2>1 DEF Window
          <6>2. Front \in 0 .. EventEntries-1
            BY AdvanceFacts DEF Front, TypeEvents
          <6>3. QED
            BY <2>1, <6>1, <6>2, RankFacts
        <5>4. QED
          BY <5>1, <5>2, <5>3
      <4>4. QED
        BY <2>1, <4>1, <4>2, <4>3
    <3>3. QED
      BY <3>1, <3>2 DEF Reported, Link
  <2>7. Noted'
    <3> SUFFICES ASSUME NEW c \in told+1 .. posted, pc = "clear" => c # posted,
                        cmdDesc[SlotOf(c)].complete
                 PROVE  /\ cmdDesc[SlotOf(c)].cmd = c /\ c <= executed'
                        /\ \A i \in Window' : events'[i] > 0 => c < CmdOf(i)'
      BY <1>2, <1>6 DEF Noted
    <3>1. /\ cmdDesc[SlotOf(c)].cmd = c /\ c <= executed
          /\ \A i \in Window : events[i] > 0 => c < CmdOf(i)
      BY DEF Noted
    <3>2. c < executed + 1 /\ c <= executed'
      BY <1>4, <3>1
    <3>3. QED
      BY <2>1, <2>2, <2>3, <3>1, <3>2
  <2>8. QED
    BY <1>3, <1>4, <1>5, <1>7, <1>8, <1>9, <2>1, <2>6, <2>7
<1>12. QED
  BY <1>10, <1>11 DEF xhc_execute

LEMMA LinkKeeps ==
  ASSUME RingInv, xhc_link
  PROVE  RingInv'
<1> USE DEF RingInv, Types
<1>1. dequeue = Link /\ ring[Link].cycle = cycle /\ dequeue' = 0 /\ cycle' = 1 - cycle
  BY DEF xhc_link, Owned
<1>2. UNCHANGED <<ring, cycle_state, currentEntry, cmdDesc, pc, todo, await, posted,
                  told, shape, raced, active, executed, events, enqueue,
                  dequeueTrb, interrupt_pending, isr, acks, ports>>
  BY DEF xhc_link, driver, kind, eventRing
<1>3. /\ posted \in Nat /\ told \in Nat /\ executed \in Nat /\ W \in 0 .. Link
      /\ Link \in Nat \ {0} /\ cycle_state \in {0, 1} /\ cycle \in {0, 1}
  BY Counts, Sizes, WInRing DEF TypeDriver, TypeXhc
<1>4. Types'
  <2>1. dequeue' \in Slots /\ cycle' \in {0, 1}
    BY <1>1, <1>3, RingAssumption DEF Slots, Link
  <2>2. QED
    BY <1>2, <2>1 DEF TypeRing, TypeDriver, TypeXhc, TypeEvents, Slots, Link
<1>5. /\ W' = W /\ (\A c : SlotOf(c)' = SlotOf(c))
      /\ ToWrite' = ToWrite /\ Base' = Base
  BY <1>2 DEF W, SlotOf, Place, Link, ToWrite, Base
<1>6. Batch'
  <2>1. Opening => Opening'
    BY <1>2, <1>5 DEF Opening
  <2>2. Later => Later'
    BY <1>2, <1>5 DEF Later, Told
  <2>3. QED
    BY <1>2, <1>5, <2>1, <2>2 DEF Batch, Link
<1>7. Written'
  BY <1>2, <1>5 DEF Written, Link
<1>8. Lap'
  <2>1. CASE SameLap
    <3>1. LapAhead'
      BY <1>1, <1>2, <1>3, <1>5, <2>1 DEF SameLap, LapAhead, Link
    <3>2. QED
      BY <3>1 DEF Lap
  <2>2. CASE LapBehind
    <3>1. SameLap'
      BY <1>1, <1>2, <1>3, <1>5, <2>2 DEF SameLap, LapBehind
    <3>2. QED
      BY <3>1 DEF Lap
  <2>3. CASE LapAhead
    BY <1>1, <1>3, <2>3 DEF LapAhead
  <2>4. QED
    BY <2>1, <2>2, <2>3 DEF Lap
<1>9. Reported' /\ \A i \in Window : events[i] > 0 => CmdOf(i)' = CmdOf(i)
  BY <1>2, <1>3, <1>5, ReportedFrame
<1>10. Noted'
  BY <1>2, <1>3, <1>5, <1>9, NotedFrame
<1>11. Pending'
  BY <1>2, PendingFrame
<1>12. QED
  BY <1>4, <1>6, <1>7, <1>8, <1>9, <1>10, <1>11

\* Nothing of the invariant speaks of whether the controller runs.
LEMMA StillKeeps ==
  ASSUME RingInv, active' \in BOOLEAN,
         UNCHANGED <<ring, cycle_state, currentEntry, cmdDesc, pc, todo, await,
                     posted, told, shape, raced, dequeue, cycle, executed, events,
                     enqueue, dequeueTrb, interrupt_pending, isr, acks, ports>>
  PROVE  RingInv'
<1> USE DEF RingInv, Types
<1>1. posted \in Nat /\ executed \in Nat
  BY Counts
<1>2. Types'
  BY DEF TypeRing, TypeDriver, TypeXhc, TypeEvents, Slots, Link
<1>3. /\ W' = W /\ (\A c : SlotOf(c)' = SlotOf(c))
      /\ ToWrite' = ToWrite /\ Base' = Base
  BY DEF W, SlotOf, Place, Link, ToWrite, Base
<1>4. Batch'
  <2>1. Opening => Opening'
    BY <1>3 DEF Opening
  <2>2. Later => Later'
    BY <1>3 DEF Later, Told
  <2>3. QED
    BY <1>3, <2>1, <2>2 DEF Batch, Link
<1>5. Written' /\ Lap'
  BY <1>3 DEF Written, Lap, SameLap, LapBehind, LapAhead, Link
<1>6. Reported' /\ \A i \in Window : events[i] > 0 => CmdOf(i)' = CmdOf(i)
  BY <1>1, <1>3, ReportedFrame
<1>7. Noted'
  BY <1>1, <1>3, <1>6, NotedFrame
<1>8. Pending'
  BY PendingFrame
<1>9. QED
  BY <1>2, <1>4, <1>5, <1>6, <1>7, <1>8

LEMMA StopKeeps ==
  ASSUME RingInv, xhc_stop
  PROVE  RingInv'
<1>1. /\ active' \in BOOLEAN
      /\ UNCHANGED <<ring, cycle_state, currentEntry, cmdDesc, pc, todo, await,
                     posted, told, shape, raced, dequeue, cycle, executed, events,
                     enqueue, dequeueTrb, interrupt_pending, isr, acks, ports>>
  BY DEF xhc_stop, driver, kind, eventRing
<1>2. QED
  BY <1>1, StillKeeps

LEMMA PortKeeps ==
  ASSUME RingInv, xhc_port(1)
  PROVE  RingInv'
<1> USE DEF RingInv, Types
<1>1. /\ RoomForEvent /\ Report(-1) /\ ports < MaxPorts /\ ports' = ports + 1
      /\ UNCHANGED <<dequeueTrb, isr, acks>>
  BY DEF xhc_port
<1>2. UNCHANGED <<ring, cycle_state, currentEntry, cmdDesc, pc, todo, await, posted,
                  told, shape, raced, dequeue, cycle, active, executed>>
  BY DEF xhc_port, driver, kind, xhc
<1>3. ports' \in 0 .. MaxPorts /\ -1 \in Int
  BY <1>1, RingAssumption DEF TypeEvents
<1>4. TypeRing' /\ TypeDriver' /\ TypeXhc'
  BY <1>2 DEF TypeRing, TypeDriver, TypeXhc, Slots, Link
<1>5. PICK q : q = enqueue
  OBVIOUS
<1>6. /\ Front' = Front /\ Window' = Window \cup {q} /\ events'[q] = -1
      /\ \A i \in Window : i # q /\ events'[i] = events[i]
      /\ Pending' /\ TypeEvents'
  BY <1>1, <1>3, <1>5, ReportFacts
<1>7. /\ W' = W /\ (\A c : SlotOf(c)' = SlotOf(c))
      /\ ToWrite' = ToWrite /\ Base' = Base
  BY <1>2 DEF W, SlotOf, Place, Link, ToWrite, Base
<1>8. Batch'
  <2>1. Opening => Opening'
    BY <1>2, <1>7 DEF Opening
  <2>2. Later => Later'
    BY <1>2, <1>7 DEF Later, Told
  <2>3. QED
    BY <1>2, <1>7, <2>1, <2>2 DEF Batch, Link
<1>9. Written' /\ Lap'
  BY <1>2, <1>7 DEF Written, Lap, SameLap, LapBehind, LapAhead, Link
<1>10. \A i \in Window : CmdOf(i)' = CmdOf(i)
  BY <1>2, <1>6 DEF CmdOf
<1>11. \A i \in Window : SlotOf(CmdOf(i))' = SlotOf(CmdOf(i))
  BY <1>2, <1>7, <1>10 DEF SlotOf
<1>12. \A i : Rank(Front, i)' = Rank(Front, i)
  BY <1>6 DEF Rank
<1>13. \A i \in Window' : events'[i] = -1 \/ i \in Window
  BY <1>6
<1>14. \A i \in Window' : events'[i] > 0 => i \in Window
  BY <1>13
<1>15. Reported'
  <2>1. \A i \in Window' :
               \/ events'[i] = -1
               \/ /\ events'[i] - 1 \in 0 .. Link-1 /\ CmdOf(i)' \in told'+1 .. executed'
                  /\ SlotOf(CmdOf(i))' = events'[i] - 1
    BY <1>2, <1>6, <1>10, <1>11, <1>13 DEF Reported
  <2>2. \A i, j \in Window' :
          events'[i] > 0 /\ events'[j] > 0 /\ Rank(Front, i)' < Rank(Front, j)'
            => CmdOf(i)' < CmdOf(j)'
    BY <1>6, <1>10, <1>12, <1>14 DEF Reported
  <2>3. QED
    BY <2>1, <2>2 DEF Reported, Link
<1>16. Noted'
  <2> SUFFICES ASSUME NEW c \in told+1 .. posted, pc = "clear" => c # posted,
                      cmdDesc[SlotOf(c)].complete
               PROVE  /\ cmdDesc[SlotOf(c)].cmd = c /\ c <= executed
                      /\ \A i \in Window' : events'[i] > 0 => c < CmdOf(i)'
    BY <1>2, <1>7 DEF Noted
  <2>1. /\ cmdDesc[SlotOf(c)].cmd = c /\ c <= executed
        /\ \A i \in Window : events[i] > 0 => c < CmdOf(i)
    BY DEF Noted
  <2>2. QED
    BY <1>6, <1>10, <1>14, <2>1
<1>17. QED
  BY <1>4, <1>6, <1>8, <1>9, <1>15, <1>16

-----------------------------------------------------------------------------
(* The handler.                                                             *)
\* The event the handler takes is the first of the window.
LEMMA FrontHandled ==
  ASSUME RingInv, xhci_interrupter, NEW q, q = dequeueTrb
  PROVE  /\ Front = q /\ Front' = Advance(q) /\ Event = events[q] /\ enqueue # q
         /\ q \in 0 .. EventEntries-1
         /\ \A i \in 0 .. EventEntries-1 :
              /\ Rank(q, i) \in Nat /\ (i # q => Rank(q, i) > 0)
              /\ i # q => Rank(Advance(q), i) = Rank(q, i) - 1
              /\ Rank(q, q) = 0 /\ Rank(Advance(q), q) = EventEntries - 1
         /\ q \in Window /\ Window' = Window \ {q}
<1> USE DEF RingInv, Types
<1>1. isr = "out" /\ interrupt_pending /\ isr' = "handled"
  BY DEF xhci_interrupter
<1>2. UNCHANGED <<events, enqueue, dequeueTrb>>
  BY DEF xhci_interrupter
<1>3. /\ enqueue \in 0 .. EventEntries-1 /\ dequeueTrb \in 0 .. EventEntries-1
      /\ events \in [0 .. EventEntries-1 -> Int]
  BY DEF TypeEvents
<1>5. /\ Front = q /\ Front' = Advance(q) /\ Event = events[q] /\ enqueue # q
      /\ q \in 0 .. EventEntries-1
  BY <1>1, <1>2, <1>3 DEF Front, Event, Pending, Advance
<1>6. \A i \in 0 .. EventEntries-1 :
        /\ Rank(q, i) \in Nat /\ (i # q => Rank(q, i) > 0)
        /\ i # q => Rank(Advance(q), i) = Rank(q, i) - 1
        /\ Rank(q, q) = 0 /\ Rank(Advance(q), q) = EventEntries - 1
  <2>1. \A i \in 0 .. EventEntries-1 :
          /\ Rank(q, i) \in 0 .. EventEntries-1 /\ Rank(q, q) = 0
          /\ (Rank(q, i) = 0) = (i = q)
    BY <1>5, RankFacts
  <2>2. \A i \in 0 .. EventEntries-1 : i # q => Rank(Advance(q), i) = Rank(q, i) - 1
    BY <1>5, RankAdvanced
  <2>3. Rank(Advance(q), q) = EventEntries - 1
    BY <1>5, RingAssumption DEF Rank, Advance
  <2>4. QED
    BY <2>1, <2>2, <2>3
<1>7. q \in Window /\ Window' = Window \ {q}
  <2>1. q \in Window
    BY <1>3, <1>5, <1>6 DEF Window
  <2>2. \A i \in 0 .. EventEntries-1 :
          Rank(Advance(q), i) < Rank(Advance(q), enqueue)
            <=> Rank(q, i) < Rank(q, enqueue) /\ i # q
    <3> SUFFICES ASSUME NEW i \in 0 .. EventEntries-1
                 PROVE  Rank(Advance(q), i) < Rank(Advance(q), enqueue)
                          <=> Rank(q, i) < Rank(q, enqueue) /\ i # q
      OBVIOUS
    <3>1. PICK m, n : m = Rank(q, i) /\ n = Rank(q, enqueue)
      OBVIOUS
    <3>2. /\ m \in Nat /\ n \in 0 .. EventEntries-1 /\ Rank(Advance(q), enqueue) = n - 1
      BY <1>3, <1>5, <1>6, <3>1, RankFacts
    <3>3. CASE i = q
      <4>1. ~(EventEntries - 1 < n - 1)
        BY <3>2, RingAssumption
      <4>2. QED
        BY <1>6, <3>2, <3>3, <4>1
    <3>4. CASE i # q
      <4>1. Rank(Advance(q), i) = m - 1
        BY <1>6, <3>1, <3>4
      <4>2. QED
        BY <3>1, <3>2, <3>4, <4>1
    <3>5. QED
      BY <3>3, <3>4
  <2>3. Window' = {i \in 0 .. EventEntries-1 :
                     Rank(Advance(q), i) < Rank(Advance(q), enqueue)}
    BY <1>2, <1>5 DEF Window, Rank
  <2>4. QED
    BY <1>5, <2>1, <2>2, <2>3 DEF Window
<1>8. QED
  BY <1>5, <1>6, <1>7

LEMMA InterrupterKeeps ==
  ASSUME RingInv, xhci_interrupter
  PROVE  RingInv'
<1> USE DEF RingInv, Types
<1>1. /\ isr = "out" /\ interrupt_pending /\ isr' = "handled" /\ acks' = Acks
      /\ cmdDesc' = IF IsCompletion THEN MarkComplete(Event-1, ring[Event-1].cmd)
                                    ELSE cmdDesc
  BY DEF xhci_interrupter
<1>2. UNCHANGED <<ring, cycle_state, currentEntry, pc, todo, await, posted, told,
                  shape, raced, dequeue, cycle, active, executed, events, enqueue,
                  dequeueTrb, interrupt_pending, ports>>
  BY DEF xhci_interrupter, kind, xhc
<1>3. /\ posted \in Nat /\ told \in Nat /\ executed \in Nat /\ executed <= posted
      /\ enqueue \in 0 .. EventEntries-1 /\ dequeueTrb \in 0 .. EventEntries-1
      /\ events \in [0 .. EventEntries-1 -> Int] /\ Link \in Nat \ {0}
  BY Counts, Sizes DEF Batch, TypeEvents
<1>4. PICK q : q = dequeueTrb
  OBVIOUS
<1>5. /\ Front = q /\ Front' = Advance(q) /\ Event = events[q] /\ enqueue # q
      /\ q \in 0 .. EventEntries-1
  BY <1>4, FrontHandled
<1>6. \A i \in 0 .. EventEntries-1 :
        /\ Rank(q, i) \in Nat /\ (i # q => Rank(q, i) > 0)
        /\ i # q => Rank(Advance(q), i) = Rank(q, i) - 1
        /\ Rank(q, q) = 0 /\ Rank(Advance(q), q) = EventEntries - 1
  BY <1>4, FrontHandled
<1>7. q \in Window /\ Window' = Window \ {q}
  BY <1>4, FrontHandled
<1>8. /\ \A i : CmdOf(i)' = CmdOf(i)
      /\ W' = W /\ (\A c : SlotOf(c)' = SlotOf(c))
      /\ ToWrite' = ToWrite /\ Base' = Base
  BY <1>2 DEF CmdOf, W, SlotOf, Place, Link, ToWrite, Base
<1>9. \/ Event = -1
      \/ /\ Event - 1 \in 0 .. Link-1 /\ Event > 0 /\ CmdOf(q) \in told+1 .. executed
         /\ SlotOf(CmdOf(q)) = Event - 1 /\ CmdOf(q) = ring[Event-1].cmd
  BY <1>3, <1>5, <1>7 DEF Reported, CmdOf
<1>10. acks' = 1
  BY <1>1, <1>9 DEF Acks, IsCompletion
<1>11. \/ Event = -1 /\ cmdDesc' = cmdDesc
       \/ /\ Event - 1 \in Slots /\ Event > 0
          /\ cmdDesc' = [cmdDesc EXCEPT ![Event-1] = [complete |-> TRUE, cmd |-> CmdOf(q)]]
          /\ CmdOf(q) \in 0 .. MaxPosts
  <2>1. CASE Event = -1
    BY <1>1, <2>1 DEF IsCompletion
  <2>2. CASE Event # -1
    <3>1. Event - 1 \in Slots
      BY <1>9, <2>2, RingAssumption DEF Slots, Link
    <3>2. CmdOf(q) \in 0 .. MaxPosts
      BY <1>3, <1>9, <2>2, RingAssumption DEF TypeXhc
    <3>3. QED
      BY <1>1, <1>9, <2>2, <3>1, <3>2 DEF IsCompletion, MarkComplete
  <2>3. QED
    BY <2>1, <2>2
<1>12. Types'
  <2>1. cmdDesc' \in [Slots -> [complete : BOOLEAN, cmd : 0 .. MaxPosts]]
    <3>1. CASE cmdDesc' = cmdDesc
      BY <3>1 DEF TypeRing
    <3>2. CASE cmdDesc' # cmdDesc
      <4>1. PICK r \in [complete : BOOLEAN, cmd : 0 .. MaxPosts] :
              cmdDesc' = [cmdDesc EXCEPT ![Event-1] = r]
        BY <1>11, <3>2
      <4>2. QED
        BY <4>1 DEF TypeRing
    <3>3. QED
      BY <3>1, <3>2
  <2>2. QED
    BY <1>1, <1>2, <1>10, <2>1 DEF TypeRing, TypeDriver, TypeXhc, TypeEvents, Slots, Link
<1>13. Batch'
  <2>1. Opening => Opening'
    BY <1>2, <1>8 DEF Opening
  <2>2. Later => Later'
    BY <1>2, <1>8 DEF Later, Told
  <2>3. QED
    BY <1>2, <1>8, <2>1, <2>2 DEF Batch, Link
<1>14. Written' /\ Lap'
  BY <1>2, <1>8 DEF Written, Lap, SameLap, LapBehind, LapAhead, Link
<1>15. \A i \in Window' : i \in Window /\ i # q /\ Rank(Front, i)' = Rank(q, i) - 1
       /\ Rank(q, i) \in Nat
  <2>1. \A i : Rank(Front, i)' = Rank(Advance(q), i)
    BY <1>5 DEF Rank
  <2>2. \A i \in Window : i \in 0 .. EventEntries-1
    BY DEF Window
  <2>3. QED
    BY <1>6, <1>7, <2>1, <2>2
<1>16. Reported'
  <2>1. \A i \in Window' :
               \/ events'[i] = -1
               \/ /\ events'[i] - 1 \in 0 .. Link-1 /\ CmdOf(i)' \in told'+1 .. executed'
                  /\ SlotOf(CmdOf(i))' = events'[i] - 1
    <3>1. \A i \in Window : SlotOf(CmdOf(i))' = SlotOf(CmdOf(i))
      BY <1>2, <1>8 DEF SlotOf
    <3>2. QED
      BY <1>2, <1>7, <1>8, <3>1 DEF Reported
  <2>2. ASSUME NEW i \in Window', NEW j \in Window', events'[i] > 0, events'[j] > 0,
               Rank(Front, i)' < Rank(Front, j)'
        PROVE  CmdOf(i)' < CmdOf(j)'
    <3>1. Rank(q, i) < Rank(q, j)
      BY <1>15, <2>2
    <3>2. QED
      BY <1>2, <1>5, <1>8, <1>15, <2>2, <3>1 DEF Reported
  <2>3. QED
    BY <2>1, <2>2 DEF Reported, Link
<1>17. Noted'
  <2> SUFFICES ASSUME NEW c \in told+1 .. posted, pc = "clear" => c # posted,
                      cmdDesc'[SlotOf(c)].complete
               PROVE  /\ cmdDesc'[SlotOf(c)].cmd = c /\ c <= executed
                      /\ \A i \in Window' : events[i] > 0 => c < CmdOf(i)
    BY <1>2, <1>8 DEF Noted
  <2>1. CASE cmdDesc'[SlotOf(c)] = cmdDesc[SlotOf(c)]
    BY <1>7, <2>1 DEF Noted
  <2>2. CASE cmdDesc'[SlotOf(c)] # cmdDesc[SlotOf(c)]
    <3>1. SlotOf(c) \in Slots
      BY SlotFacts
    <3>2. /\ Event > 0 /\ SlotOf(c) = Event - 1
          /\ cmdDesc'[SlotOf(c)] = [complete |-> TRUE, cmd |-> CmdOf(q)]
      BY <1>11, <2>2, <3>1 DEF TypeRing
    <3>3. CmdOf(q) \in told+1 .. executed /\ SlotOf(CmdOf(q)) = Event - 1
      BY <1>9, <3>2
    <3>4. CmdOf(q) \in told+1 .. posted
      BY <1>3, <3>3
    <3>5. c = CmdOf(q)
      BY <3>2, <3>3, <3>4, SlotFacts
    <3>6. \A i \in Window' : Rank(q, q) < Rank(q, i)
      BY <1>6, <1>15 DEF Window
    <3>7. \A i \in Window' : events[i] > 0 => CmdOf(q) < CmdOf(i)
      BY <1>5, <1>7, <1>15, <3>2, <3>6 DEF Reported
    <3>8. QED
      BY <1>3, <3>2, <3>3, <3>5, <3>7
  <2>3. QED
    BY <2>1, <2>2
<1>18. Pending'
  BY <1>1, <1>2, <1>4, <1>5, <1>10 DEF Pending
<1>19. QED
  BY <1>12, <1>13, <1>14, <1>16, <1>17, <1>18

\* The acknowledgements move no event into or out of the window.
LEMMA AckKeeps ==
  ASSUME RingInv, xhci_send_ack \/ xhci_update_dequeue_trb
  PROVE  RingInv'
<1> USE DEF RingInv, Types
<1>1. UNCHANGED <<ring, cycle_state, currentEntry, cmdDesc, pc, todo, await, posted,
                  told, shape, raced, dequeue, cycle, active, executed, events,
                  enqueue, ports>>
  BY DEF xhci_send_ack, xhci_update_dequeue_trb, driver, kind, xhc
<1>2. dequeueTrb \in 0 .. EventEntries-1
  BY DEF TypeEvents
<1>3. Front' = Front /\ Pending' /\ TypeEvents'
  <2>1. CASE xhci_send_ack
    <3>1. /\ isr = "handled" /\ isr' = "acked" /\ interrupt_pending' = FALSE
          /\ UNCHANGED <<dequeueTrb, acks>>
      BY <2>1 DEF xhci_send_ack
    <3>2. QED
      BY <1>1, <3>1 DEF Front, Pending, TypeEvents, Advance
  <2>2. CASE xhci_update_dequeue_trb
    <3>1. /\ isr = "acked" /\ acks = 1 /\ isr' = "out" /\ acks' = 0
          /\ dequeueTrb' = Advance(dequeueTrb)
          /\ interrupt_pending' = (interrupt_pending \/ enqueue # dequeueTrb')
      BY <2>2 DEF xhci_update_dequeue_trb, Pending
    <3>2. dequeueTrb' \in 0 .. EventEntries-1
      BY <1>2, <3>1, AdvanceFacts
    <3>3. Front' = Front
      BY <3>1 DEF Front
    <3>4. interrupt_pending' => enqueue # dequeueTrb'
      BY <3>1 DEF Pending, Front
    <3>5. QED
      BY <1>1, <3>1, <3>2, <3>3, <3>4 DEF Pending, TypeEvents, Front
  <2>3. QED
    BY <2>1, <2>2
<1>4. Window' = Window /\ \A i : CmdOf(i)' = CmdOf(i) /\ Rank(Front, i)' = Rank(Front, i)
  BY <1>1, <1>3 DEF Window, CmdOf, Rank
<1>5. /\ W' = W /\ (\A c : SlotOf(c)' = SlotOf(c))
      /\ ToWrite' = ToWrite /\ Base' = Base
  BY <1>1 DEF W, SlotOf, Place, Link, ToWrite, Base
<1>6. TypeRing' /\ TypeDriver' /\ TypeXhc'
  BY <1>1 DEF TypeRing, TypeDriver, TypeXhc, Slots, Link
<1>7. Batch'
  <2>1. Opening => Opening'
    BY <1>1, <1>5 DEF Opening
  <2>2. Later => Later'
    BY <1>1, <1>5 DEF Later, Told
  <2>3. QED
    BY <1>1, <1>5, <2>1, <2>2 DEF Batch, Link
<1>8. Written' /\ Lap'
  BY <1>1, <1>5 DEF Written, Lap, SameLap, LapBehind, LapAhead, Link
<1>9. Reported'
  <2>1. \A i \in Window : SlotOf(CmdOf(i))' = SlotOf(CmdOf(i))
    BY <1>1, <1>4, <1>5 DEF SlotOf
  <2>2. QED
    BY <1>1, <1>4, <2>1 DEF Reported, Link
<1>10. Noted'
  BY <1>1, <1>4, <1>5 DEF Noted
<1>11. QED
  BY <1>3, <1>6, <1>7, <1>8, <1>9, <1>10

-----------------------------------------------------------------------------
\* A port event is acknowledged once, unless two changes of a port come
\* together (PortAcks).
LEMMA NextInv ==
  ASSUME RingInv, PortAcks \subseteq {1}, [Next]_vars
  PROVE  RingInv'
<1>1. CASE Driver
  BY <1>1, BeginKeeps, AllocWrapKeeps, AllocWriteKeeps, AllocClearKeeps, RingKeeps,
     YieldKeeps DEF Driver
<1>2. CASE Controller
  BY <1>2, ExecuteKeeps, LinkKeeps, StopKeeps DEF Controller
<1>3. CASE \E k \in PortAcks : xhc_port(k)
  BY <1>3, PortKeeps
<1>4. CASE Handler
  BY <1>4, InterrupterKeeps, AckKeeps DEF Handler
<1>5. CASE UNCHANGED vars
  <2>1. /\ active' \in BOOLEAN
        /\ UNCHANGED <<ring, cycle_state, currentEntry, cmdDesc, pc, todo, await,
                       posted, told, shape, raced, dequeue, cycle, executed, events,
                       enqueue, dequeueTrb, interrupt_pending, isr, acks, ports>>
    BY <1>5 DEF vars, driver, kind, xhc, eventRing, RingInv, Types, TypeXhc
  <2>2. QED
    BY <2>1, StillKeeps
<1>6. QED
  BY <1>1, <1>2, <1>3, <1>4, <1>5 DEF Next

LEMMA InvImpliesType == RingInv => TypeOK
BY DEF RingInv, Types, TypeRing, TypeDriver, TypeXhc, TypeEvents, TypeOK

LEMMA InvImpliesTold == RingInv => ToldOfItsOwn
<1> SUFFICES ASSUME RingInv, pc = "idle", posted > 0
             PROVE  told = IF posted = shape.first THEN 1 ELSE posted
  BY DEF ToldOfItsOwn
<1>1. ~Opening
  BY Counts DEF RingInv, Opening
<1>2. Later /\ Base = posted
  BY <1>1 DEF RingInv, Batch, Base
<1>3. told = Told(posted)
  BY <1>2 DEF Later
<1>4. posted # 0
  BY Counts DEF RingInv
<1>5. QED
  BY <1>3, <1>4 DEF Told

LEMMA InvImpliesEvent == RingInv => InterruptHasEvent
BY DEF RingInv, Pending, Front, InterruptHasEvent

\* RingInv is kept: over any number of laps the commands out are in entries
\* of their own, the controller takes them in order, and their events are told
\* to the descriptors they belong to.
THEOREM RingCorrect ==
  ASSUME PortAcks \subseteq {1}
  PROVE  Spec => []RingInv
<1>1. RingInv /\ [Next]_vars => RingInv'
  BY PortAcks \subseteq {1}, NextInv
<1>2. QED
  BY <1>1, InitInv, PTL DEF Spec

\* The types, for rings and batches of every size.
THEOREM TypeCorrect ==
  ASSUME PortAcks \subseteq {1}
  PROVE  Spec => []TypeOK
<1>1. Spec => []RingInv
  BY PortAcks \subseteq {1}, RingCorrect
<1>2. QED
  BY <1>1, InvImpliesType, PTL

\* A wait that ended was told of the command it was for.
THEOREM WaitCorrect ==
  ASSUME PortAcks \subseteq {1}
  PROVE  Spec => []ToldOfItsOwn
<1>1. Spec => []RingInv
  BY PortAcks \subseteq {1}, RingCorrect
<1>2. QED
  BY <1>1, InvImpliesTold, PTL

\* The handler, which does not look at the cycle bit, finds an event.
THEOREM HandlerHasEvent ==
  ASSUME PortAcks \subseteq {1}
  PROVE  Spec => []InterruptHasEvent
<1>1. Spec => []RingInv
  BY PortAcks \subseteq {1}, RingCorrect
<1>2. QED
  BY <1>1, InvImpliesEvent, PTL

\* A step of the ring is a step of the queue of commands, or none.
LEMMA NextIsQueueStep ==
  ASSUME RingInv, [Next]_vars
  PROVE  [Queue!Next]_<<posted, executed, told>>
<1>1. CASE AllocWrite
  <2>1. posted' = posted + 1 /\ UNCHANGED <<executed, told>>
    BY <1>1 DEF AllocWrite, xhc
  <2>2. QED
    BY <2>1 DEF Queue!Next, Queue!Post
<1>2. CASE xhci_yield_until_cmd_complete
  <2>1. told' = Target /\ Target \in told+1 .. executed
    BY <1>2, YieldTells
  <2>2. UNCHANGED <<posted, executed>>
    BY <1>2 DEF xhci_yield_until_cmd_complete, xhc
  <2>3. QED
    BY <2>1, <2>2 DEF Queue!Next, Queue!Tell
<1>3. CASE xhc_execute
  <2>1. executed' = executed + 1 /\ executed < posted
    BY <1>3, ExecuteKeeps
  <2>2. UNCHANGED <<posted, told>>
    BY <1>3 DEF xhc_execute, driver
  <2>3. QED
    BY <2>1, <2>2 DEF Queue!Next, Queue!Execute
<1>4. CASE Begin \/ AllocWrap \/ AllocClear \/ xhci_ring
  <2>1. UNCHANGED <<posted, executed, told>>
    BY <1>4 DEF Begin, AllocWrap, AllocClear, xhci_ring, xhc
  <2>2. QED
    BY <2>1
<1>5. CASE xhc_link \/ xhc_stop \/ (\E k \in PortAcks : xhc_port(k))
  <2>1. UNCHANGED <<posted, executed, told>>
    BY <1>5 DEF xhc_link, xhc_stop, xhc_port, driver, xhc
  <2>2. QED
    BY <2>1
<1>6. CASE Handler
  <2>1. UNCHANGED <<posted, executed, told>>
    BY <1>6 DEF Handler, xhci_interrupter, xhci_send_ack, xhci_update_dequeue_trb,
                driver, xhc
  <2>2. QED
    BY <2>1
<1>7. CASE UNCHANGED vars
  BY <1>7 DEF vars, driver, xhc
<1>8. QED
  BY <1>1, <1>2, <1>3, <1>4, <1>5, <1>6, <1>7 DEF Next, Driver, Controller

\* Over every wrap, and in every order of the driver, the controller and the
\* handler, the ring is a queue of commands.
THEOREM RingIsQueue ==
  ASSUME PortAcks \subseteq {1}
  PROVE  Spec => ImplementsQueue
<1>1. Init => Queue!Init
  BY DEF Init, Queue!Init
<1>2. RingInv /\ [Next]_vars => [Queue!Next]_<<posted, executed, told>>
  BY NextIsQueueStep
<1>3. Spec => []RingInv
  BY PortAcks \subseteq {1}, RingCorrect
<1>4. QED
  BY <1>1, <1>2, <1>3, PTL DEF Spec, ImplementsQueue, Queue!Spec

-----------------------------------------------------------------------------
(* No wait is lost: what WaitServed needs on top of RingInv.                *)

\* The command before the batch under way.
Start == IF told = 0 THEN 0 ELSE Base

\* The controller stops at the end of what is posted.  When it was stopped
\* before the batch, it is so until the doorbell rings.
Running ==
  /\ pc \in {"idle", "wait"} /\ ~active => executed = posted
  /\ pc \in {"alloc", "clear", "ring"} /\ ~raced =>
       IF active THEN posted = Start ELSE executed = Start

\* The command the thread waits for, once executed, is marked or on its way.
Answered ==
  pc = "wait" /\ ~raced /\ Target <= executed =>
    cmdDesc[await].complete \/ \E i \in Window : events[i] - 1 = await

\* An event that is not handled keeps the interrupt up.
Alive == isr = "out" /\ enqueue # dequeueTrb => interrupt_pending

Served == Running /\ Answered /\ Alive

LEMMA StartFacts ==
  ASSUME RingInv
  PROVE  /\ Start \in Nat
         /\ Start = IF Opening THEN 0 ELSE Base
         /\ pc = "idle" => Start = posted
         /\ pc \in {"ring", "wait"} => Start < Target /\ Start < posted
<1> USE DEF RingInv
<1>1. /\ posted \in Nat /\ told \in Nat /\ todo \in Nat
      /\ shape.first \in Nat /\ shape.batch \in Nat \ {0}
  BY Counts, Sizes
<1>2. CASE Opening
  <2>1. Start = 0 /\ (pc = "idle" => posted = 0)
    BY <1>2 DEF Opening, Start
  <2>2. ASSUME pc \in {"ring", "wait"} PROVE 0 < Target /\ 0 < posted
    <3>1. Target = 1
      BY <1>2 DEF Target
    <3>2. posted > 0
      BY <1>1, <1>2, <2>2 DEF Batch, ToWrite, Opening
    <3>3. QED
      BY <3>1, <3>2
  <2>3. QED
    BY <1>2, <2>1, <2>2
<1>3. CASE Later /\ ~Opening
  <2>1. PICK b : b = Base
    OBVIOUS
  <2>2. b \in Nat
    BY <1>1, <1>3, <2>1, WInRing DEF Later, Base
  <2>3. told = 0 => b = 0
    BY <1>3, <2>1 DEF Later, Told
  <2>4. Start = b
    BY <2>1, <2>3 DEF Start
  <2>5. pc = "idle" => b = posted
    BY <2>1 DEF Base
  <2>6. ASSUME pc \in {"ring", "wait"} PROVE b < Target /\ b < posted
    <3>1. Target = posted
      BY <1>3 DEF Target
    <3>2. b = posted + 0 - shape.batch
      BY <2>1, <2>6 DEF Base, ToWrite, Batch
    <3>3. QED
      BY <1>1, <2>2, <3>1, <3>2
  <2>7. QED
    BY <1>3, <2>1, <2>2, <2>4, <2>5, <2>6
<1>4. QED
  BY <1>2, <1>3 DEF Batch

\* An entry that was posted and not executed is the controller's to take.
LEMMA OwnedWhenBehind ==
  ASSUME RingInv, ~Owned(dequeue)
  PROVE  executed = posted
<1> USE DEF RingInv
<1>1. /\ posted \in Nat /\ executed \in Nat /\ W \in 0 .. Link /\ dequeue \in 0 .. Link
      /\ Link \in Nat \ {0} /\ cycle_state \in {0, 1}
  BY Counts, Sizes, WInRing DEF Types, TypeDriver
<1>2. dequeue # Link =>
        ring[dequeue].cycle = IF dequeue < W THEN cycle_state ELSE 1 - cycle_state
  BY <1>1 DEF Written
<1>3. CASE SameLap
  <2>1. ~(dequeue < W)
    <3>1. ASSUME dequeue < W PROVE FALSE
      <4>1. dequeue # Link
        BY <1>1, <3>1
      <4>2. ring[dequeue].cycle = cycle_state /\ cycle = cycle_state
        BY <1>2, <1>3, <3>1, <4>1, Zenon DEF SameLap
      <4>3. QED
        BY <4>2 DEF Owned
    <3>2. QED
      BY <3>1
  <2>2. QED
    BY <1>1, <1>3, <2>1 DEF SameLap
<1>4. CASE LapBehind
  <2>1. CASE dequeue = Link
    BY <1>4, <2>1 DEF LapBehind, Owned
  <2>2. CASE dequeue # Link
    <3>1. ~(dequeue < W)
      BY <1>1, <1>4 DEF LapBehind
    <3>2. ring[dequeue].cycle = 1 - cycle_state /\ cycle = 1 - cycle_state
      BY <1>2, <1>4, <2>2, <3>1, Zenon DEF LapBehind
    <3>3. QED
      BY <3>2 DEF Owned
  <2>3. QED
    BY <2>1, <2>2
<1>5. CASE LapAhead
  BY <1>5 DEF LapAhead
<1>6. QED
  BY <1>3, <1>4, <1>5 DEF Lap

LEMMA ServedInit == Init => Served
<1> SUFFICES ASSUME Init PROVE Served
  OBVIOUS
<1>1. pc = "idle" /\ executed = posted /\ enqueue = dequeueTrb
  BY DEF Init
<1>2. QED
  BY <1>1 DEF Served, Running, Answered, Alive

LEMMA ServedImplies ==
  ASSUME RingInv, Served
  PROVE  WaitServed
<1> SUFFICES ASSUME pc = "wait", ~raced, ~cmdDesc[await].complete, isr = "out",
                    ~interrupt_pending
             PROVE  active /\ Owned(dequeue) /\ RoomForEvent
  BY DEF WaitServed
<1> USE DEF RingInv, Served
<1>1. enqueue = dequeueTrb
  BY DEF Alive
<1>2. enqueue \in 0 .. EventEntries-1
  BY DEF Types, TypeEvents
<1>3. RoomForEvent
  BY <1>1, <1>2, AdvanceFacts DEF RoomForEvent
<1>4. Window = {}
  <2>1. Front = enqueue /\ Rank(Front, enqueue) = 0
    BY <1>1, <1>2, RankFacts DEF Front
  <2>2. \A i \in 0 .. EventEntries-1 : ~(Rank(Front, i) < 0)
    <3> SUFFICES ASSUME NEW i \in 0 .. EventEntries-1 PROVE ~(Rank(Front, i) < 0)
      OBVIOUS
    <3>1. Rank(Front, i) \in 0 .. EventEntries-1
      BY <1>2, <2>1, RankFacts
    <3>2. PICK n : n = Rank(Front, i)
      OBVIOUS
    <3>3. QED
      BY <3>1, <3>2, RingAssumption
  <2>3. QED
    BY <2>1, <2>2 DEF Window
<1>5. executed # posted
  <2>1. ~(Target <= executed) /\ Target \in told+1 .. posted
    BY <1>4, TargetFacts DEF Answered
  <2>2. QED
    BY <2>1, Counts
<1>6. QED
  BY <1>3, <1>5, OwnedWhenBehind DEF Running

-----------------------------------------------------------------------------
(* Steps of the driver keep Served.                                         *)

\* What Served says of the events, when a step leaves them.
LEMMA AliveFrame ==
  ASSUME Served, UNCHANGED <<enqueue, dequeueTrb, interrupt_pending, isr>>
  PROVE  Alive'
BY DEF Served, Alive

LEMMA BeginServed ==
  ASSUME RingInv, RingInv', Served, Begin
  PROVE  Served'
<1> USE DEF Served
<1>1. /\ pc = "idle" /\ pc' = "alloc" /\ todo' = IF todo = 0 THEN shape.batch ELSE todo
      /\ UNCHANGED <<posted, told, shape, active, executed,
                     enqueue, dequeueTrb, interrupt_pending, isr>>
  BY DEF Begin, At, xhc, eventRing
<1>2. /\ posted \in Nat /\ told \in Nat /\ shape.batch \in Nat \ {0}
      /\ executed \in Nat /\ executed <= posted /\ told <= executed
  BY Counts, Sizes DEF RingInv, Batch
<1>3. Start = posted
  BY <1>1, StartFacts
<1>4. Start' = posted
  <2>1. CASE told = 0
    BY <1>1, <1>3, <2>1 DEF Start
  <2>2. CASE told # 0
    <3>1. ~Opening
      BY <2>2 DEF Opening
    <3>2. todo = 0
      BY <1>1, <3>1 DEF RingInv, Batch, Later
    <3>3. Start' = posted + shape.batch - shape.batch
      BY <1>1, <2>2, <3>2 DEF Start, Base, ToWrite
    <3>4. QED
      BY <1>2, <3>3
  <2>3. QED
    BY <2>1, <2>2
<1>5. Running'
  BY <1>1, <1>4 DEF Running
<1>6. Answered'
  BY <1>1 DEF Answered
<1>7. QED
  BY <1>1, <1>5, <1>6, AliveFrame

LEMMA WrapServed ==
  ASSUME RingInv, Served, AllocWrap
  PROVE  Served'
<1> USE DEF Served
<1>1. /\ pc = "alloc" /\ UNCHANGED <<pc, todo, posted, told, shape, raced, active,
                     executed, enqueue, dequeueTrb, interrupt_pending, isr>>
  BY DEF AllocWrap, At, xhc, eventRing, kind
<1>2. Running' /\ Answered'
  BY <1>1 DEF Running, Answered, Start, Base, ToWrite
<1>3. QED
  BY <1>1, <1>2, AliveFrame

\* An entry written while the controller runs is a race: otherwise it does not
\* run, and the entry stays where it is.
LEMMA WriteServed ==
  ASSUME RingInv, Served, AllocWrite
  PROVE  Served'
<1> USE DEF Served
<1>1. /\ pc = "alloc" /\ pc' = "clear" /\ posted' = posted + 1
      /\ raced' = (raced \/ active)
      /\ UNCHANGED <<todo, told, shape, active, executed,
                     enqueue, dequeueTrb, interrupt_pending, isr>>
  BY DEF AllocWrite, At, xhc, eventRing
<1>2. /\ posted \in Nat /\ todo \in Nat /\ shape.batch \in Nat
  BY Counts, Sizes DEF RingInv
<1>3. Start' = Start
  BY <1>1, <1>2 DEF Start, Base, ToWrite
<1>4. Running'
  BY <1>1, <1>3 DEF Running
<1>5. Answered'
  BY <1>1 DEF Answered
<1>6. QED
  BY <1>1, <1>4, <1>5, AliveFrame

LEMMA ClearServed ==
  ASSUME RingInv, Served, AllocClear
  PROVE  Served'
<1> USE DEF Served
<1>1. /\ pc = "clear" /\ pc' \in {"ring", "alloc"} /\ todo' = todo - 1
      /\ UNCHANGED <<posted, told, shape, raced, active, executed,
                     enqueue, dequeueTrb, interrupt_pending, isr>>
  BY DEF AllocClear, At, xhc, eventRing, kind
<1>2. Start' = Start
  BY <1>1 DEF Start, Base, ToWrite
<1>3. Running' /\ Answered'
  BY <1>1, <1>2 DEF Running, Answered
<1>4. QED
  BY <1>1, <1>3, AliveFrame

\* Before the doorbell nothing of the batch was executed.
LEMMA RingServed ==
  ASSUME RingInv, Served, xhci_ring
  PROVE  Served'
<1> USE DEF Served
<1>1. /\ pc = "ring" /\ pc' = "wait" /\ active' = TRUE
      /\ UNCHANGED <<currentEntry, todo, await, posted, told, shape, raced, cmdDesc,
                     executed, events, enqueue, dequeueTrb, interrupt_pending, isr>>
  BY DEF xhci_ring, At, kind, eventRing
<1>2. Target' = Target
  BY <1>1 DEF Target, Opening, ToWrite, SlotOf, Place, W, Link
<1>3. Running'
  BY <1>1 DEF Running
<1>4. ASSUME ~raced PROVE ~(Target <= executed)
  <2>1. Start < Target /\ Start < posted /\ Start \in Nat /\ posted \in Nat
        /\ Target \in told+1 .. posted /\ told \in Nat
    BY <1>1, StartFacts, Counts, TargetFacts DEF RingInv
  <2>2. executed = Start
    BY <1>1, <1>4, <2>1 DEF Running
  <2>3. QED
    BY <2>1, <2>2
<1>5. Answered'
  BY <1>1, <1>2, <1>4 DEF Answered
<1>6. QED
  BY <1>1, <1>3, <1>5, AliveFrame

LEMMA YieldServed ==
  ASSUME RingInv, Served, xhci_yield_until_cmd_complete
  PROVE  Served'
<1> USE DEF Served
<1>1. /\ pc = "wait" /\ pc' = "idle"
      /\ UNCHANGED <<posted, executed, active,
                     enqueue, dequeueTrb, interrupt_pending, isr>>
  BY DEF xhci_yield_until_cmd_complete, At, xhc, eventRing
<1>2. Running' /\ Answered'
  BY <1>1 DEF Running, Answered
<1>3. QED
  BY <1>1, <1>2, AliveFrame

-----------------------------------------------------------------------------
(* Steps of the controller and of the handler keep Served.                  *)

\* What Served says of the batch, when a step leaves the driver.
LEMMA DriverStill ==
  ASSUME UNCHANGED <<currentEntry, pc, todo, await, posted, told, shape>>
  PROVE  Start' = Start /\ Target' = Target
BY DEF Start, Base, ToWrite, Target, Opening, SlotOf, Place, W, Link

\* An awaited command reports.
LEMMA TargetReports ==
  ASSUME RingInv, pc = "wait"
  PROVE  Awaited(Target)
<1>1. /\ Target \in told+1 .. posted /\ Target = Told(posted) /\ posted >= shape.first
      /\ (posted - shape.first) % shape.batch = 0
  BY TargetFacts
<1>2. /\ posted \in Nat /\ told \in Nat /\ shape.first \in Nat /\ posted # 0
  BY <1>1, Counts, Sizes DEF RingInv
<1>3. CASE posted = shape.first
  BY <1>1, <1>2, <1>3 DEF Told, Awaited
<1>4. CASE posted # shape.first
  <2>1. Target = posted /\ Target > shape.first
    BY <1>1, <1>2, <1>4 DEF Told
  <2>2. QED
    BY <1>1, <2>1 DEF Awaited
<1>5. QED
  BY <1>3, <1>4

LEMMA ExecuteServed ==
  ASSUME RingInv, Served, xhc_execute
  PROVE  Served'
<1> USE DEF Served
<1>1. /\ active /\ dequeue # Link /\ Owned(dequeue) /\ RoomForEvent
      /\ UNCHANGED <<cmdDesc, currentEntry, pc, todo, await, posted, told, shape,
                     raced, active>>
  BY DEF xhc_execute, driver, kind
<1>2. /\ ring[dequeue].cmd = executed + 1 /\ SlotOf(executed + 1) = dequeue
      /\ executed' = executed + 1
  BY <1>1, NextCommand DEF xhc_execute
<1>3. Start' = Start /\ Target' = Target
  BY <1>1, DriverStill
<1>4. Running'
  BY <1>1, <1>3 DEF Running
<1>5. ASSUME pc = "wait", ~raced, Target <= executed'
      PROVE  Target <= executed \/ (await = dequeue /\ Awaited(ring[dequeue].cmd))
  <2>1. Target \in told+1 .. posted /\ await = SlotOf(Target)
    BY <1>5, TargetFacts
  <2>2. executed \in Nat /\ Target \in Nat
    BY <2>1, Counts DEF RingInv
  <2>3. Target <= executed \/ Target = executed + 1
    BY <1>2, <1>5, <2>2
  <2>4. QED
    BY <1>2, <1>5, <2>1, <2>3, TargetReports
<1>6. CASE UNCHANGED eventRing /\ ~Awaited(ring[dequeue].cmd)
  <2>1. UNCHANGED <<events, enqueue, dequeueTrb, interrupt_pending, isr>>
    BY <1>6 DEF eventRing
  <2>2. Window' = Window
    BY <2>1, EventsStill
  <2>3. Answered'
    BY <1>1, <1>3, <1>5, <1>6, <2>1, <2>2 DEF Answered
  <2>4. QED
    BY <1>4, <2>1, <2>3, AliveFrame
<1>7. CASE Report(1 + dequeue) /\ UNCHANGED <<dequeueTrb, isr, acks, ports>>
  <2>1. 1 + dequeue \in Int /\ dequeue \in Nat /\ ports' \in 0 .. MaxPorts
    BY <1>7, Counts DEF RingInv, Types, TypeEvents
  <2>2. PICK q : q = enqueue
    OBVIOUS
  <2>3. /\ Window' = Window \cup {q} /\ events'[q] = 1 + dequeue
        /\ \A i \in Window : events'[i] = events[i]
    BY <1>1, <1>7, <2>1, <2>2, ReportFacts
  <2>4. Answered'
    <3> SUFFICES ASSUME pc = "wait", ~raced, Target <= executed', ~cmdDesc[await].complete
                 PROVE  \E i \in Window' : events'[i] - 1 = await
      BY <1>1, <1>3 DEF Answered
    <3>1. CASE Target <= executed
      BY <2>3, <3>1 DEF Answered
    <3>2. CASE await = dequeue
      <4>1. events'[q] - 1 = await
        BY <2>1, <2>3, <3>2
      <4>2. QED
        BY <2>3, <4>1
    <3>3. QED
      BY <1>5, <3>1, <3>2
  <2>5. Alive'
    BY <1>7 DEF Report, Alive
  <2>6. QED
    BY <1>4, <2>4, <2>5
<1>8. QED
  BY <1>6, <1>7 DEF xhc_execute

LEMMA LinkServed ==
  ASSUME RingInv, Served, xhc_link
  PROVE  Served'
<1> USE DEF Served
<1>1. UNCHANGED <<cmdDesc, currentEntry, pc, todo, await, posted, told, shape, raced,
                  active, executed, events, enqueue, dequeueTrb, interrupt_pending, isr>>
  BY DEF xhc_link, driver, kind, eventRing
<1>2. Start' = Start /\ Target' = Target /\ Window' = Window
  BY <1>1, DriverStill, EventsStill
<1>3. Running' /\ Answered'
  BY <1>1, <1>2 DEF Running, Answered
<1>4. QED
  BY <1>1, <1>3, AliveFrame

\* It stops only when it has taken all that was posted.
LEMMA StopServed ==
  ASSUME RingInv, Served, xhc_stop
  PROVE  Served'
<1> USE DEF Served
<1>1. /\ active /\ active' = FALSE /\ ~Owned(dequeue)
      /\ UNCHANGED <<cmdDesc, currentEntry, pc, todo, await, posted, told, shape, raced,
                     executed, events, enqueue, dequeueTrb, interrupt_pending, isr>>
  BY DEF xhc_stop, driver, kind, eventRing
<1>2. Start' = Start /\ Target' = Target /\ Window' = Window
  BY <1>1, DriverStill, EventsStill
<1>3. executed = posted
  BY <1>1, OwnedWhenBehind
<1>4. Running' /\ Answered'
  BY <1>1, <1>2, <1>3 DEF Running, Answered
<1>5. QED
  BY <1>1, <1>4, AliveFrame

LEMMA PortServed ==
  ASSUME RingInv, Served, xhc_port(1)
  PROVE  Served'
<1> USE DEF Served
<1>1. /\ RoomForEvent /\ Report(-1) /\ ports < MaxPorts /\ ports' = ports + 1
      /\ UNCHANGED <<dequeueTrb, isr, acks>>
      /\ UNCHANGED <<cmdDesc, currentEntry, pc, todo, await, posted, told, shape, raced,
                     active, executed>>
  BY DEF xhc_port, driver, kind, xhc
<1>2. Start' = Start /\ Target' = Target
  BY <1>1, DriverStill
<1>3. ports' \in 0 .. MaxPorts /\ -1 \in Int
  BY <1>1, RingAssumption DEF RingInv, Types, TypeEvents
<1>4. Window \subseteq Window' /\ \A i \in Window : events'[i] = events[i]
  BY <1>1, <1>3, ReportFacts
<1>5. Running' /\ Answered'
  BY <1>1, <1>2, <1>4 DEF Running, Answered
<1>6. Alive'
  BY <1>1 DEF Report, Alive
<1>7. QED
  BY <1>5, <1>6

\* The handler takes the first event and marks its descriptor.
LEMMA InterrupterServed ==
  ASSUME RingInv, Served, xhci_interrupter
  PROVE  Served'
<1> USE DEF Served
<1>1. /\ isr' = "handled"
      /\ cmdDesc' = IF IsCompletion THEN MarkComplete(Event-1, ring[Event-1].cmd)
                                    ELSE cmdDesc
      /\ UNCHANGED <<currentEntry, pc, todo, await, posted, told, shape, raced,
                     active, executed, events>>
  BY DEF xhci_interrupter, kind, xhc
<1>2. Start' = Start /\ Target' = Target
  BY <1>1, DriverStill
<1>3. PICK q : q = dequeueTrb
  OBVIOUS
<1>4. Event = events[q] /\ q \in Window /\ Window' = Window \ {q}
  BY <1>3, FrontHandled
<1>5. /\ cmdDesc \in [Slots -> [complete : BOOLEAN, cmd : 0 .. MaxPosts]]
      /\ await \in Slots /\ await >= 0
  BY RingAssumption DEF RingInv, Types, TypeRing, TypeDriver, Slots, Link
<1>6. cmdDesc[await].complete => cmdDesc'[await].complete
  BY <1>1, <1>5 DEF MarkComplete
<1>7. ASSUME events[q] - 1 = await PROVE cmdDesc'[await].complete
  <2>1. events[q] \in Int
    BY <1>4 DEF Window, RingInv, Types, TypeEvents
  <2>2. Event > 0 /\ Event - 1 = await
    BY <1>4, <1>5, <1>7, <2>1, RingAssumption DEF Slots
  <2>3. QED
    BY <1>1, <1>5, <2>2 DEF IsCompletion, MarkComplete
<1>8. Answered'
  <2> SUFFICES ASSUME pc = "wait", ~raced, Target <= executed, ~cmdDesc'[await].complete
               PROVE  \E i \in Window' : events[i] - 1 = await
    BY <1>1, <1>2 DEF Answered
  <2>1. PICK i \in Window : events[i] - 1 = await
    BY <1>6 DEF Answered
  <2>2. i # q
    BY <1>7, <2>1
  <2>3. QED
    BY <1>4, <2>1, <2>2
<1>9. Running' /\ Alive'
  BY <1>1, <1>2 DEF Running, Alive
<1>10. QED
  BY <1>8, <1>9

\* Dismissing the interrupt raises it again when events are left.
LEMMA AckServed ==
  ASSUME RingInv, Served, xhci_send_ack \/ xhci_update_dequeue_trb
  PROVE  Served'
<1> USE DEF Served
<1>1. UNCHANGED <<cmdDesc, currentEntry, pc, todo, await, posted, told, shape, raced,
                  active, executed, events, enqueue>>
  BY DEF xhci_send_ack, xhci_update_dequeue_trb, driver, kind, xhc
<1>2. Start' = Start /\ Target' = Target
  BY <1>1, DriverStill
<1>3. Front' = Front /\ Alive'
  <2>1. CASE xhci_send_ack
    BY <2>1 DEF xhci_send_ack, Front, Alive, Advance
  <2>2. CASE xhci_update_dequeue_trb
    <3>1. /\ isr = "acked" /\ acks = 1 /\ isr' = "out"
          /\ dequeueTrb' = Advance(dequeueTrb)
          /\ interrupt_pending' = (interrupt_pending \/ enqueue # dequeueTrb')
      BY <2>2 DEF xhci_update_dequeue_trb, RingInv, Pending
    <3>2. QED
      BY <1>1, <3>1 DEF Front, Alive
  <2>3. QED
    BY <2>1, <2>2
<1>4. Window' = Window
  BY <1>1, <1>3 DEF Window, Rank
<1>5. Running' /\ Answered'
  BY <1>1, <1>2, <1>4 DEF Running, Answered
<1>6. QED
  BY <1>3, <1>5

LEMMA NextServed ==
  ASSUME RingInv, RingInv', Served, PortAcks \subseteq {1}, [Next]_vars
  PROVE  Served'
<1>1. CASE Driver
  BY <1>1, BeginServed, WrapServed, WriteServed, ClearServed, RingServed, YieldServed
  DEF Driver
<1>2. CASE Controller
  BY <1>2, ExecuteServed, LinkServed, StopServed DEF Controller
<1>3. CASE \E k \in PortAcks : xhc_port(k)
  BY <1>3, PortServed
<1>4. CASE Handler
  BY <1>4, InterrupterServed, AckServed DEF Handler
<1>5. CASE UNCHANGED vars
  <2>1. UNCHANGED <<cmdDesc, currentEntry, pc, todo, await, posted, told, shape, raced,
                    active, executed, events, enqueue, dequeueTrb, interrupt_pending, isr>>
    BY <1>5 DEF vars, driver, kind, xhc, eventRing
  <2>2. Start' = Start /\ Target' = Target /\ Window' = Window
    BY <2>1, DriverStill, EventsStill
  <2>3. Running' /\ Answered'
    BY <2>1, <2>2 DEF Served, Running, Answered
  <2>4. QED
    BY <2>1, <2>3, AliveFrame DEF Served
<1>6. QED
  BY <1>1, <1>2, <1>3, <1>4, <1>5 DEF Next

\* A wait in an orderly batch is never lost: over every wrap, the answer is
\* there or somebody is about to bring it.
THEOREM NoWaitIsLost ==
  ASSUME PortAcks \subseteq {1}
  PROVE  Spec => []WaitServed
<1>1. RingInv /\ RingInv' /\ Served /\ [Next]_vars => Served'
  BY PortAcks \subseteq {1}, NextServed
<1>2. Spec => []RingInv
  BY PortAcks \subseteq {1}, RingCorrect
<1>3. QED
  BY <1>1, <1>2, ServedInit, ServedImplies, PTL DEF Spec
=============================================================================
