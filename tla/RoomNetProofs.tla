--------------------------- MODULE RoomNetProofs ---------------------------
(***************************************************************************)
(* The roles that are on their way to the players, in queues of any length *)
(* and in either game: what a write, a read and a close do to them.        *)
(***************************************************************************)
EXTENDS RoomNet, WellFoundedInduction, TLAPS

-----------------------------------------------------------------------------
(* The roles in a queue's game_starts.                                       *)

\* Every number can be counted to.
LEMMA Counting ==
  ASSUME NEW S \in SUBSET Nat, 0 \in S, \A n \in S : n + 1 \in S
  PROVE  \A n \in Nat : n \in S
  <1> SUFFICES ASSUME Nat \ S # {} PROVE FALSE
    OBVIOUS
  <1> DEFINE R == OpToRel(<, Nat)
  <1>1. \A x, y \in Nat : x < y => <<x, y>> \in R
    BY DEF OpToRel
  <1>2. IsWellFoundedOn(R, Nat)
    BY Zenon, NatLessThanWellFounded
  <1> HIDE DEF R
  <1>3. PICK i \in Nat \ S : \A j \in Nat \ S : <<j, i>> \notin R
    BY <1>2, WFMin
  <1>4. i - 1 \in Nat /\ i - 1 < i
    BY <1>3
  <1>5. i - 1 \in S
    BY <1>1, <1>3, <1>4, Zenon
  <1>6. (i - 1) + 1 = i
    BY <1>3
  <1> QED
    BY <1>3, <1>5, <1>6, Zenon

\* f[n] has the roles of the first n events of q.
Deals(f, q) ==
  /\ f \in [0..Len(q) -> Seq(Roles)]
  /\ f[0] = << >>
  /\ \A n \in 1..Len(q) :
        f[n] = IF q[n] \in Starts THEN Append(f[n - 1], RoleIn(q[n])) ELSE f[n - 1]

\* The recursive definition in RolesIn.
IsDeal(f, q) ==
  f = [n \in 0..Len(q) |->
         IF n = 0 THEN << >>
         ELSE IF q[n] \in Starts THEN Append(f[n - 1], RoleIn(q[n]))
         ELSE f[n - 1]]

\* It has one solution.
LEMMA RolesOfDeal ==
  ASSUME NEW E, NEW q \in Seq(E), NEW f, Deals(f, q)
  PROVE  RolesIn(q) = f[Len(q)]
  <1> DEFINE h == CHOOSE g : IsDeal(g, q)
  <1>1. RolesIn(q) = h[Len(q)]
    BY Zenon DEF RolesIn, IsDeal
  <1>2. IsDeal(f, q)
    <2>1. ASSUME NEW n \in 0..Len(q)
          PROVE  f[n] = IF n = 0 THEN << >>
                        ELSE IF q[n] \in Starts THEN Append(f[n - 1], RoleIn(q[n]))
                        ELSE f[n - 1]
      <3>1. n = 0 \/ (n # 0 /\ n \in 1..Len(q))
        OBVIOUS
      <3> QED
        BY <3>1, Zenon DEF Deals
    <2>2. f = [n \in 0..Len(q) |-> f[n]]
      BY Zenon DEF Deals
    <2> QED
      BY <2>1, <2>2, Zenon DEF IsDeal
  <1>3. IsDeal(h, q)
    BY <1>2, Zenon
  <1> HIDE DEF h
  <1> DEFINE S == {n \in Nat : n \in 0..Len(q) => h[n] = f[n]}
  <1>4. 0 \in S
    BY <1>3 DEF IsDeal, Deals
  <1>5. ASSUME NEW n \in S PROVE n + 1 \in S
    <2> SUFFICES ASSUME n + 1 \in 0..Len(q) PROVE h[n + 1] = f[n + 1]
      OBVIOUS
    <2>1. n \in Nat /\ n \in 0..Len(q) /\ n + 1 \in 1..Len(q) /\ n + 1 # 0 /\ (n + 1) - 1 = n
      OBVIOUS
    <2>2. h[n] = f[n]
      BY <2>1
    <2>3. h[n + 1] = IF q[n + 1] \in Starts THEN Append(h[(n + 1) - 1], RoleIn(q[n + 1]))
                     ELSE h[(n + 1) - 1]
      BY <1>3, <2>1 DEF IsDeal
    <2>4. f[n + 1] = IF q[n + 1] \in Starts THEN Append(f[(n + 1) - 1], RoleIn(q[n + 1]))
                     ELSE f[(n + 1) - 1]
      BY <2>1, Zenon DEF Deals
    <2> QED
      BY <2>1, <2>2, <2>3, <2>4, Zenon
  <1>6. Len(q) \in S
    <2>1. \A n \in S : n + 1 \in S
      BY <1>5
    <2>2. S \in SUBSET Nat
      OBVIOUS
    <2> HIDE DEF S
    <2> QED
      BY <1>4, <2>1, <2>2, Counting
  <1> QED
    BY <1>1, <1>6

\* The deal of the empty queue.
LEMMA EmptyDeal == Deals([n \in 0..0 |-> << >>], << >>)
  BY DEF Deals

\* The roles of a queue and of one more event.
LEMMA AppendDeal ==
  ASSUME NEW E, NEW q \in Seq(E), NEW f, Deals(f, q), NEW m \in E
  PROVE  \E g : /\ Deals(g, Append(q, m))
                /\ g[Len(q) + 1] = IF m \in Starts THEN Append(f[Len(q)], RoleIn(m)) ELSE f[Len(q)]
  <1> DEFINE l == Len(q)
             last == IF m \in Starts THEN Append(f[l], RoleIn(m)) ELSE f[l]
             g == [n \in 0..(l + 1) |-> IF n = l + 1 THEN last ELSE f[n]]
  <1>1. l \in Nat /\ f \in [0..l -> Seq(Roles)] /\ f[0] = << >>
    BY DEF Deals
  <1>2. /\ Len(Append(q, m)) = l + 1
        /\ \A i \in 1..l : Append(q, m)[i] = q[i]
        /\ Append(q, m)[l + 1] = m
    OBVIOUS
  <1>3. RoleIn(m) \in Roles
    BY DEF RoleIn, Roles
  <1>4. last \in Seq(Roles)
    <2>1. f[l] \in Seq(Roles)
      BY <1>1
    <2> HIDE DEF l
    <2> QED
      BY <1>3, <2>1
  <1>5. \A n \in 1..l :
          f[n] = IF q[n] \in Starts THEN Append(f[n - 1], RoleIn(q[n])) ELSE f[n - 1]
    BY Zenon DEF Deals
  <1>6. last = IF m \in Starts THEN Append(f[l], RoleIn(m)) ELSE f[l]
    OBVIOUS
  <1> HIDE DEF l, last
  <1>7. g \in [0..(l + 1) -> Seq(Roles)]
    BY <1>1, <1>4
  <1>8. g[0] = << >>
    BY <1>1
  <1>9. ASSUME NEW n \in 1..(l + 1)
        PROVE  g[n] = IF Append(q, m)[n] \in Starts THEN Append(g[n - 1], RoleIn(Append(q, m)[n]))
                      ELSE g[n - 1]
    <2>0. n - 1 \in 0..(l + 1) /\ n - 1 # l + 1 /\ n \in 0..(l + 1)
      BY <1>1
    <2>1. g[n - 1] = f[n - 1]
      BY <2>0
    <2>2. CASE n = l + 1
      <3>1. g[n] = last /\ n - 1 = l
        BY <1>1, <2>2
      <3> QED
        BY <1>2, <1>6, <2>1, <2>2, <3>1, Zenon
    <2>3. CASE n # l + 1
      <3>1. g[n] = f[n] /\ n \in 1..l
        BY <1>1, <2>3
      <3> HIDE DEF g
      <3> QED
        BY <1>2, <1>5, <2>1, <3>1, Zenon
    <2> QED
      BY <2>2, <2>3
  <1>10. g[l + 1] = last
    BY <1>1
  <1> HIDE DEF g
  <1>11. Deals(g, Append(q, m))
    BY <1>2, <1>7, <1>8, <1>9, Zenon DEF Deals
  <1> QED
    BY <1>6, <1>10, <1>11, Zenon DEF l

\* The roles of a queue whose first event is read.
LEMMA TailDeal ==
  ASSUME NEW E, NEW q \in Seq(E), q # << >>, NEW f, Deals(f, q)
  PROVE  \E g : /\ Deals(g, Tail(q))
                /\ IF Head(q) \in Starts
                   THEN /\ f[Len(q)] # << >> /\ Head(f[Len(q)]) = RoleIn(Head(q))
                        /\ g[Len(q) - 1] = Tail(f[Len(q)])
                   ELSE g[Len(q) - 1] = f[Len(q)]
  <1> DEFINE l == Len(q)
             first == RoleIn(q[1])
  <1>1. /\ Tail(q) \in Seq(E) /\ l \in Nat \ {0}
        /\ Len(Tail(q)) = l - 1 /\ Head(q) = q[1]
        /\ \A i \in 1..(l - 1) : Tail(q)[i] = q[i + 1]
    OBVIOUS
  <1>2. /\ f \in [0..l -> Seq(Roles)] /\ f[0] = << >>
        /\ \A n \in 1..l :
             f[n] = IF q[n] \in Starts THEN Append(f[n - 1], RoleIn(q[n])) ELSE f[n - 1]
    BY Zenon DEF Deals
  <1>3. \A e : RoleIn(e) \in Roles
    BY DEF RoleIn, Roles
  <1>4. 1 \in 1..l /\ l \in 1..l /\ 1 - 1 = 0
    BY <1>1
  <1> HIDE DEF l
  <1>5. CASE q[1] \in Starts
    <2> DEFINE g == [n \in 0..(l - 1) |-> Tail(f[n + 1])]
               S == {n \in Nat : n + 1 \in 1..l => f[n + 1] # << >> /\ Head(f[n + 1]) = first}
    <2>1. f[1] = Append(<< >>, first)
      BY <1>2, <1>4, <1>5, Zenon
    <2>2. first \in Roles
      BY <1>3
    <2> HIDE DEF first
    <2>3. f[1] # << >> /\ Head(f[1]) = first /\ Tail(f[1]) = << >>
      BY <2>1, <2>2
    <2>4. \A n \in 1..l : f[n] # << >> /\ Head(f[n]) = first
      <3>1. 0 \in S
        BY <2>3
      <3>2. ASSUME NEW n \in S PROVE n + 1 \in S
        <4> SUFFICES ASSUME (n + 1) + 1 \in 1..l
                     PROVE  f[(n + 1) + 1] # << >> /\ Head(f[(n + 1) + 1]) = first
          OBVIOUS
        <4> DEFINE k == n + 1
        <4>1. n \in Nat /\ k \in 1..l /\ (k + 1) - 1 = k /\ k \in 0..l
          BY <1>1
        <4>2. f[k] # << >> /\ Head(f[k]) = first
          BY <4>1
        <4> HIDE DEF k
        <4>3. f[k + 1] = IF q[k + 1] \in Starts THEN Append(f[k], RoleIn(q[k + 1])) ELSE f[k]
          BY <1>2, <4>1, Zenon DEF k
        <4>4. f[k] \in Seq(Roles) /\ RoleIn(q[k + 1]) \in Roles
          BY <1>2, <1>3, <4>1
        <4>5. f[k + 1] # << >> /\ Head(f[k + 1]) = first
          BY <4>2, <4>3, <4>4
        <4> QED
          BY <4>5 DEF k
      <3>3. S \in SUBSET Nat /\ \A n \in S : n + 1 \in S
        BY <3>2
      <3>4. \A n \in Nat : n \in S
        <4> HIDE DEF S
        <4> QED
          BY <3>1, <3>3, Counting
      <3>5. ASSUME NEW n \in 1..l PROVE f[n] # << >> /\ Head(f[n]) = first
        <4>1. n - 1 \in Nat /\ (n - 1) + 1 = n
          BY <1>1
        <4>2. n - 1 \in S
          BY <3>4, <4>1
        <4> QED
          BY <4>1, <4>2
      <3> QED
        BY <3>5
    <2>5. \A n \in 0..(l - 1) : n + 1 \in 1..l /\ n + 1 \in 0..l
      BY <1>1
    <2>6. g \in [0..(l - 1) -> Seq(Roles)]
      <3>1. \A n \in 0..(l - 1) : Tail(f[n + 1]) \in Seq(Roles)
        BY <1>2, <2>4, <2>5
      <3> QED
        BY <3>1
    <2>7. g[0] = << >>
      BY <1>1, <2>3
    <2>8. ASSUME NEW n \in 1..(l - 1)
          PROVE  g[n] = IF Tail(q)[n] \in Starts THEN Append(g[n - 1], RoleIn(Tail(q)[n]))
                        ELSE g[n - 1]
      <3>1. /\ n \in 0..(l - 1) /\ n - 1 \in 0..(l - 1) /\ (n - 1) + 1 = n /\ (n + 1) - 1 = n
            /\ n + 1 \in 1..l /\ n \in 1..l /\ n \in 0..l
        BY <1>1
      <3>2. g[n] = Tail(f[n + 1]) /\ g[n - 1] = Tail(f[n])
        BY <3>1
      <3>3. f[n + 1] = IF q[n + 1] \in Starts THEN Append(f[n], RoleIn(q[n + 1])) ELSE f[n]
        BY <1>2, <3>1, Zenon
      <3>4. f[n] \in Seq(Roles) /\ f[n] # << >> /\ RoleIn(q[n + 1]) \in Roles
        BY <1>2, <1>3, <2>4, <3>1
      <3>5. Tail(Append(f[n], RoleIn(q[n + 1]))) = Append(Tail(f[n]), RoleIn(q[n + 1]))
        BY <3>4
      <3>6. Tail(q)[n] = q[n + 1]
        BY <1>1
      <3> HIDE DEF g
      <3> QED
        BY <3>2, <3>3, <3>5, <3>6, Zenon
    <2>9. g[l - 1] = Tail(f[l])
      BY <1>1
    <2> HIDE DEF g
    <2>10. Deals(g, Tail(q))
      BY <1>1, <2>6, <2>7, <2>8, Zenon DEF Deals
    <2>11. f[l] # << >> /\ Head(f[l]) = RoleIn(Head(q))
      BY <1>1, <1>4, <2>4, Zenon DEF first
    <2> QED
      BY <1>1, <1>5, <2>9, <2>10, <2>11, Zenon DEF l
  <1>6. CASE q[1] \notin Starts
    <2> DEFINE g == [n \in 0..(l - 1) |-> f[n + 1]]
    <2>1. f[1] = << >>
      BY <1>2, <1>4, <1>6, Zenon
    <2>2. g \in [0..(l - 1) -> Seq(Roles)] /\ g[0] = << >> /\ g[l - 1] = f[l]
      BY <1>1, <1>2, <2>1
    <2>3. ASSUME NEW n \in 1..(l - 1)
          PROVE  g[n] = IF Tail(q)[n] \in Starts THEN Append(g[n - 1], RoleIn(Tail(q)[n]))
                        ELSE g[n - 1]
      <3>1. /\ n \in 0..(l - 1) /\ n - 1 \in 0..(l - 1) /\ (n - 1) + 1 = n /\ (n + 1) - 1 = n
            /\ n + 1 \in 1..l
        BY <1>1
      <3>2. g[n] = f[n + 1] /\ g[n - 1] = f[n]
        BY <3>1
      <3>3. f[n + 1] = IF q[n + 1] \in Starts THEN Append(f[n], RoleIn(q[n + 1])) ELSE f[n]
        BY <1>2, <3>1, Zenon
      <3>4. Tail(q)[n] = q[n + 1]
        BY <1>1
      <3> HIDE DEF g
      <3> QED
        BY <3>2, <3>3, <3>4, Zenon
    <2> HIDE DEF g
    <2>4. Deals(g, Tail(q))
      BY <1>1, <2>2, <2>3, Zenon DEF Deals
    <2> QED
      BY <1>1, <1>6, <2>2, <2>4, Zenon DEF l
  <1> QED
    BY <1>5, <1>6

\* Every queue has its roles: each is another one and one more event.
LEMMA EveryDeal ==
  ASSUME NEW E, NEW q \in Seq(E)
  PROVE  \E f : Deals(f, q)
  <1> DEFINE S == {n \in Nat : \A r \in Seq(E) : Len(r) = n => \E f : Deals(f, r)}
  <1>1. 0 \in S
    <2>1. \A r \in Seq(E) : Len(r) = 0 => r = << >>
      OBVIOUS
    <2> QED
      BY <2>1, EmptyDeal
  <1>2. ASSUME NEW n \in S PROVE n + 1 \in S
    <2>0. n \in Nat /\ n + 1 \in Nat
      OBVIOUS
    <2>1. ASSUME NEW r \in Seq(E), Len(r) = n + 1 PROVE \E f : Deals(f, r)
      <3> DEFINE b == [i \in 1..n |-> r[i]]
      <3>1. /\ b \in Seq(E) /\ Len(b) = n /\ r[n + 1] \in E
            /\ r = Append(b, r[n + 1])
        BY <2>0, <2>1
      <3> HIDE DEF b
      <3>2. PICK f : Deals(f, b)
        BY <1>2, <3>1
      <3>3. \E g : Deals(g, Append(b, r[n + 1]))
        BY <3>1, <3>2, AppendDeal, Zenon
      <3> QED
        BY <3>1, <3>3, Zenon
    <2> QED
      BY <2>0, <2>1
  <1>3. S \in SUBSET Nat /\ \A n \in S : n + 1 \in S
    BY <1>2
  <1>4. \A n \in Nat : n \in S
    <2> HIDE DEF S
    <2> QED
      BY <1>1, <1>3, Counting
  <1>5. Len(q) \in S
    BY <1>4
  <1> QED
    BY <1>5

\* The roles in a queue: a list of roles, empty for an empty queue.
LEMMA RolesFacts ==
  ASSUME NEW E
  PROVE  /\ RolesIn(<< >>) = << >>
         /\ \A q \in Seq(E) : RolesIn(q) \in Seq(Roles)
  <1>1. RolesIn(<< >>) = << >>
    <2>1. << >> \in Seq(E) /\ Len(<< >>) = 0 /\ [n \in 0..0 |-> << >>][0] = << >>
      OBVIOUS
    <2> QED
      BY <2>1, EmptyDeal, RolesOfDeal
  <1>2. ASSUME NEW q \in Seq(E) PROVE RolesIn(q) \in Seq(Roles)
    <2>1. PICK f : Deals(f, q)
      BY EveryDeal
    <2>2. f \in [0..Len(q) -> Seq(Roles)] /\ Len(q) \in 0..Len(q)
      BY <2>1 DEF Deals
    <2> QED
      BY <2>1, <2>2, RolesOfDeal
  <1> QED
    BY <1>1, <1>2

\* Sending adds a role at the end.
LEMMA RolesAppend ==
  ASSUME NEW E, NEW q \in Seq(E), NEW m \in E
  PROVE  RolesIn(Append(q, m)) =
           IF m \in Starts THEN Append(RolesIn(q), RoleIn(m)) ELSE RolesIn(q)
  <1>1. PICK f : Deals(f, q)
    BY EveryDeal
  <1>2. PICK g : /\ Deals(g, Append(q, m))
                 /\ g[Len(q) + 1] = IF m \in Starts THEN Append(f[Len(q)], RoleIn(m)) ELSE f[Len(q)]
    BY <1>1, AppendDeal
  <1>3. Append(q, m) \in Seq(E) /\ Len(Append(q, m)) = Len(q) + 1
    OBVIOUS
  <1>4. RolesIn(q) = f[Len(q)] /\ RolesIn(Append(q, m)) = g[Len(q) + 1]
    BY <1>1, <1>2, <1>3, RolesOfDeal
  <1> QED
    BY <1>2, <1>4, Zenon

\* Reading takes the first role, if a game_start is read, and no other.
LEMMA RolesTail ==
  ASSUME NEW E, NEW q \in Seq(E), q # << >>
  PROVE  IF Head(q) \in Starts
         THEN /\ RolesIn(q) # << >> /\ Head(RolesIn(q)) = RoleIn(Head(q))
              /\ RolesIn(Tail(q)) = Tail(RolesIn(q))
         ELSE RolesIn(Tail(q)) = RolesIn(q)
  <1>1. PICK f : Deals(f, q)
    BY EveryDeal
  <1>2. PICK g : /\ Deals(g, Tail(q))
                 /\ IF Head(q) \in Starts
                    THEN /\ f[Len(q)] # << >> /\ Head(f[Len(q)]) = RoleIn(Head(q))
                         /\ g[Len(q) - 1] = Tail(f[Len(q)])
                    ELSE g[Len(q) - 1] = f[Len(q)]
    BY <1>1, TailDeal
  <1>3. Tail(q) \in Seq(E) /\ Len(Tail(q)) = Len(q) - 1
    OBVIOUS
  <1>4. RolesIn(q) = f[Len(q)] /\ RolesIn(Tail(q)) = g[Len(q) - 1]
    BY <1>1, <1>2, <1>3, RolesOfDeal
  <1> QED
    BY <1>2, <1>4, Zenon

-----------------------------------------------------------------------------
(* What the processes do to the roles on their way.                          *)

Queues(E) == outbox \in [Players -> Seq(E)]

\* game_start events and their roles.
LEMMA StartFacts ==
  /\ \A role \in Roles : Start(role) \in Starts /\ RoleIn(Start(role)) = role
  /\ \A p, q : /\ StartOf(p, q) \in Starts
               /\ RoleIn(StartOf(p, q)) = IF p = q THEN "PERFORMER" ELSE "COMMUNICATOR"
  /\ \A m \in Starts : m \notin {"tilt", "update"} /\ RoleIn(m) \in Roles
  BY DEF Start, Starts, Roles, RoleIn, StartOf

\* No game_start is ever left out of a queue.
LEMMA QueueRoles ==
  ASSUME NEW E, NEW q \in Seq(E), NEW m \in E
  PROVE  RolesIn(Queue(q, m)) = IF m \in Starts THEN Append(RolesIn(q), RoleIn(m)) ELSE RolesIn(q)
  <1>1. CASE m \in Starts
    <2>1. Queue(q, m) = Append(q, m)
      BY <1>1, StartFacts, Zenon DEF Queue
    <2> QED
      BY <1>1, <2>1, RolesAppend
  <1>2. CASE m \notin Starts
    <2>1. Queue(q, m) \in {q, Append(q, m)}
      BY Zenon DEF Queue
    <2> QED
      BY <1>2, <2>1, RolesAppend
  <1> QED
    BY <1>1, <1>2

\* Other messages deal no role, whether the room is killed at a write or not.
LEMMA OtherSent ==
  ASSUME NEW E, Queues(E), NEW first, NEW sent, Killed(first, sent) \/ Delivered(sent),
         DOMAIN sent \subseteq Players, \A p \in DOMAIN sent : sent[p] \in E \ Starts
  PROVE  \A p \in Players : RolesDue(p)' = RolesDue(p)
  <1> SUFFICES ASSUME NEW p \in Players PROVE RolesIn(outbox'[p]) = RolesIn(outbox[p])
    BY Zenon DEF RolesDue
  <1>1. outbox[p] \in Seq(E) /\ DOMAIN outbox = Players
    BY DEF Queues
  <1>2. outbox'[p] = outbox[p] \/ (p \in DOMAIN sent /\ outbox'[p] = Queue(outbox[p], sent[p]))
    <2>1. CASE Killed(first, sent)
      <3>1. \/ outbox' = outbox
            \/ first \in DOMAIN sent /\ outbox' = [outbox EXCEPT ![first] = Queue(@, sent[first])]
        BY <2>1, Zenon DEF Killed
      <3> QED
        BY <1>1, <3>1
    <2>2. CASE Delivered(sent)
      BY <2>2 DEF Delivered
    <2> QED
      BY <2>1, <2>2
  <1>3. p \in DOMAIN sent => RolesIn(Queue(outbox[p], sent[p])) = RolesIn(outbox[p])
    <2> SUFFICES ASSUME p \in DOMAIN sent
                 PROVE  RolesIn(Queue(outbox[p], sent[p])) = RolesIn(outbox[p])
      OBVIOUS
    <2>1. sent[p] \in E /\ sent[p] \notin Starts
      OBVIOUS
    <2> QED
      BY <1>1, <2>1, QueueRoles, Zenon
  <1> QED
    BY <1>2, <1>3, Zenon

\* A round deals a role to each player that is there, the first one to the host.
LEMMA RolesSent ==
  ASSUME NEW E, Queues(E), Starts \subseteq E, NEW q \in Players
  PROVE  LET sent == [p \in Players |-> StartOf(p, q)]
         IN  /\ Delivered(sent) =>
                  \A p \in Players :
                     RolesDue(p)' = IF Gone(p) THEN RolesDue(p)
                                    ELSE Append(RolesDue(p), RoleIn(StartOf(p, q)))
             /\ Killed("host", sent) =>
                  /\ reset # {}
                  /\ \/ \A p \in Players : RolesDue(p)' = RolesDue(p)
                     \/ /\ "host" \notin reset /\ ~Gone("host") /\ "guest" \in reset
                        /\ RolesDue("guest")' = RolesDue("guest")
                        /\ \E role \in Roles : RolesDue("host")' = Append(RolesDue("host"), role)
  <1> DEFINE sent == [p \in Players |-> StartOf(p, q)]
  <1>0. "host" \in Players /\ "guest" \in Players /\ "host" # "guest"
    BY DEF Players
  <1>1. /\ \A p \in Players : outbox[p] \in Seq(E)
        /\ DOMAIN outbox = Players /\ DOMAIN sent = Players
    BY DEF Queues
  <1>2. \A p \in Players :
           sent[p] = StartOf(p, q) /\ StartOf(p, q) \in E /\ StartOf(p, q) \in Starts
    BY StartFacts
  <1> HIDE DEF sent
  <1>3. \A p \in Players :
          RolesIn(Queue(outbox[p], sent[p])) = Append(RolesIn(outbox[p]), RoleIn(StartOf(p, q)))
    BY <1>1, <1>2, QueueRoles
  <1>4. ASSUME Delivered(sent), NEW p \in Players
        PROVE  RolesIn(outbox'[p]) = IF Gone(p) THEN RolesIn(outbox[p])
                                     ELSE Append(RolesIn(outbox[p]), RoleIn(StartOf(p, q)))
    <2>1. outbox'[p] = IF Gone(p) THEN outbox[p] ELSE Queue(outbox[p], sent[p])
      BY <1>1, <1>4 DEF Delivered
    <2> QED
      BY <1>3, <2>1, Zenon
  <1>5. ASSUME Killed("host", sent)
        PROVE  /\ reset # {}
               /\ \/ \A p \in Players : RolesIn(outbox'[p]) = RolesIn(outbox[p])
                  \/ /\ "host" \notin reset /\ ~Gone("host") /\ "guest" \in reset
                     /\ RolesIn(outbox'["guest"]) = RolesIn(outbox["guest"])
                     /\ \E role \in Roles :
                           RolesIn(outbox'["host"]) = Append(RolesIn(outbox["host"]), role)
    <2>1. reset \cap Players # {}
      BY <1>1, <1>5, Zenon DEF Killed
    <2>2. CASE "host" \in DOMAIN sent \ reset /\ ~Gone("host")
      <3>1. outbox' = [outbox EXCEPT !["host"] = Queue(@, sent["host"])]
        BY <1>5, <2>2, Zenon DEF Killed
      <3>2. /\ outbox'["guest"] = outbox["guest"]
            /\ outbox'["host"] = Queue(outbox["host"], sent["host"])
        BY <1>0, <1>1, <3>1
      <3>3. "guest" \in reset
        BY <2>1, <2>2 DEF Players
      <3>4. RoleIn(StartOf("host", q)) \in Roles
        BY <1>0, <1>2, StartFacts, Zenon
      <3> QED
        BY <1>0, <1>3, <2>2, <3>2, <3>3, <3>4, Zenon
    <2>3. CASE ~("host" \in DOMAIN sent \ reset /\ ~Gone("host"))
      BY <1>5, <2>1, <2>3, Zenon DEF Killed
    <2> QED
      BY <2>2, <2>3
  <1> QED
    BY <1>4, <1>5, Zenon DEF RolesDue, sent

\* A player reads an event.
LEMMA RoleRead ==
  ASSUME NEW E, Queues(E), NEW p \in Players, outbox[p] # << >>,
         outbox' = [outbox EXCEPT ![p] = Tail(@)]
  PROVE  /\ \A o \in Players \ {p} : RolesDue(o)' = RolesDue(o)
         /\ IF Head(outbox[p]) \in Starts
            THEN /\ RolesDue(p) # << >> /\ Head(RolesDue(p)) = RoleIn(Head(outbox[p]))
                 /\ RolesDue(p)' = Tail(RolesDue(p))
            ELSE RolesDue(p)' = RolesDue(p)
  <1>1. /\ outbox[p] \in Seq(E) /\ outbox'[p] = Tail(outbox[p])
        /\ \A o \in Players \ {p} : outbox'[o] = outbox[o]
    BY DEF Queues
  <1>2. IF Head(outbox[p]) \in Starts
        THEN /\ RolesIn(outbox[p]) # << >> /\ Head(RolesIn(outbox[p])) = RoleIn(Head(outbox[p]))
             /\ RolesIn(Tail(outbox[p])) = Tail(RolesIn(outbox[p]))
        ELSE RolesIn(Tail(outbox[p])) = RolesIn(outbox[p])
    BY <1>1, RolesTail
  <1> QED
    BY <1>1, <1>2, Zenon DEF RolesDue

\* A player goes, and takes up no role any more.
LEMMA RolesLost ==
  ASSUME NEW E, Queues(E), NEW p \in Players, NEW unread, Close(p, unread)
  PROVE  /\ RolesDue(p)' = << >>
         /\ \A o \in Players \ {p} : RolesDue(o)' = RolesDue(o)
  <1>1. outbox' = [outbox EXCEPT ![p] = << >>]
    BY Zenon DEF Close
  <1>2. outbox'[p] = << >> /\ \A o \in Players \ {p} : outbox'[o] = outbox[o]
    BY <1>1 DEF Queues
  <1> QED
    BY <1>2, RolesFacts, Zenon DEF RolesDue

\* Only clients that are gone answer with RST, and nobody comes back.
ResetInv == \A p \in reset : Gone(p)

\* Only a player who has gone answers with RST: a write adds none of the others.
LEMMA ResetSent ==
  ASSUME ResetInv, NEW first, NEW sent, Killed(first, sent) \/ Delivered(sent), UNCHANGED client
  PROVE  ResetInv'
  BY Zenon DEF ResetInv, Killed, Delivered, Gone

\* Nor does a close, whose player has gone.
LEMMA ResetClosed ==
  ASSUME ResetInv, NEW p \in Players, DOMAIN client = Players, NEW unread, Close(p, unread)
  PROVE  ResetInv'
  BY DEF ResetInv, Close, Moves, Gone

=============================================================================
