--------------------------- MODULE LoginGuardProofs ---------------------------
(***************************************************************************)
(* The lockout bounds the guesses, for any number of concurrent attempts,   *)
(* source addresses, thresholds and lifetimes.                              *)
(*                                                                         *)
(* GuessesBounded speaks of what has been sent to the backend.  The         *)
(* invariant adds, for each key, what the counter, the attempts that have   *)
(* yet to count their failure (Due) and the attempts that are past the      *)
(* check of the lock (Past) leave room for.                                 *)
(*                                                                         *)
(* Then two facts about single keys: a lock that stands is renewed only by  *)
(* attempts that had passed its check, and without a failed call every      *)
(* counter expires.                                                         *)
(***************************************************************************)
EXTENDS LoginGuard, FiniteSetTheorems, TLAPS

AttemptRecord == [pc : {"idle", "check", "auth", "incr", "expire", "lock", "reset"},
                  src : Key, leg : {"ip", "user"}, count : Nat]

SideKey(x) == IF x.leg = "ip" THEN x.src ELSE User

\* The attempts x that have guessed and not yet been counted at k, or counted as the
\* failure that locks and not yet locked.
IsDue(x, k) ==
    \/ x.pc \in {"incr", "lock"} /\ SideKey(x) = k
    \/ k = User /\ x.leg = "ip" /\ x.pc \in {"incr", "expire", "lock"}
Due(k) == {a \in Attempt : IsDue(att[a], k)}

\* The attempts x that passed the check of k and have yet to guess.
IsPast(x, k) ==
    /\ k \in {User, x.src}
    /\ x.pc = "auth" \/ (x.pc = "check" /\ x.leg = "user" /\ k # User)
Past(k) == {a \in Attempt : IsPast(att[a], k)}

Known(x) ==
    /\ x.pc # "idle" => x.src \in Source
    /\ x.pc = "auth" => x.leg = "ip"

\* The failures the counter c still tells apart below the threshold m.
Counted(c, m) == IF c.n < m THEN c.n ELSE m - 1

\* What a key with counter c, lock l and threshold m leaves room for, with the guesses
\* g, d attempts that are due, p past the check and f faults.  Guesses older than the
\* lock are judged by the lock, guesses of the counter's own window by its count.
Room(c, l, g, m, d, p, f) ==
    /\ c.n = 0 => c.ttl = 0
    /\ \A i \in Age : i < LockFor - l => g[i] <= m - 2 + Counted(c, m) + d + f
    /\ c.ttl > 0 => \A i \in Age : i < LockFor - c.ttl /\ i < LockFor - l
                                     => g[i] <= Counted(c, m) - 1 + d + f
    /\ l > 0 => \A i \in Age : g[i] + p <= 2 * m - 3 + Cardinality(Attempt) + f

KeyRoom(k) ==
    Room(fail[k], lock[k], guesses[k], LockAfter(k),
         Cardinality(Due(k)), Cardinality(Past(k)), faults)

GuardTypes ==
    /\ fail \in [Key -> [n : Nat, ttl : 0 .. LockFor]]
    /\ lock \in [Key -> 0 .. LockFor]
    /\ att \in [Attempt -> AttemptRecord]
    /\ faults \in 0 .. MaxFaults
    /\ guesses \in [Key -> [Age -> Nat]]

GuardInv ==
    /\ GuardTypes
    /\ \A a \in Attempt : Known(att[a])
    /\ \A k \in Key : KeyRoom(k)

-----------------------------------------------------------------------------
(***************************************************************************)
(* Counting attempts.                                                       *)
(***************************************************************************)
LEMMA Balance ==
    ASSUME NEW x \in Nat, NEW y \in Nat, NEW f \in Nat, NEW g \in Nat,
           g = f \/ g = f + 1, x <= y + 1, x <= y \/ g = f + 1
    PROVE  x + f <= y + g
OBVIOUS

LEMMA Sizes ==
    ASSUME NEW S \in SUBSET Attempt
    PROVE  IsFiniteSet(S) /\ Cardinality(S) \in Nat /\ Cardinality(S) <= Cardinality(Attempt)
BY GuardAssumption, FS_Subset, FS_CardinalityType

LEMMA OneMoves ==
    ASSUME NEW S \in SUBSET Attempt, NEW T \in SUBSET Attempt, NEW a \in Attempt,
           S \ {a} = T \ {a}
    PROVE  IF a \in S <=> a \in T THEN Cardinality(T) = Cardinality(S)
           ELSE IF a \in S THEN Cardinality(T) + 1 = Cardinality(S)
           ELSE Cardinality(T) = Cardinality(S) + 1
<1> DEFINE R == S \ {a}
<1>1. IsFiniteSet(S) /\ IsFiniteSet(T) /\ Cardinality(S) \in Nat /\ Cardinality(T) \in Nat
  BY Sizes
<1>2. Cardinality(R) = IF a \in S THEN Cardinality(S) - 1 ELSE Cardinality(S)
  BY <1>1, FS_RemoveElement
<1>3. Cardinality(R) = IF a \in T THEN Cardinality(T) - 1 ELSE Cardinality(T)
  BY <1>1, FS_RemoveElement
<1> QED BY <1>1, <1>2, <1>3

\* Nobody is due and past the check at once.
LEMMA DueOrPast ==
    ASSUME NEW k \in Key
    PROVE  /\ Cardinality(Due(k)) \in Nat /\ Cardinality(Past(k)) \in Nat
           /\ Cardinality(Due(k)) + Cardinality(Past(k)) <= Cardinality(Attempt)
           /\ Cardinality(Attempt) \in Nat
<1>1. Due(k) \in SUBSET Attempt /\ Past(k) \in SUBSET Attempt
  BY DEF Due, Past
<1>2. Due(k) \cap Past(k) = {}
  BY DEF Due, Past, IsDue, IsPast
<1>3. /\ IsFiniteSet(Due(k)) /\ IsFiniteSet(Past(k))
      /\ Cardinality(Due(k)) \in Nat /\ Cardinality(Past(k)) \in Nat
  BY <1>1, Sizes
<1>4. Cardinality(Due(k) \cup Past(k)) = Cardinality(Due(k)) + Cardinality(Past(k))
  <2>1. /\ Cardinality(Due(k) \cup Past(k))
            = Cardinality(Due(k)) + Cardinality(Past(k)) - Cardinality(Due(k) \cap Past(k))
    BY <1>3, FS_Union
  <2>2. Cardinality(Due(k) \cap Past(k)) = 0
    BY <1>2, FS_EmptySet
  <2> QED BY <1>3, <2>1, <2>2
<1>5. Cardinality(Due(k) \cup Past(k)) <= Cardinality(Attempt)
  BY <1>1, Sizes
<1>6. Cardinality(Attempt) \in Nat
  BY GuardAssumption, FS_CardinalityType
<1> QED BY <1>3, <1>4, <1>5, <1>6

\* A step of attempt a that leaves x behind.
LEMMA MoveCounts ==
    ASSUME GuardTypes, NEW a \in Attempt, NEW x, att' = [att EXCEPT ![a] = x], NEW k \in Key
    PROVE  /\ Cardinality(Due(k)') \in Nat /\ Cardinality(Past(k)') \in Nat
           /\ Cardinality(Due(k)') + 1 >= Cardinality(Due(k))
           /\ (IsDue(att[a], k) => IsDue(x, k)) => Cardinality(Due(k)') >= Cardinality(Due(k))
           /\ ~IsDue(att[a], k) /\ IsDue(x, k) => Cardinality(Due(k)') = Cardinality(Due(k)) + 1
           /\ (IsPast(x, k) => IsPast(att[a], k)) => Cardinality(Past(k)') <= Cardinality(Past(k))
           /\ (IsPast(x, k) <=> IsPast(att[a], k)) => Cardinality(Past(k)') = Cardinality(Past(k))
           /\ IsPast(att[a], k) /\ ~IsPast(x, k) => Cardinality(Past(k)) = Cardinality(Past(k)') + 1
<1>1. att'[a] = x /\ \A b \in Attempt : b # a => att'[b] = att[b]
  BY DEF GuardTypes
<1>2. /\ Due(k) \in SUBSET Attempt /\ Due(k)' \in SUBSET Attempt
      /\ Past(k) \in SUBSET Attempt /\ Past(k)' \in SUBSET Attempt
  BY DEF Due, Past
<1>3. Due(k) \ {a} = Due(k)' \ {a} /\ Past(k) \ {a} = Past(k)' \ {a}
  BY <1>1 DEF Due, Past
<1>4. /\ a \in Due(k) <=> IsDue(att[a], k)
      /\ a \in Due(k)' <=> IsDue(x, k)
      /\ a \in Past(k) <=> IsPast(att[a], k)
      /\ a \in Past(k)' <=> IsPast(x, k)
  BY <1>1 DEF Due, Past
<1>5. /\ IF a \in Due(k) <=> a \in Due(k)' THEN Cardinality(Due(k)') = Cardinality(Due(k))
         ELSE IF a \in Due(k) THEN Cardinality(Due(k)') + 1 = Cardinality(Due(k))
         ELSE Cardinality(Due(k)') = Cardinality(Due(k)) + 1
      /\ IF a \in Past(k) <=> a \in Past(k)' THEN Cardinality(Past(k)') = Cardinality(Past(k))
         ELSE IF a \in Past(k) THEN Cardinality(Past(k)') + 1 = Cardinality(Past(k))
         ELSE Cardinality(Past(k)') = Cardinality(Past(k)) + 1
  BY <1>2, <1>3, OneMoves
<1>6. /\ Cardinality(Due(k)') \in Nat /\ Cardinality(Past(k)') \in Nat
      /\ Cardinality(Due(k)) \in Nat /\ Cardinality(Past(k)) \in Nat
  BY <1>2, Sizes
<1> QED BY <1>4, <1>5, <1>6

-----------------------------------------------------------------------------
(***************************************************************************)
(* What each kind of step does to the room of a key.                        *)
(***************************************************************************)
Counter == [n : Nat, ttl : 0 .. LockFor]
Guesses == [Age -> Nat]

LEMMA Thresholds ==
    /\ LockFor \in Nat \ {0} /\ MaxFaults \in Nat /\ Cardinality(Attempt) \in Nat
    /\ \A k \in Key : LockAfter(k) \in Nat \ {0, 1}
    /\ User \notin Source
BY GuardAssumption, FS_CardinalityType DEF LockAfter

LEMMA CountedRange ==
    ASSUME NEW c \in Counter, NEW m \in Nat \ {0, 1}
    PROVE  Counted(c, m) \in 0 .. m - 1 /\ (c.n = 0 <=> Counted(c, m) = 0)
BY DEF Counted, Counter

\* Attempts come and go: an attempt that was due leaves a fault behind, and the check
\* lets nobody past a lock.
LEMMA RoomWidens ==
    ASSUME NEW c \in Counter, NEW l \in 0 .. LockFor, NEW g \in Guesses,
           NEW m \in Nat \ {0, 1}, NEW d \in Nat, NEW p \in Nat, NEW f \in Nat,
           NEW d2 \in Nat, NEW p2 \in Nat, NEW f2 \in Nat,
           Room(c, l, g, m, d, p, f),
           d + f <= d2 + f2, l > 0 => p2 + f <= p + f2
    PROVE  Room(c, l, g, m, d2, p2, f2)
<1> DEFINE n == Counted(c, m)
           N == Cardinality(Attempt)
<1>1. n \in Int /\ N \in Int /\ \A i \in Age : g[i] \in Int
  BY CountedRange, Thresholds DEF Guesses
<1> HIDE DEF n, N
<1>2. \A i \in Age : i < LockFor - l => g[i] <= m - 2 + n + d2 + f2
  BY <1>1 DEF Room, n
<1>3. c.ttl > 0 => \A i \in Age : i < LockFor - c.ttl /\ i < LockFor - l
                                   => g[i] <= n - 1 + d2 + f2
  BY <1>1 DEF Room, n
<1>4. l > 0 => \A i \in Age : g[i] + p2 <= 2 * m - 3 + N + f2
  BY <1>1 DEF Room, N
<1> QED BY <1>2, <1>3, <1>4 DEF Room, n, N

\* A guess: who was past the check is now due.
LEMMA RoomGuessed ==
    ASSUME NEW c \in Counter, NEW l \in 0 .. LockFor, NEW g \in Guesses,
           NEW m \in Nat \ {0, 1}, NEW d \in Nat, NEW p \in Nat, NEW f \in Nat,
           NEW g2 \in Guesses, NEW d2 \in Nat, NEW p2 \in Nat,
           Room(c, l, g, m, d, p, f),
           \A i \in Age : g2[i] = g[i] + 1, d2 = d + 1, p = p2 + 1
    PROVE  Room(c, l, g2, m, d2, p2, f)
<1> DEFINE n == Counted(c, m)
           N == Cardinality(Attempt)
<1>1. n \in Int /\ N \in Int /\ \A i \in Age : g[i] \in Int
  BY CountedRange, Thresholds DEF Guesses
<1> HIDE DEF n, N
<1>2. \A i \in Age : i < LockFor - l => g2[i] <= m - 2 + n + d2 + f
  BY <1>1 DEF Room, n
<1>3. c.ttl > 0 => \A i \in Age : i < LockFor - c.ttl /\ i < LockFor - l
                                   => g2[i] <= n - 1 + d2 + f
  BY <1>1 DEF Room, n
<1>4. l > 0 => \A i \in Age : g2[i] + p2 <= 2 * m - 3 + N + f
  BY <1>1 DEF Room, N
<1> QED BY <1>2, <1>3, <1>4 DEF Room, n, N

\* INCR counts the failure, unless the counter is at the threshold or gets there.
LEMMA RoomCounted ==
    ASSUME NEW c \in Counter, NEW l \in 0 .. LockFor, NEW g \in Guesses,
           NEW m \in Nat \ {0, 1}, NEW d \in Nat, NEW p \in Nat, NEW f \in Nat,
           NEW c2 \in Counter, NEW d2 \in Nat,
           Room(c, l, g, m, d, p, f),
           c2.ttl = c.ttl, c2.n = IF c.n < m THEN c.n + 1 ELSE c.n,
           d <= d2 + 1, c.n >= m - 1 => d <= d2
    PROVE  Room(c2, l, g, m, d2, p, f)
<1> DEFINE n == Counted(c, m)
           n2 == Counted(c2, m)
           N == Cardinality(Attempt)
<1>1. /\ n \in Int /\ n2 \in Int /\ N \in Int /\ \A i \in Age : g[i] \in Int
      /\ c.ttl \in Int
  BY CountedRange, Thresholds DEF Guesses, Counter
<1>2. n + d <= n2 + d2
  BY DEF Counted, Counter
<1>3. c2.n # 0 /\ (c.n = 0 => c.ttl = 0)
  BY DEF Counter, Room
<1> HIDE DEF n, n2, N
<1>4. \A i \in Age : i < LockFor - l => g[i] <= m - 2 + n2 + d2 + f
  BY <1>1, <1>2 DEF Room, n
<1>5. c2.ttl > 0 => \A i \in Age : i < LockFor - c2.ttl /\ i < LockFor - l
                                    => g[i] <= n2 - 1 + d2 + f
  BY <1>1, <1>2 DEF Room, n
<1>6. l > 0 => \A i \in Age : g[i] + p <= 2 * m - 3 + N + f
  BY <1>1 DEF Room, N
<1> QED BY <1>3, <1>4, <1>5, <1>6 DEF Room, n2, N

\* EXPIRE gives the counter its whole lifetime.
LEMMA RoomExpires ==
    ASSUME NEW c \in Counter, NEW l \in 0 .. LockFor, NEW g \in Guesses,
           NEW m \in Nat \ {0, 1}, NEW d \in Nat, NEW p \in Nat, NEW f \in Nat,
           NEW c2 \in Counter, Room(c, l, g, m, d, p, f),
           c2.n = c.n, c2.ttl = IF c.n = 0 THEN 0 ELSE LockFor
    PROVE  Room(c2, l, g, m, d, p, f)
<1>1. Counted(c2, m) = Counted(c, m)
  BY DEF Counted
<1>2. c2.ttl > 0 => \A i \in Age : ~(i < LockFor - c2.ttl)
  BY Thresholds DEF Age
<1> QED BY <1>1, <1>2 DEF Room

\* The lock is set: whoever is due or past the check is an attempt.
LEMMA RoomLocked ==
    ASSUME NEW c \in Counter, NEW l \in 0 .. LockFor, NEW g \in Guesses,
           NEW m \in Nat \ {0, 1}, NEW d \in Nat, NEW p \in Nat, NEW f \in Nat,
           NEW d2 \in Nat, Room(c, l, g, m, d, p, f), d + p <= Cardinality(Attempt)
    PROVE  Room(c, LockFor, g, m, d2, p, f)
<1> DEFINE n == Counted(c, m)
           N == Cardinality(Attempt)
<1>1. n \in 0 .. m - 1 /\ N \in Nat /\ \A i \in Age : g[i] \in Int
  BY CountedRange, Thresholds DEF Guesses
<1> HIDE DEF n, N
<1>2. \A i \in Age : i \in Nat /\ i < LockFor
  BY Thresholds DEF Age
<1>3. \A i \in Age : g[i] + p <= 2 * m - 3 + N + f
  <2>1. CASE l = 0
    <3>1. \A i \in Age : g[i] <= m - 2 + n + d + f
      BY <1>2, <2>1, Thresholds DEF Room, n, Age
    <3> QED BY <1>1, <3>1 DEF N
  <2>2. CASE l > 0
    BY <2>2 DEF Room, N
  <2> QED BY <2>1, <2>2
<1>4. \A i \in Age : ~(i < LockFor - LockFor)
  BY <1>2, Thresholds
<1> QED BY <1>3, <1>4 DEF Room, N

\* A successful login deletes the counter and the lock, and forgives the guesses.
LEMMA RoomReset ==
    ASSUME NEW m \in Nat \ {0, 1}, NEW d \in Nat, NEW p \in Nat, NEW f \in Nat
    PROVE  Room(NoCounter, 0, NoGuesses, m, d, p, f)
<1>1. NoCounter.n = 0 /\ NoCounter.ttl = 0 /\ Counted(NoCounter, m) = 0
  BY DEF NoCounter, Counted
<1>2. \A i \in Age : NoGuesses[i] = 0
  BY DEF NoGuesses
<1>3. \A i \in Age : NoGuesses[i] <= m - 2 + 0 + d + f
  BY <1>2
<1> QED BY <1>1, <1>3 DEF Room

\* A tick: the guesses age, the lock and the counter run down.
LEMMA RoomTicks ==
    ASSUME NEW c \in Counter, NEW l \in 0 .. LockFor, NEW g \in Guesses,
           NEW m \in Nat \ {0, 1}, NEW d \in Nat, NEW p \in Nat, NEW f \in Nat,
           Room(c, l, g, m, d, p, f), d + p <= Cardinality(Attempt)
    PROVE  Room(Aged(c), IF l > 0 THEN l - 1 ELSE 0,
                [i \in Age |-> IF i = 0 THEN 0 ELSE g[i - 1]], m, d, p, f)
<1> DEFINE n == Counted(c, m)
           N == Cardinality(Attempt)
           c2 == Aged(c)
           n2 == Counted(c2, m)
           l2 == IF l > 0 THEN l - 1 ELSE 0
           g2 == [i \in Age |-> IF i = 0 THEN 0 ELSE g[i - 1]]
<1>1. \A i \in Age :
         /\ i \in Nat /\ i < LockFor
         /\ (i # 0) => (i - 1 \in Age /\ g2[i] = g[i - 1] /\ g[i - 1] \in Nat)
         /\ (i = 0) => (g2[i] = 0)
  BY Thresholds DEF Age, Guesses
<1>2. /\ n \in 0 .. m - 1 /\ N \in Nat /\ c.ttl \in Nat /\ c.n \in Nat
      /\ c.ttl > 0 => n > 0
  BY CountedRange, Thresholds DEF Room, Counter
<1>3. /\ c.ttl = 1 => c2.n = 0 /\ c2.ttl = 0
      /\ c.ttl # 1 => c2.n = c.n
      /\ c.ttl > 1 => c2.ttl = c.ttl - 1
      /\ c.ttl = 0 => c2.ttl = 0
  BY <1>2 DEF Aged, NoCounter, Counter
<1>4. (c.ttl = 1 => n2 = 0) /\ (c.ttl # 1 => n2 = n)
  BY <1>3 DEF Counted
<1>5. /\ c.n = 0 => c.ttl = 0
      /\ \A i \in Age : i < LockFor - l => g[i] <= m - 2 + n + d + f
      /\ c.ttl > 0 => \A i \in Age : i < LockFor - c.ttl /\ i < LockFor - l
                                     => g[i] <= n - 1 + d + f
      /\ l > 0 => \A i \in Age : g[i] + p <= 2 * m - 3 + N + f
  BY DEF Room
<1> HIDE DEF n, n2, N, c2, g2
<1>6. c2.n = 0 => c2.ttl = 0
  BY <1>2, <1>3, <1>5
<1>7. ASSUME NEW i \in Age, i < LockFor - l2
      PROVE  g2[i] <= m - 2 + n2 + d + f
  <2>1. CASE i = 0
    <3>1. n2 \in Nat
      BY <1>2, <1>4
    <3> QED BY <1>1, <2>1, <3>1
  <2>2. CASE i # 0 /\ c.ttl = 1
    <3>1. i - 1 < LockFor - 1 /\ i - 1 < LockFor - l
      BY <1>1, <1>7, <2>2, Thresholds
    <3>2. g[i - 1] <= n - 1 + d + f
      BY <1>1, <1>5, <2>2, <3>1
    <3> QED BY <1>1, <1>2, <1>4, <2>2, <3>2
  <2>3. CASE i # 0 /\ c.ttl # 1
    <3>1. i - 1 < LockFor - l
      BY <1>1, <1>7, <2>3, Thresholds
    <3>2. g[i - 1] <= m - 2 + n + d + f
      BY <1>1, <1>5, <2>3, <3>1
    <3> QED BY <1>1, <1>4, <2>3, <3>2
  <2> QED BY <2>1, <2>2, <2>3
<1>8. ASSUME c2.ttl > 0, NEW i \in Age, i < LockFor - c2.ttl, i < LockFor - l2
      PROVE  g2[i] <= n2 - 1 + d + f
  <2>1. c.ttl > 1 /\ c2.ttl = c.ttl - 1 /\ n2 = n
    BY <1>2, <1>3, <1>4, <1>8
  <2>2. CASE i = 0
    BY <1>1, <1>2, <2>1, <2>2
  <2>3. CASE i # 0
    <3>1. i - 1 < LockFor - c.ttl /\ i - 1 < LockFor - l
      BY <1>1, <1>2, <1>8, <2>1, <2>3, Thresholds
    <3>2. c.ttl > 0 /\ i - 1 \in Age
      BY <1>1, <1>2, <2>1, <2>3
    <3>3. g[i - 1] <= n - 1 + d + f
      BY <1>5, <3>1, <3>2
    <3> QED BY <1>1, <2>1, <2>3, <3>3
  <2> QED BY <2>2, <2>3
<1>9. ASSUME l2 > 0, NEW i \in Age
      PROVE  g2[i] + p <= 2 * m - 3 + N + f
  <2>1. CASE i = 0
    BY <1>1, <1>2, <2>1 DEF N
  <2>2. CASE i # 0
    BY <1>1, <1>5, <1>9, <2>2
  <2> QED BY <2>1, <2>2
<1>10. Room(c2, l2, g2, m, d, p, f)
  <2> HIDE DEF l2
  <2> QED BY <1>6, <1>7, <1>8, <1>9 DEF Room, n2, N
<1> QED BY <1>10 DEF c2, g2

\* What the guesses come to.
LEMMA RoomBounds ==
    ASSUME NEW c \in Counter, NEW l \in 0 .. LockFor, NEW g \in Guesses,
           NEW m \in Nat \ {0, 1}, NEW d \in Nat, NEW p \in Nat, NEW f \in Nat,
           Room(c, l, g, m, d, p, f), d + p <= Cardinality(Attempt)
    PROVE  g[LockFor - 1] <= 2 * m - 3 + Cardinality(Attempt) + f
<1> DEFINE n == Counted(c, m)
           N == Cardinality(Attempt)
           i == LockFor - 1
<1>1. n \in 0 .. m - 1 /\ N \in Nat /\ i \in Age /\ g[i] \in Nat
  BY CountedRange, Thresholds DEF Guesses, Age
<1>2. CASE l = 0
  <2>1. g[i] <= m - 2 + n + d + f
    BY <1>1, <1>2, Thresholds DEF Room
  <2> HIDE DEF n, N
  <2> QED BY <1>1, <2>1 DEF N
<1>3. CASE l > 0
  BY <1>1, <1>3 DEF Room
<1> QED BY <1>2, <1>3

-----------------------------------------------------------------------------
(***************************************************************************)
(* Steps of an attempt.                                                     *)
(***************************************************************************)
LEMMA KeyFacts ==
    ASSUME GuardInv, NEW k \in Key
    PROVE  /\ fail[k] \in Counter /\ lock[k] \in 0 .. LockFor /\ guesses[k] \in Guesses
           /\ LockAfter(k) \in Nat \ {0, 1} /\ faults \in Nat
           /\ Cardinality(Due(k)) \in Nat /\ Cardinality(Past(k)) \in Nat
           /\ Cardinality(Due(k)) + Cardinality(Past(k)) <= Cardinality(Attempt)
           /\ KeyRoom(k)
BY Thresholds, DueOrPast DEF GuardInv, GuardTypes, Counter, Guesses

LEMMA AttemptFacts ==
    ASSUME GuardInv, NEW a \in Attempt
    PROVE  /\ att[a] \in AttemptRecord /\ Known(att[a])
           /\ att[a].pc # "idle" => att[a].src \in Source /\ att[a].src \in Key /\ LegKey(a) \in Key
           /\ SideKey(att[a]) = LegKey(a)
           /\ User \in Key
BY DEF GuardInv, GuardTypes, Known, Key, LegKey, SideKey

\* Attempt a becomes x; the rooms are judged key by key.
LEMMA AttemptStep ==
    ASSUME GuardInv, NEW a \in Attempt, NEW x \in AttemptRecord, Known(x),
           att' = [att EXCEPT ![a] = x],
           fail' \in [Key -> Counter], lock' \in [Key -> 0 .. LockFor],
           faults' \in 0 .. MaxFaults, guesses' \in [Key -> Guesses],
           \A k \in Key : KeyRoom(k)'
    PROVE  GuardInv'
<1>1. GuardTypes'
  BY DEF GuardInv, GuardTypes, Counter, Guesses
<1>2. \A b \in Attempt : Known(att'[b])
  BY DEF GuardInv, GuardTypes
<1> QED BY <1>1, <1>2 DEF GuardInv

\* A step of attempt a that only changes the attempt and perhaps counts a fault.
LEMMA PlainStep ==
    ASSUME GuardInv, NEW a \in Attempt, NEW x \in AttemptRecord, Known(x),
           att' = [att EXCEPT ![a] = x], UNCHANGED <<fail, lock, guesses>>,
           faults' \in 0 .. MaxFaults, faults' \in {faults, faults + 1},
           \A k \in Key : IsDue(att[a], k) => IsDue(x, k) \/ faults' = faults + 1,
           \A k \in Key : lock[k] > 0 /\ IsPast(x, k) => IsPast(att[a], k)
    PROVE  GuardInv'
<1>1. ASSUME NEW k \in Key PROVE KeyRoom(k)'
  <2> DEFINE d == Cardinality(Due(k))
             p == Cardinality(Past(k))
             d2 == Cardinality(Due(k)')
             p2 == Cardinality(Past(k)')
  <2>1. /\ d \in Nat /\ p \in Nat /\ d2 \in Nat /\ p2 \in Nat
        /\ d2 + 1 >= d
        /\ (IsDue(att[a], k) => IsDue(x, k)) => d2 >= d
        /\ (IsPast(x, k) => IsPast(att[a], k)) => p2 <= p
    BY MoveCounts, KeyFacts DEF GuardInv
  <2> HIDE DEF d, p, d2, p2
  <2>2. faults \in Nat /\ faults' \in Nat
    BY KeyFacts
  <2>3. d + faults <= d2 + faults'
    <3>1. d2 >= d \/ faults' = faults + 1
      BY <2>1, Zenon
    <3>2. d \in Nat /\ d2 \in Nat /\ d2 + 1 >= d
      BY <2>1
    <3> QED BY <2>2, <3>1, <3>2, Balance
  <2>4. ASSUME lock[k] > 0 PROVE p2 + faults <= p + faults'
    <3>1. p2 <= p
      BY <2>1, <2>4, Zenon
    <3>2. p \in Nat /\ p2 \in Nat /\ p2 <= p + 1
      BY <2>1, <3>1
    <3> QED BY <2>2, <3>1, <3>2, Balance
  <2>5. Room(fail[k], lock[k], guesses[k], LockAfter(k), d, p, faults)
    BY KeyFacts DEF KeyRoom, d, p
  <2>6. Room(fail[k], lock[k], guesses[k], LockAfter(k), d2, p2, faults')
    BY <2>1, <2>2, <2>3, <2>4, <2>5, KeyFacts, RoomWidens
  <2> QED BY <2>6 DEF KeyRoom, d2, p2, LockAfter
<1>2. /\ fail' \in [Key -> Counter] /\ lock' \in [Key -> 0 .. LockFor]
      /\ guesses' \in [Key -> Guesses]
  BY DEF GuardInv, GuardTypes, Counter, Guesses
<1> QED BY <1>1, <1>2, AttemptStep

LEMMA FreeFacts ==
    /\ Free \in AttemptRecord /\ Known(Free)
    /\ \A k \in Key : ~IsDue(Free, k) /\ ~IsPast(Free, k)
BY DEF Free, AttemptRecord, Known, IsDue, IsPast, Key

LEMMA FaultsKept ==
    ASSUME GuardInv
    PROVE  /\ faults' = faults => faults' \in 0 .. MaxFaults
           /\ (faults < MaxFaults /\ faults' = faults + 1) => faults' \in 0 .. MaxFaults
BY Thresholds DEF GuardInv, GuardTypes

LEMMA SubmitStep ==
    ASSUME GuardInv, NEW a \in Attempt, NEW s \in Source, Submit(a, s)
    PROVE  GuardInv'
<1> DEFINE x == [Free EXCEPT !.pc = "check", !.src = s]
<1>1. x \in AttemptRecord /\ x.pc = "check" /\ x.leg = "ip" /\ x.src = s
  BY DEF Free, AttemptRecord, Key
<1>2. /\ att[a].pc = "idle" /\ att' = [att EXCEPT ![a] = x]
      /\ UNCHANGED <<fail, lock, faults, guesses>>
  BY DEF Submit
<1> HIDE DEF x
<1>3. Known(x)
  BY <1>1 DEF Known
<1>4. \A k \in Key : ~IsDue(att[a], k) /\ ~IsPast(x, k)
  BY <1>1, <1>2 DEF IsDue, IsPast
<1> QED BY <1>1, <1>2, <1>3, <1>4, FaultsKept, PlainStep

LEMMA CheckLockedStep ==
    ASSUME GuardInv, NEW a \in Attempt, CheckLocked(a)
    PROVE  GuardInv'
<1>1. att[a].pc = "check" /\ UNCHANGED <<fail, lock, faults, guesses>>
  BY DEF CheckLocked
<1>2. \A k \in Key : ~IsDue(att[a], k)
  BY <1>1 DEF IsDue
<1>3. CASE lock[LegKey(a)] > 0
  <2>1. att' = [att EXCEPT ![a] = Free]
    BY <1>3 DEF CheckLocked
  <2> QED BY <1>1, <1>2, <2>1, FreeFacts, FaultsKept, PlainStep
<1>4. CASE ~(lock[LegKey(a)] > 0) /\ att[a].leg = "ip"
  <2> DEFINE x == [att[a] EXCEPT !.leg = "user"]
  <2>1. att' = [att EXCEPT ![a] = x]
    BY <1>4 DEF CheckLocked
  <2>2. /\ x \in AttemptRecord /\ x.pc = "check" /\ x.leg = "user" /\ x.src = att[a].src
    BY <1>1, AttemptFacts DEF AttemptRecord
  <2> HIDE DEF x
  <2>3. Known(x)
    BY <1>1, <2>2, AttemptFacts DEF Known
  <2>4. \A k \in Key : IsPast(x, k) => k = LegKey(a)
    BY <1>4, <2>2 DEF IsPast, LegKey
  <2> QED BY <1>1, <1>2, <1>4, <2>1, <2>2, <2>3, <2>4, FaultsKept, PlainStep
<1>5. CASE ~(lock[LegKey(a)] > 0) /\ att[a].leg # "ip"
  <2> DEFINE x == [att[a] EXCEPT !.pc = "auth", !.leg = "ip"]
  <2>1. att' = [att EXCEPT ![a] = x]
    BY <1>5 DEF CheckLocked
  <2>2. /\ x \in AttemptRecord /\ x.pc = "auth" /\ x.leg = "ip" /\ x.src = att[a].src
    BY <1>1, AttemptFacts DEF AttemptRecord
  <2> HIDE DEF x
  <2>3. Known(x)
    BY <1>1, <2>2, AttemptFacts DEF Known
  <2>4. \A k \in Key : IsPast(x, k) => k = LegKey(a) \/ IsPast(att[a], k)
    BY <1>1, <1>5, <2>2, AttemptFacts DEF IsPast, LegKey, AttemptRecord
  <2> QED BY <1>1, <1>2, <1>5, <2>1, <2>2, <2>3, <2>4, FaultsKept, PlainStep
<1> QED BY <1>3, <1>4, <1>5

LEMMA GiveUpStep ==
    ASSUME GuardInv, NEW a \in Attempt, GiveUp(a)
    PROVE  GuardInv'
<1>1. /\ att[a].pc \in {"check", "auth"} /\ att' = [att EXCEPT ![a] = Free]
      /\ UNCHANGED <<fail, lock, faults, guesses>>
  BY DEF GiveUp
<1>2. \A k \in Key : ~IsDue(att[a], k)
  BY <1>1 DEF IsDue
<1> QED BY <1>1, <1>2, FreeFacts, FaultsKept, PlainStep

LEMMA AuthenticateSucceedsStep ==
    ASSUME GuardInv, NEW a \in Attempt, AuthenticateSucceeds(a)
    PROVE  GuardInv'
<1> DEFINE x == [att[a] EXCEPT !.pc = "reset"]
<1>1. /\ att[a].pc = "auth" /\ att' = [att EXCEPT ![a].pc = "reset"]
      /\ UNCHANGED <<fail, lock, faults, guesses>>
  BY DEF AuthenticateSucceeds
<1>2. x \in AttemptRecord /\ x.pc = "reset" /\ x.src = att[a].src
  BY AttemptFacts DEF AttemptRecord
<1>3. att' = [att EXCEPT ![a] = x]
  BY <1>1 DEF GuardInv, GuardTypes
<1> HIDE DEF x
<1>4. Known(x)
  BY <1>1, <1>2, AttemptFacts DEF Known
<1>5. \A k \in Key : ~IsDue(att[a], k) /\ ~IsPast(x, k)
  BY <1>1, <1>2 DEF IsDue, IsPast
<1> QED BY <1>1, <1>2, <1>3, <1>4, <1>5, FaultsKept, PlainStep

LEMMA CancelStep ==
    ASSUME GuardInv, NEW a \in Attempt, Cancel(a)
    PROVE  GuardInv'
<1>1. /\ faults < MaxFaults /\ faults' = faults + 1 /\ att' = [att EXCEPT ![a] = Free]
      /\ UNCHANGED <<fail, lock, guesses>>
  BY DEF Cancel
<1> QED BY <1>1, FreeFacts, FaultsKept, PlainStep

\* What NextLeg leaves behind.
LEMMA NextLegFacts ==
    ASSUME GuardInv, NEW a \in Attempt, NextLeg(a), att[a].pc \in {"incr", "expire", "lock", "reset"}
    PROVE  \E x \in AttemptRecord :
              /\ Known(x) /\ att' = [att EXCEPT ![a] = x]
              /\ \A k \in Key : ~IsPast(x, k)
              /\ att[a].pc # "reset" /\ att[a].leg = "ip" => IsDue(x, User)
<1> DEFINE pc == IF att[a].pc = "reset" THEN "reset" ELSE "incr"
           x == [att[a] EXCEPT !.leg = "user", !.pc = pc, !.count = 0]
<1>1. CASE att[a].leg = "ip"
  <2>1. att' = [att EXCEPT ![a] = x]
    BY <1>1 DEF NextLeg
  <2>2. /\ x \in AttemptRecord /\ x.pc = pc /\ x.leg = "user" /\ x.src = att[a].src
    BY AttemptFacts DEF AttemptRecord
  <2>3. pc \in {"reset", "incr"} /\ (att[a].pc # "reset" => pc = "incr")
    OBVIOUS
  <2> HIDE DEF x, pc
  <2>4. Known(x)
    BY <2>2, <2>3, AttemptFacts DEF Known
  <2>5. \A k \in Key : ~IsPast(x, k)
    BY <2>2, <2>3 DEF IsPast
  <2>6. att[a].pc # "reset" => IsDue(x, User)
    BY <2>2, <2>3 DEF IsDue, SideKey
  <2> QED BY <2>1, <2>2, <2>4, <2>5, <2>6
<1>2. CASE att[a].leg # "ip"
  <2>1. att' = [att EXCEPT ![a] = Free]
    BY <1>2 DEF NextLeg
  <2> QED BY <1>2, <2>1, FreeFacts
<1> QED BY <1>1, <1>2

LEMMA LegErrorStep ==
    ASSUME GuardInv, NEW a \in Attempt, LegError(a)
    PROVE  GuardInv'
<1>1. /\ att[a].pc \in {"incr", "expire", "lock", "reset"} /\ NextLeg(a)
      /\ faults < MaxFaults /\ faults' = faults + 1 /\ UNCHANGED <<fail, lock, guesses>>
  BY DEF LegError
<1>2. PICK x \in AttemptRecord :
         /\ Known(x) /\ att' = [att EXCEPT ![a] = x]
         /\ \A k \in Key : ~IsPast(x, k)
  BY <1>1, NextLegFacts
<1> QED BY <1>1, <1>2, FaultsKept, PlainStep

LEMMA AuthenticateFailsStep ==
    ASSUME GuardInv, NEW a \in Attempt, AuthenticateFails(a)
    PROVE  GuardInv'
<1> DEFINE x == [att[a] EXCEPT !.pc = "incr"]
<1>1. /\ att[a].pc = "auth" /\ att' = [att EXCEPT ![a].pc = "incr"]
      /\ guesses' = [k \in Key |-> IF k \in {att[a].src, User}
                                   THEN [i \in Age |-> guesses[k][i] + 1] ELSE guesses[k]]
      /\ UNCHANGED <<fail, lock, faults>>
  BY DEF AuthenticateFails
<1>2. /\ x \in AttemptRecord /\ x.pc = "incr" /\ x.src = att[a].src /\ x.leg = att[a].leg
  BY AttemptFacts DEF AttemptRecord
<1>3. att' = [att EXCEPT ![a] = x]
  BY <1>1 DEF GuardInv, GuardTypes
<1> HIDE DEF x
<1>4. att[a].leg = "ip" /\ att[a].src \in Source /\ Known(x)
  BY <1>1, <1>2, AttemptFacts DEF Known
<1>5. ASSUME NEW k \in Key PROVE KeyRoom(k)' /\ guesses'[k] \in Guesses
  <2> DEFINE d == Cardinality(Due(k))
             p == Cardinality(Past(k))
             d2 == Cardinality(Due(k)')
             p2 == Cardinality(Past(k)')
  <2>1. /\ d \in Nat /\ p \in Nat /\ d2 \in Nat /\ p2 \in Nat
        /\ (IsDue(att[a], k) => IsDue(x, k)) => d2 >= d
        /\ ~IsDue(att[a], k) /\ IsDue(x, k) => d2 = d + 1
        /\ (IsPast(x, k) => IsPast(att[a], k)) => p2 <= p
        /\ IsPast(att[a], k) /\ ~IsPast(x, k) => p = p2 + 1
    BY <1>3, MoveCounts, KeyFacts DEF GuardInv
  <2>2. Room(fail[k], lock[k], guesses[k], LockAfter(k), d, p, faults)
    BY KeyFacts DEF KeyRoom
  <2>3. ~IsDue(att[a], k) /\ ~IsPast(x, k)
    BY <1>1, <1>2 DEF IsDue, IsPast
  <2> HIDE DEF d, p, d2, p2
  <2>4. Room(fail[k], lock[k], guesses'[k], LockAfter(k), d2, p2, faults) /\ guesses'[k] \in Guesses
    <3>1. CASE k \in {att[a].src, User}
      <4>1. IsDue(x, k) /\ IsPast(att[a], k)
        BY <1>1, <1>2, <1>4, <3>1 DEF IsDue, IsPast, SideKey
      <4>2. guesses[k] \in Guesses
        BY KeyFacts
      <4>3. guesses'[k] = [i \in Age |-> guesses[k][i] + 1]
        BY <1>1, <3>1
      <4>4. guesses'[k] \in Guesses /\ \A i \in Age : guesses'[k][i] = guesses[k][i] + 1
        BY <4>2, <4>3 DEF Guesses
      <4>5. d2 = d + 1 /\ p = p2 + 1
        BY <2>1, <2>3, <4>1
      <4> QED BY <2>1, <2>2, <4>4, <4>5, KeyFacts, RoomGuessed
    <3>2. CASE k \notin {att[a].src, User}
      <4>1. guesses'[k] = guesses[k] /\ guesses[k] \in Guesses
        BY <1>1, <3>2, KeyFacts
      <4>2. d <= d2 /\ p2 <= p
        BY <2>1, <2>3
      <4>3. d + faults <= d2 + faults /\ p2 + faults <= p + faults
        BY <2>1, <4>2, KeyFacts
      <4> QED BY <2>1, <2>2, <4>1, <4>3, KeyFacts, RoomWidens
    <3> QED BY <3>1, <3>2
  <2> QED BY <1>1, <2>4 DEF KeyRoom, d2, p2, LockAfter
<1>6. guesses' \in [Key -> Guesses]
  <2>1. guesses' = [k \in Key |-> guesses'[k]]
    BY <1>1
  <2> QED BY <1>5, <2>1
<1>7. /\ fail' \in [Key -> Counter] /\ lock' \in [Key -> 0 .. LockFor] /\ faults' \in 0 .. MaxFaults
  BY <1>1 DEF GuardInv, GuardTypes, Counter
<1>8. \A k \in Key : KeyRoom(k)'
  BY <1>5
<1> QED BY <1>2, <1>3, <1>4, <1>6, <1>7, <1>8, AttemptStep

\* A step of a leg of recordFailure or of the reset, at key k, which leaves x, c, l
\* and g behind.
LEMMA LegStep ==
    ASSUME GuardInv, NEW a \in Attempt, NEW x \in AttemptRecord, NEW k \in Key,
           NEW c \in Counter, NEW l \in 0 .. LockFor, NEW g \in Guesses,
           k = LegKey(a), att[a].pc \in {"incr", "expire", "lock", "reset"},
           Known(x), att' = [att EXCEPT ![a] = x],
           \A j \in Key : ~IsPast(x, j),
           att[a].pc # "reset" /\ att[a].leg = "ip" => IsDue(x, User),
           fail' = [fail EXCEPT ![k] = c], lock' = [lock EXCEPT ![k] = l],
           guesses' = [guesses EXCEPT ![k] = g], faults' = faults,
           Room(c, l, g, LockAfter(k), Cardinality(Due(k)'), Cardinality(Past(k)), faults)
    PROVE  GuardInv'
<1>1. /\ fail \in [Key -> Counter] /\ lock \in [Key -> 0 .. LockFor]
      /\ guesses \in [Key -> Guesses]
  BY DEF GuardInv, GuardTypes, Counter, Guesses
<1>2. /\ fail' \in [Key -> Counter] /\ lock' \in [Key -> 0 .. LockFor]
      /\ guesses' \in [Key -> Guesses] /\ faults' \in 0 .. MaxFaults
  BY <1>1, FaultsKept
<1>3. \A j \in Key : ~IsPast(att[a], j)
  BY DEF IsPast
<1>4. KeyRoom(k)'
  <2>1. Cardinality(Past(k)') = Cardinality(Past(k))
    BY <1>3, MoveCounts DEF GuardInv
  <2>2. fail'[k] = c /\ lock'[k] = l /\ guesses'[k] = g
    BY <1>1
  <2> QED BY <2>1, <2>2 DEF KeyRoom, LockAfter
<1>5. ASSUME NEW j \in Key, j # k PROVE KeyRoom(j)'
  <2> DEFINE d == Cardinality(Due(j))
             p == Cardinality(Past(j))
             d2 == Cardinality(Due(j)')
             p2 == Cardinality(Past(j)')
  <2>1. fail'[j] = fail[j] /\ lock'[j] = lock[j] /\ guesses'[j] = guesses[j]
    BY <1>1, <1>5
  <2>2. IsDue(att[a], j) => IsDue(x, j)
    <3>1. IsDue(att[a], j) => j = User /\ att[a].leg = "ip" /\ att[a].pc # "reset"
      BY <1>5, AttemptFacts DEF IsDue
    <3> QED BY <3>1
  <2>3. /\ d \in Nat /\ p \in Nat /\ d2 \in Nat /\ p2 \in Nat
        /\ d2 >= d /\ p2 = p
    BY <1>3, <2>2, MoveCounts, KeyFacts DEF GuardInv
  <2>4. Room(fail[j], lock[j], guesses[j], LockAfter(j), d, p, faults)
    BY KeyFacts DEF KeyRoom
  <2> HIDE DEF d, p, d2, p2
  <2>5. d + faults <= d2 + faults /\ p2 + faults <= p + faults
    BY <2>3, KeyFacts
  <2>6. Room(fail[j], lock[j], guesses[j], LockAfter(j), d2, p2, faults)
    BY <2>3, <2>4, <2>5, KeyFacts, RoomWidens
  <2> QED BY <2>1, <2>6 DEF KeyRoom, d2, p2, LockAfter
<1>6. \A j \in Key : KeyRoom(j)'
  BY <1>4, <1>5
<1> QED BY <1>2, <1>6, AttemptStep

LEMMA SetLockStep ==
    ASSUME GuardInv, NEW a \in Attempt, SetLock(a)
    PROVE  GuardInv'
<1>0. PICK k \in Key : k = LegKey(a)
  BY AttemptFacts DEF SetLock
<1>1. /\ att[a].pc = "lock" /\ lock' = [lock EXCEPT ![k] = LockFor] /\ NextLeg(a)
      /\ UNCHANGED <<fail, faults, guesses>>
  BY <1>0 DEF SetLock
<1>2. PICK x \in AttemptRecord :
         /\ Known(x) /\ att' = [att EXCEPT ![a] = x]
         /\ \A j \in Key : ~IsPast(x, j)
         /\ att[a].pc # "reset" /\ att[a].leg = "ip" => IsDue(x, User)
  BY <1>1, NextLegFacts
<1>3. Cardinality(Due(k)') \in Nat
  BY <1>1, <1>2, MoveCounts DEF GuardInv
<1>4. /\ fail[k] \in Counter /\ guesses[k] \in Guesses /\ LockFor \in 0 .. LockFor
      /\ fail' = [fail EXCEPT ![k] = fail[k]] /\ guesses' = [guesses EXCEPT ![k] = guesses[k]]
  BY <1>1, KeyFacts, Thresholds DEF GuardInv, GuardTypes
<1>5. Room(fail[k], LockFor, guesses[k], LockAfter(k), Cardinality(Due(k)'), Cardinality(Past(k)), faults)
  <2>1. Room(fail[k], lock[k], guesses[k], LockAfter(k), Cardinality(Due(k)), Cardinality(Past(k)), faults)
    BY <1>1, KeyFacts DEF KeyRoom
  <2> QED BY <1>1, <1>3, <2>1, KeyFacts, RoomLocked
<1>6. PICK c \in Counter, g \in Guesses : c = fail[k] /\ g = guesses[k]
  BY <1>4
<1>7. /\ fail' = [fail EXCEPT ![k] = c] /\ guesses' = [guesses EXCEPT ![k] = g]
      /\ LockFor \in 0 .. LockFor /\ lock' = [lock EXCEPT ![k] = LockFor] /\ faults' = faults
      /\ Room(c, LockFor, g, LockAfter(k), Cardinality(Due(k)'), Cardinality(Past(k)), faults)
  BY <1>1, <1>4, <1>5, <1>6
<1>8. att[a].leg = "ip" => IsDue(x, User)
  BY <1>1, <1>2
<1>9. att[a].pc \in {"incr", "expire", "lock", "reset"} /\ Known(x) /\ \A j \in Key : ~IsPast(x, j)
  BY <1>1, <1>2
<1> QED BY <1>0, <1>2, <1>7, <1>8, <1>9, LegStep

LEMMA ResetLoginFailuresStep ==
    ASSUME GuardInv, NEW a \in Attempt, ResetLoginFailures(a)
    PROVE  GuardInv'
<1>0. PICK k \in Key : k = LegKey(a)
  BY AttemptFacts DEF ResetLoginFailures
<1>1. /\ att[a].pc = "reset" /\ NextLeg(a)
      /\ fail' = [fail EXCEPT ![k] = NoCounter] /\ lock' = [lock EXCEPT ![k] = 0]
      /\ guesses' = [guesses EXCEPT ![k] = NoGuesses] /\ faults' = faults
  BY <1>0 DEF ResetLoginFailures
<1>2. PICK x \in AttemptRecord :
         /\ Known(x) /\ att' = [att EXCEPT ![a] = x]
         /\ \A j \in Key : ~IsPast(x, j)
  BY <1>1, NextLegFacts
<1>3. Cardinality(Due(k)') \in Nat
  BY <1>1, <1>2, MoveCounts DEF GuardInv
<1>4. NoCounter \in Counter /\ NoGuesses \in Guesses /\ 0 \in 0 .. LockFor
  BY Thresholds DEF NoCounter, Counter, NoGuesses, Guesses
<1>5. Room(NoCounter, 0, NoGuesses, LockAfter(k), Cardinality(Due(k)'), Cardinality(Past(k)), faults)
  BY <1>1, <1>3, KeyFacts, RoomReset
<1> QED BY <1>1, <1>2, <1>0, <1>4, <1>5, LegStep

LEMMA ExpireStep ==
    ASSUME GuardInv, NEW a \in Attempt, Expire(a)
    PROVE  GuardInv'
<1>0. PICK k \in Key : k = LegKey(a)
  BY AttemptFacts DEF Expire
<1> DEFINE ttl == IF fail[k].n = 0 THEN 0 ELSE LockFor
           c == [fail[k] EXCEPT !.ttl = ttl]
           y == [att[a] EXCEPT !.pc = "lock"]
<1>1. /\ att[a].pc = "expire" /\ fail' = [fail EXCEPT ![k].ttl = ttl]
      /\ att' = [att EXCEPT ![a].pc = "lock"] \/ NextLeg(a)
      /\ UNCHANGED <<lock, faults, guesses>>
  BY <1>0 DEF Expire
<1>2. /\ y \in AttemptRecord /\ y.pc = "lock" /\ y.src = att[a].src /\ y.leg = att[a].leg
      /\ att' = [att EXCEPT ![a].pc = "lock"] => att' = [att EXCEPT ![a] = y]
  BY AttemptFacts DEF AttemptRecord, GuardInv, GuardTypes
<1>3. ttl \in 0 .. LockFor /\ fail[k] \in Counter
  BY <1>1, Thresholds, KeyFacts
<1>4. c \in Counter /\ c.n = fail[k].n /\ c.ttl = ttl
  BY <1>3 DEF Counter
<1>5. /\ fail' = [fail EXCEPT ![k] = c]
      /\ lock' = [lock EXCEPT ![k] = lock[k]] /\ guesses' = [guesses EXCEPT ![k] = guesses[k]]
  BY <1>1 DEF GuardInv, GuardTypes
<1> HIDE DEF y, c
<1>6. PICK x \in AttemptRecord :
         /\ Known(x) /\ att' = [att EXCEPT ![a] = x]
         /\ \A j \in Key : ~IsPast(x, j)
         /\ att[a].pc # "reset" /\ att[a].leg = "ip" => IsDue(x, User)
  <2>1. CASE NextLeg(a)
    BY <1>1, <2>1, NextLegFacts
  <2>2. CASE att' = [att EXCEPT ![a].pc = "lock"]
    <3>1. Known(y) /\ \A j \in Key : ~IsPast(y, j)
      BY <1>1, <1>2, AttemptFacts DEF Known, IsPast
    <3>2. att[a].leg = "ip" => IsDue(y, User)
      BY <1>2 DEF IsDue
    <3> QED BY <1>2, <2>2, <3>1, <3>2
  <2> QED BY <1>1, <2>1, <2>2
<1>7. ~IsDue(att[a], k)
  BY <1>0, <1>1, AttemptFacts, Thresholds DEF IsDue, LegKey
<1>8. /\ Cardinality(Due(k)') \in Nat /\ Cardinality(Due(k)') >= Cardinality(Due(k))
  BY <1>1, <1>6, <1>7, MoveCounts DEF GuardInv
<1>9. c.ttl = IF fail[k].n = 0 THEN 0 ELSE LockFor
  BY <1>4
<1> HIDE DEF ttl
<1>10. Room(c, lock[k], guesses[k], LockAfter(k), Cardinality(Due(k)'), Cardinality(Past(k)), faults)
  <2>1. Room(fail[k], lock[k], guesses[k], LockAfter(k), Cardinality(Due(k)), Cardinality(Past(k)), faults)
    BY <1>1, KeyFacts DEF KeyRoom
  <2>2. Room(c, lock[k], guesses[k], LockAfter(k), Cardinality(Due(k)), Cardinality(Past(k)), faults)
    BY <1>1, <1>4, <1>9, <2>1, KeyFacts, RoomExpires
  <2>3. /\ Cardinality(Due(k)) + faults <= Cardinality(Due(k)') + faults
        /\ Cardinality(Past(k)) + faults <= Cardinality(Past(k)) + faults
    BY <1>1, <1>8, KeyFacts
  <2> QED BY <1>1, <1>4, <1>8, <2>2, <2>3, KeyFacts, RoomWidens
<1>11. PICK l \in 0 .. LockFor, g \in Guesses : l = lock[k] /\ g = guesses[k]
  BY KeyFacts
<1>12. /\ lock' = [lock EXCEPT ![k] = l] /\ guesses' = [guesses EXCEPT ![k] = g]
       /\ faults' = faults
       /\ Room(c, l, g, LockAfter(k), Cardinality(Due(k)'), Cardinality(Past(k)), faults)
  BY <1>1, <1>5, <1>10, <1>11
<1>13. att[a].leg = "ip" => IsDue(x, User)
  BY <1>1, <1>6
<1>14. att[a].pc \in {"incr", "expire", "lock", "reset"} /\ Known(x) /\ \A j \in Key : ~IsPast(x, j)
  BY <1>1, <1>6
<1>15. att' = [att EXCEPT ![a] = x] /\ fail' = [fail EXCEPT ![k] = c]
  BY <1>5, <1>6
<1> QED BY <1>0, <1>4, <1>12, <1>13, <1>14, <1>15, LegStep

LEMMA IncrStep ==
    ASSUME GuardInv, NEW a \in Attempt, Incr(a)
    PROVE  GuardInv'
<1>0. PICK k \in Key : k = LegKey(a)
  BY AttemptFacts DEF Incr
<1> DEFINE n == IF fail[k].n < LockAfter(k) THEN fail[k].n + 1 ELSE fail[k].n
           q == IF fail[k].n = 0 THEN "expire" ELSE "lock"
           full == n = 1 \/ n >= LockAfter(k)
           c == [fail[k] EXCEPT !.n = n]
           y == [att[a] EXCEPT !.pc = q, !.count = n]
<1>1. /\ att[a].pc = "incr" /\ fail' = [fail EXCEPT ![k].n = n]
      /\ \/ full /\ att' = [att EXCEPT ![a].pc = q, ![a].count = n]
         \/ ~full /\ NextLeg(a)
      /\ UNCHANGED <<lock, faults, guesses>>
  BY <1>0 DEF Incr
<1>2. fail[k] \in Counter /\ LockAfter(k) \in Nat \ {0, 1}
  BY KeyFacts
<1>3. n \in Nat /\ c \in Counter /\ c.n = n /\ c.ttl = fail[k].ttl
  BY <1>2 DEF Counter
<1>4. /\ y \in AttemptRecord /\ y.pc = q /\ y.src = att[a].src /\ y.leg = att[a].leg
  BY <1>3, AttemptFacts DEF AttemptRecord
<1>5. att' = [att EXCEPT ![a].pc = q, ![a].count = n] => att' = [att EXCEPT ![a] = y]
  BY DEF GuardInv, GuardTypes
<1>6. /\ fail' = [fail EXCEPT ![k] = c]
      /\ lock' = [lock EXCEPT ![k] = lock[k]] /\ guesses' = [guesses EXCEPT ![k] = guesses[k]]
  BY <1>1 DEF GuardInv, GuardTypes
<1>7. fail[k].n >= LockAfter(k) - 1 => full /\ q = "lock"
  BY <1>2 DEF Counter
<1>8. q \in {"expire", "lock"}
  OBVIOUS
<1>9. c.n = IF fail[k].n < LockAfter(k) THEN fail[k].n + 1 ELSE fail[k].n
  BY <1>3
<1> HIDE DEF n, q, full, c, y
<1>10. PICK x \in AttemptRecord :
         /\ Known(x) /\ att' = [att EXCEPT ![a] = x]
         /\ \A j \in Key : ~IsPast(x, j)
         /\ att[a].leg = "ip" => IsDue(x, User)
         /\ full => x = y
  <2>1. CASE ~full /\ NextLeg(a)
    BY <1>1, <2>1, NextLegFacts
  <2>2. CASE full /\ att' = [att EXCEPT ![a].pc = q, ![a].count = n]
    <3>1. Known(y) /\ \A j \in Key : ~IsPast(y, j)
      BY <1>1, <1>4, <1>8, AttemptFacts DEF Known, IsPast
    <3>2. att[a].leg = "ip" => IsDue(y, User)
      BY <1>4, <1>8 DEF IsDue
    <3> QED BY <1>4, <1>5, <2>2, <3>1, <3>2
  <2> QED BY <1>1, <2>1, <2>2
<1>11. fail[k].n >= LockAfter(k) - 1 => IsDue(x, k)
  <2>1. SideKey(y) = SideKey(att[a])
    BY <1>4 DEF SideKey
  <2> QED BY <1>0, <1>4, <1>7, <1>10, <2>1, AttemptFacts DEF IsDue
<1>12. /\ Cardinality(Due(k)') \in Nat /\ Cardinality(Due(k)) <= Cardinality(Due(k)') + 1
       /\ fail[k].n >= LockAfter(k) - 1 => Cardinality(Due(k)) <= Cardinality(Due(k)')
  BY <1>10, <1>11, MoveCounts, KeyFacts DEF GuardInv
<1>13. Room(c, lock[k], guesses[k], LockAfter(k), Cardinality(Due(k)'), Cardinality(Past(k)), faults)
  <2>1. Room(fail[k], lock[k], guesses[k], LockAfter(k), Cardinality(Due(k)), Cardinality(Past(k)), faults)
    BY KeyFacts DEF KeyRoom
  <2> QED BY <1>2, <1>3, <1>9, <1>12, <2>1, KeyFacts, RoomCounted
<1>14. PICK l \in 0 .. LockFor, g \in Guesses : l = lock[k] /\ g = guesses[k]
  BY KeyFacts
<1>15. /\ lock' = [lock EXCEPT ![k] = l] /\ guesses' = [guesses EXCEPT ![k] = g]
       /\ faults' = faults
       /\ Room(c, l, g, LockAfter(k), Cardinality(Due(k)'), Cardinality(Past(k)), faults)
  BY <1>1, <1>6, <1>13, <1>14
<1>16. att[a].pc \in {"incr", "expire", "lock", "reset"}
  BY <1>1
<1>17. Known(x) /\ att' = [att EXCEPT ![a] = x] /\ \A j \in Key : ~IsPast(x, j)
  BY <1>10
<1>18. att[a].leg = "ip" => IsDue(x, User)
  BY <1>10
<1>19. c \in Counter /\ fail' = [fail EXCEPT ![k] = c]
  BY <1>3, <1>6
<1> QED BY <1>0, <1>15, <1>16, <1>17, <1>18, <1>19, LegStep

LEMMA TickStep ==
    ASSUME GuardInv, Tick
    PROVE  GuardInv'
<1>1. ASSUME NEW k \in Key
      PROVE  /\ KeyRoom(k)' /\ fail'[k] \in Counter /\ lock'[k] \in 0 .. LockFor
             /\ guesses'[k] \in Guesses
  <2> DEFINE l == IF lock[k] > 0 THEN lock[k] - 1 ELSE 0
             g == [i \in Age |-> IF i = 0 THEN 0 ELSE guesses[k][i - 1]]
  <2>1. /\ fail'[k] = Aged(fail[k]) /\ lock'[k] = l /\ guesses'[k] = g
        /\ att' = att /\ faults' = faults
    BY DEF Tick
  <2>2. Room(fail[k], lock[k], guesses[k], LockAfter(k), Cardinality(Due(k)), Cardinality(Past(k)), faults)
    BY KeyFacts DEF KeyRoom
  <2>3. Room(Aged(fail[k]), l, g, LockAfter(k), Cardinality(Due(k)), Cardinality(Past(k)), faults)
    BY <2>2, KeyFacts, RoomTicks
  <2>4. Due(k)' = Due(k) /\ Past(k)' = Past(k)
    BY <2>1 DEF Due, Past
  <2>5. l \in 0 .. LockFor
    BY KeyFacts, Thresholds
  <2>6. g \in Guesses
    <3>1. \A i \in Age : i # 0 => i - 1 \in Age
      BY Thresholds DEF Age
    <3>2. guesses[k] \in [Age -> Nat]
      BY KeyFacts DEF Guesses
    <3> QED BY <3>1, <3>2 DEF Guesses
  <2>7. Aged(fail[k]) \in Counter
    <3>1. fail[k] \in Counter
      BY KeyFacts
    <3> QED BY <3>1, Thresholds DEF Aged, Counter, NoCounter
  <2> HIDE DEF l, g
  <2> QED BY <2>1, <2>3, <2>4, <2>5, <2>6, <2>7 DEF KeyRoom, LockAfter
<1>2. /\ fail' \in [Key -> Counter] /\ lock' \in [Key -> 0 .. LockFor]
      /\ guesses' \in [Key -> Guesses]
  <2>1. /\ fail' = [k \in Key |-> fail'[k]] /\ lock' = [k \in Key |-> lock'[k]]
        /\ guesses' = [k \in Key |-> guesses'[k]]
    BY DEF Tick
  <2> QED BY <1>1, <2>1
<1>3. att' = att /\ faults' = faults
  BY DEF Tick
<1> QED BY <1>1, <1>2, <1>3 DEF GuardInv, GuardTypes, Counter, Guesses

LEMMA GuardStutters ==
    ASSUME GuardInv, UNCHANGED vars
    PROVE  GuardInv'
<1>1. \A k \in Key : KeyRoom(k)'
  <2>1. ASSUME NEW k \in Key PROVE KeyRoom(k)'
    <3>1. Due(k)' = Due(k) /\ Past(k)' = Past(k)
      BY DEF Due, Past, vars
    <3> QED BY <3>1, KeyFacts DEF KeyRoom, LockAfter, vars
  <2> QED BY <2>1
<1> QED BY <1>1 DEF GuardInv, GuardTypes, vars

LEMMA GuardInit == Init => GuardInv
<1> SUFFICES ASSUME Init PROVE GuardInv
  OBVIOUS
<1>1. GuardTypes /\ \A a \in Attempt : Known(att[a])
  <2>1. NoCounter \in [n : Nat, ttl : 0 .. LockFor] /\ NoGuesses \in [Age -> Nat]
    BY Thresholds DEF NoCounter, NoGuesses
  <2> HIDE DEF Free, NoCounter, NoGuesses
  <2> QED BY <2>1, FreeFacts, Thresholds DEF Init, GuardTypes
<1>2. ASSUME NEW k \in Key PROVE KeyRoom(k)
  <2>1. fail[k] = NoCounter /\ lock[k] = 0 /\ guesses[k] = NoGuesses /\ faults = 0
    BY <1>2 DEF Init
  <2>2. LockAfter(k) \in Nat \ {0, 1}
    BY Thresholds
  <2> QED BY <2>1, <2>2, DueOrPast, RoomReset DEF KeyRoom
<1> QED BY <1>1, <1>2 DEF GuardInv

LEMMA GuardStep == GuardInv /\ [Next]_vars => GuardInv'
<1> SUFFICES ASSUME GuardInv, [Next]_vars PROVE GuardInv'
  OBVIOUS
<1>1. ASSUME NEW a \in Attempt, Step(a) PROVE GuardInv'
  BY <1>1, SubmitStep, CheckLockedStep, GiveUpStep, AuthenticateFailsStep, IncrStep, ExpireStep,
     SetLockStep, LegErrorStep, CancelStep, AuthenticateSucceedsStep, ResetLoginFailuresStep
     DEF Step
<1>2. CASE Tick
  BY <1>2, TickStep
<1>3. CASE UNCHANGED vars
  BY <1>3, GuardStutters
<1> QED BY <1>1, <1>2, <1>3 DEF Next

\* The invariant that carries the others: each key of the lockout leaves room for the
\* attempts that have guessed and are not counted yet.
THEOREM GuardInvHolds == Spec => []GuardInv
<1> QED BY GuardInit, GuardStep, PTL DEF Spec

\* Counters, locks and login attempts stay in their types and ranges.
THEOREM GuardTypeCorrect == Spec => []TypeOK
<1>1. GuardInv => TypeOK
  BY DEF GuardInv, GuardTypes, TypeOK, AttemptRecord
<1> QED BY <1>1, GuardInvHolds, PTL

\* However many attempts FinishLogin serves at once and however they interleave with
\* the INCR, EXPIRE and SET of recordFailure, the wrong guesses that reach the backend
\* within one lifetime of a lock are bounded for every source and for the username.
THEOREM LockoutBounds == Spec => []GuessesBounded
<1>1. ASSUME GuardInv PROVE GuessesBounded
  <2>1. ASSUME NEW k \in Key PROVE guesses[k][LockFor - 1] <= GuessBound(k)
    <3>1. Room(fail[k], lock[k], guesses[k], LockAfter(k), Cardinality(Due(k)), Cardinality(Past(k)), faults)
      BY <1>1, KeyFacts DEF KeyRoom
    <3> QED BY <1>1, <3>1, KeyFacts, RoomBounds DEF GuessBound
  <2> QED BY <2>1 DEF GuessesBounded
<1> QED BY <1>1, GuardInvHolds, PTL
-----------------------------------------------------------------------------
(***************************************************************************)
(* A lock is not renewed for ever.                                          *)
(***************************************************************************)

\* The attempts x that may yet set the lock of k: past its check and not done with it.
CanLock(x, k) ==
    \/ x.pc = "check" /\ x.leg = "user" /\ k = x.src
    \/ x.pc = "auth" /\ k \in {x.src, User}
    \/ x.pc \in {"incr", "expire", "lock"} /\ (k = User \/ (x.leg = "ip" /\ k = x.src))
Lockers(k) == {a \in Attempt : CanLock(att[a], k)}

\* While a key is locked nobody else gets to lock it, and a renewal uses up an attempt.
Renewed(k) ==
    lock[k] > 0 => /\ Lockers(k)' \subseteq Lockers(k)
                   /\ lock'[k] > lock[k] => Lockers(k)' # Lockers(k)
RenewalsRunOut == [][\A k \in Key : Renewed(k)]_vars

\* Attempt a becomes x, and what it does to the lock of k.
LEMMA LockerMoves ==
    ASSUME GuardInv, NEW a \in Attempt, NEW x, att' = [att EXCEPT ![a] = x], NEW k \in Key,
           lock[k] > 0 /\ CanLock(x, k) => CanLock(att[a], k),
           lock'[k] = lock[k] \/ (CanLock(att[a], k) /\ ~CanLock(x, k)) \/ lock'[k] = 0
    PROVE  Renewed(k)
<1>1. att'[a] = x /\ \A b \in Attempt : b # a => att'[b] = att[b]
  BY DEF GuardInv, GuardTypes
<1>2. lock[k] > 0 => Lockers(k)' \subseteq Lockers(k)
  BY <1>1 DEF Lockers
<1>3. CanLock(att[a], k) /\ ~CanLock(x, k) => Lockers(k)' # Lockers(k)
  BY <1>1 DEF Lockers
<1>4. lock[k] \in Nat
  BY KeyFacts, Thresholds
<1>5. (lock[k] > 0 /\ lock'[k] > lock[k]) => Lockers(k)' # Lockers(k)
  BY <1>3, <1>4
<1> QED BY <1>2, <1>5 DEF Renewed

\* The next leg is that of the username, which the attempt was to lock anyway.
LEMMA NextLegLockers ==
    ASSUME GuardInv, NEW a \in Attempt, NextLeg(a), att[a].pc \in {"incr", "expire", "lock", "reset"}
    PROVE  \E x \in AttemptRecord :
              /\ att' = [att EXCEPT ![a] = x]
              /\ \A k \in Key : CanLock(x, k) => CanLock(att[a], k) /\ k # LegKey(a)
<1> DEFINE pc == IF att[a].pc = "reset" THEN "reset" ELSE "incr"
           x == [att[a] EXCEPT !.leg = "user", !.pc = pc, !.count = 0]
<1>1. CASE att[a].leg = "ip"
  <2>1. att' = [att EXCEPT ![a] = x]
    BY <1>1 DEF NextLeg
  <2>2. /\ x \in AttemptRecord /\ x.pc = pc /\ x.leg = "user" /\ x.src = att[a].src
    BY AttemptFacts DEF AttemptRecord
  <2>3. pc \in {"reset", "incr"} /\ (att[a].pc = "reset" => pc = "reset")
    OBVIOUS
  <2> HIDE DEF x, pc
  <2>4. LegKey(a) # User
    BY <1>1, AttemptFacts, Thresholds DEF LegKey
  <2>5. ASSUME NEW k \in Key, CanLock(x, k) PROVE CanLock(att[a], k) /\ k # LegKey(a)
    <3>1. k = User /\ att[a].pc # "reset"
      BY <2>2, <2>3, <2>5 DEF CanLock
    <3> QED BY <2>4, <3>1 DEF CanLock
  <2> QED BY <2>1, <2>2, <2>5
<1>2. CASE att[a].leg # "ip"
  <2>1. att' = [att EXCEPT ![a] = Free]
    BY <1>2 DEF NextLeg
  <2>2. \A k \in Key : ~CanLock(Free, k)
    BY DEF CanLock, Free
  <2> QED BY <2>1, <2>2, FreeFacts
<1> QED BY <1>1, <1>2

LEMMA AttemptRenews ==
    ASSUME GuardInv, NEW a \in Attempt, Step(a), NEW k \in Key
    PROVE  Renewed(k)
<1>0. ~CanLock(Free, k)
  BY DEF CanLock, Free
<1>1. ASSUME NEW s \in Source, Submit(a, s) PROVE Renewed(k)
  <2> DEFINE x == [Free EXCEPT !.pc = "check", !.src = s]
  <2>1. att' = [att EXCEPT ![a] = x] /\ lock' = lock
    BY <1>1 DEF Submit
  <2>2. ~CanLock(x, k)
    BY DEF CanLock, Free
  <2> HIDE DEF x
  <2> QED BY <2>1, <2>2, LockerMoves
<1>2. CASE CheckLocked(a)
  <2>1. att[a].pc = "check" /\ lock' = lock
    BY <1>2 DEF CheckLocked
  <2>2. CASE lock[LegKey(a)] > 0
    <3>1. att' = [att EXCEPT ![a] = Free]
      BY <1>2, <2>2 DEF CheckLocked
    <3> QED BY <1>0, <2>1, <3>1, LockerMoves
  <2>3. CASE ~(lock[LegKey(a)] > 0) /\ att[a].leg = "ip"
    <3> DEFINE x == [att[a] EXCEPT !.leg = "user"]
    <3>1. att' = [att EXCEPT ![a] = x]
      BY <1>2, <2>3 DEF CheckLocked
    <3>2. x.pc = "check" /\ x.leg = "user" /\ x.src = att[a].src
      BY <2>1, AttemptFacts DEF AttemptRecord
    <3> HIDE DEF x
    <3>3. CanLock(x, k) => k = LegKey(a)
      BY <2>3, <3>2 DEF CanLock, LegKey
    <3> QED BY <2>1, <2>3, <3>1, <3>3, LockerMoves
  <2>4. CASE ~(lock[LegKey(a)] > 0) /\ att[a].leg # "ip"
    <3> DEFINE x == [att[a] EXCEPT !.pc = "auth", !.leg = "ip"]
    <3>1. att' = [att EXCEPT ![a] = x]
      BY <1>2, <2>4 DEF CheckLocked
    <3>2. x.pc = "auth" /\ x.leg = "ip" /\ x.src = att[a].src
      BY <2>1, AttemptFacts DEF AttemptRecord
    <3> HIDE DEF x
    <3>3. LegKey(a) = User /\ att[a].leg = "user"
      BY <2>4, AttemptFacts DEF LegKey, AttemptRecord
    <3>4. CanLock(x, k) => k = LegKey(a) \/ CanLock(att[a], k)
      BY <2>1, <3>2, <3>3 DEF CanLock
    <3> QED BY <2>1, <2>4, <3>1, <3>4, LockerMoves
  <2> QED BY <2>2, <2>3, <2>4
<1>3. CASE GiveUp(a)
  <2>1. att' = [att EXCEPT ![a] = Free] /\ lock' = lock
    BY <1>3 DEF GiveUp
  <2> QED BY <1>0, <2>1, LockerMoves
<1>4. CASE AuthenticateFails(a)
  <2> DEFINE x == [att[a] EXCEPT !.pc = "incr"]
  <2>1. att[a].pc = "auth" /\ lock' = lock /\ att' = [att EXCEPT ![a] = x]
    BY <1>4 DEF AuthenticateFails, GuardInv, GuardTypes
  <2>2. x.pc = "incr" /\ x.src = att[a].src /\ x.leg = att[a].leg
    BY AttemptFacts DEF AttemptRecord
  <2> HIDE DEF x
  <2>3. CanLock(x, k) => CanLock(att[a], k)
    BY <2>1, <2>2 DEF CanLock
  <2> QED BY <2>1, <2>3, LockerMoves
<1>5. CASE AuthenticateSucceeds(a)
  <2> DEFINE x == [att[a] EXCEPT !.pc = "reset"]
  <2>1. lock' = lock /\ att' = [att EXCEPT ![a] = x]
    BY <1>5 DEF AuthenticateSucceeds, GuardInv, GuardTypes
  <2>2. x.pc = "reset"
    BY AttemptFacts DEF AttemptRecord
  <2> HIDE DEF x
  <2>3. ~CanLock(x, k)
    BY <2>2 DEF CanLock
  <2> QED BY <2>1, <2>3, LockerMoves
<1>6. ASSUME NextLeg(a), att[a].pc \in {"incr", "expire", "lock", "reset"},
             \/ lock' = lock
             \/ att[a].pc = "lock" /\ lock' = [lock EXCEPT ![LegKey(a)] = LockFor]
             \/ lock' = [lock EXCEPT ![LegKey(a)] = 0]
      PROVE  Renewed(k)
  <2>1. PICK x \in AttemptRecord :
           /\ att' = [att EXCEPT ![a] = x]
           /\ \A j \in Key : CanLock(x, j) => CanLock(att[a], j) /\ j # LegKey(a)
    BY <1>6, NextLegLockers
  <2>2. (k # LegKey(a) \/ lock' = lock) => lock'[k] = lock[k]
    BY <1>6 DEF GuardInv, GuardTypes
  <2>3. k = LegKey(a) => \/ lock'[k] = lock[k]
                         \/ att[a].pc = "lock"
                         \/ lock'[k] = 0
    BY <1>6 DEF GuardInv, GuardTypes
  <2>4. (k = LegKey(a) /\ att[a].pc = "lock") => (CanLock(att[a], k) /\ ~CanLock(x, k))
    BY <2>1 DEF CanLock, LegKey
  <2> QED BY <2>1, <2>2, <2>3, <2>4, LockerMoves
<1>7. CASE Incr(a) /\ ~NextLeg(a)
  <2> DEFINE n == IF fail[LegKey(a)].n < LockAfter(LegKey(a)) THEN fail[LegKey(a)].n + 1
                  ELSE fail[LegKey(a)].n
             pc == IF fail[LegKey(a)].n = 0 THEN "expire" ELSE "lock"
             x == [att[a] EXCEPT !.pc = pc, !.count = n]
  <2>1. att[a].pc = "incr" /\ lock' = lock /\ att' = [att EXCEPT ![a].pc = pc, ![a].count = n]
    BY <1>7 DEF Incr
  <2> HIDE DEF n
  <2>2. att' = [att EXCEPT ![a] = x]
    BY <2>1 DEF GuardInv, GuardTypes
  <2>3. x.pc \in {"expire", "lock"} /\ x.src = att[a].src /\ x.leg = att[a].leg
    BY AttemptFacts DEF AttemptRecord
  <2> HIDE DEF x
  <2>4. CanLock(x, k) => CanLock(att[a], k)
    BY <2>1, <2>3 DEF CanLock
  <2> QED BY <2>1, <2>2, <2>4, LockerMoves
<1>8. CASE Expire(a) /\ ~NextLeg(a)
  <2> DEFINE x == [att[a] EXCEPT !.pc = "lock"]
  <2>1. att[a].pc = "expire" /\ lock' = lock /\ att' = [att EXCEPT ![a].pc = "lock"]
    BY <1>8 DEF Expire
  <2>2. att' = [att EXCEPT ![a] = x]
    BY <2>1 DEF GuardInv, GuardTypes
  <2>3. x.pc = "lock" /\ x.src = att[a].src /\ x.leg = att[a].leg
    BY AttemptFacts DEF AttemptRecord
  <2> HIDE DEF x
  <2>4. CanLock(x, k) => CanLock(att[a], k)
    BY <2>1, <2>3 DEF CanLock
  <2> QED BY <2>1, <2>2, <2>4, LockerMoves
<1>9. CASE (Incr(a) \/ Expire(a)) /\ NextLeg(a)
  <2>1. NextLeg(a) /\ att[a].pc \in {"incr", "expire"} /\ lock' = lock
    BY <1>9 DEF Incr, Expire
  <2> QED BY <1>6, <2>1
<1>10. CASE SetLock(a)
  BY <1>6, <1>10 DEF SetLock
<1>11. CASE LegError(a)
  <2>1. NextLeg(a) /\ att[a].pc \in {"incr", "expire", "lock", "reset"} /\ lock' = lock
    BY <1>11 DEF LegError
  <2> QED BY <1>6, <2>1
<1>12. CASE Cancel(a)
  <2>1. att' = [att EXCEPT ![a] = Free] /\ lock' = lock
    BY <1>12 DEF Cancel
  <2> QED BY <1>0, <2>1, LockerMoves
<1>13. CASE ResetLoginFailures(a)
  BY <1>6, <1>13 DEF ResetLoginFailures
<1> QED BY <1>1, <1>2, <1>3, <1>4, <1>5, <1>7, <1>8, <1>9, <1>10, <1>11, <1>12, <1>13 DEF Step

\* Time renews no lock, and nothing happens to the attempts.
LEMMA TickRenews ==
    ASSUME GuardInv, Tick \/ UNCHANGED vars, NEW k \in Key
    PROVE  Renewed(k)
<1>1. Lockers(k)' = Lockers(k)
  BY DEF Tick, vars, Lockers
<1>2. lock[k] \in Nat
  BY KeyFacts, Thresholds
<1>3. lock[k] > 0 => ~(lock'[k] > lock[k])
  <2>1. lock'[k] = lock[k] \/ lock'[k] = lock[k] - 1 \/ lock'[k] = 0
    BY DEF Tick, vars
  <2> QED BY <1>2, <2>1
<1> QED BY <1>1, <1>3 DEF Renewed

\* While a key is locked no further attempt gets past its check (LoginLocked), and each
\* renewal of the lock (recordFailure) uses up one that was past it: an attempt that is
\* refused never prolongs the lock, and a lock is renewed at most as often as attempts
\* were in flight when it was set.
THEOREM LocksRunOut == Spec => RenewalsRunOut
<1>1. GuardInv /\ [Next]_vars => [\A k \in Key : Renewed(k)]_vars
  <2> SUFFICES ASSUME GuardInv, [Next]_vars, NEW k \in Key PROVE Renewed(k)
    OBVIOUS
  <2> QED BY AttemptRenews, TickRenews DEF Next
<1> QED BY <1>1, GuardInvHolds, PTL DEF Spec, RenewalsRunOut

-----------------------------------------------------------------------------
(***************************************************************************)
(* What RecordLoginFailure says of its counters holds until valkey fails or *)
(* a request is cancelled.                                                  *)
(***************************************************************************)
Expirer(x, k) == x.pc = "expire" /\ SideKey(x) = k
Expires(c, k) == c.n > 0 /\ c.ttl = 0 => \E a \in Attempt : Expirer(att[a], k)
ExpiresUnlessFault == faults = 0 => \A k \in Key : Expires(fail[k], k)

\* Attempt a becomes x, and is about to give k its TTL still if it was before.
LEMMA ExpirerStays ==
    ASSUME GuardInv, NEW a \in Attempt, NEW x, att' = [att EXCEPT ![a] = x], NEW k \in Key,
           Expires(fail[k], k), Expirer(att[a], k) => Expirer(x, k), fail'[k] = fail[k]
    PROVE  Expires(fail[k], k)'
<1>1. att'[a] = x /\ \A b \in Attempt : b # a => att'[b] = att[b]
  BY DEF GuardInv, GuardTypes
<1> QED BY <1>1 DEF Expires

\* Attempt a becomes x, which was not about to give any key its TTL; no counter changes.
LEMMA CountersStay ==
    ASSUME GuardInv, ExpiresUnlessFault, NEW a \in Attempt, NEW x,
           att' = [att EXCEPT ![a] = x], att[a].pc # "expire", UNCHANGED <<fail, faults>>
    PROVE  ExpiresUnlessFault'
<1>1. ASSUME faults' = 0, NEW k \in Key PROVE Expires(fail[k], k)'
  <2>1. Expires(fail[k], k) /\ fail'[k] = fail[k] /\ ~Expirer(att[a], k)
    BY <1>1 DEF ExpiresUnlessFault, Expirer
  <2> QED BY <2>1, ExpirerStays
<1> QED BY <1>1 DEF ExpiresUnlessFault

LEMMA IncrExpires ==
    ASSUME GuardInv, ExpiresUnlessFault, NEW a \in Attempt, Incr(a)
    PROVE  ExpiresUnlessFault'
<1> DEFINE k == LegKey(a)
           n == IF fail[k].n < LockAfter(k) THEN fail[k].n + 1 ELSE fail[k].n
           pc == IF fail[k].n = 0 THEN "expire" ELSE "lock"
           y == [att[a] EXCEPT !.pc = pc, !.count = n]
<1>1. /\ att[a].pc = "incr" /\ fail' = [fail EXCEPT ![k].n = n] /\ faults' = faults
      /\ k \in Key /\ fail[k] \in Counter /\ LockAfter(k) \in Nat \ {0, 1}
  BY AttemptFacts, KeyFacts DEF Incr
<1>2. /\ \A j \in Key : j # k => fail'[j] = fail[j]
      /\ fail'[k].ttl = fail[k].ttl
  BY <1>1 DEF GuardInv, GuardTypes, Counter
<1>3. fail[k].n = 0 => n = 1
  BY <1>1 DEF Counter
<1>4. n = 1 \/ n >= LockAfter(k) => att' = [att EXCEPT ![a] = y]
  <2>1. n = 1 \/ n >= LockAfter(k) => att' = [att EXCEPT ![a].pc = pc, ![a].count = n]
    BY DEF Incr
  <2> QED BY <2>1 DEF GuardInv, GuardTypes
<1>5. y.pc = pc /\ SideKey(y) = k
  BY AttemptFacts DEF AttemptRecord, SideKey
<1>6. \E x : att' = [att EXCEPT ![a] = x] /\ (fail[k].n = 0 => Expirer(x, k))
  <2>1. CASE n = 1 \/ n >= LockAfter(k)
    BY <1>4, <1>5, <2>1 DEF Expirer
  <2>2. CASE ~(n = 1 \/ n >= LockAfter(k))
    <3>1. NextLeg(a)
      BY <2>2 DEF Incr
    <3>2. PICK x \in AttemptRecord : att' = [att EXCEPT ![a] = x]
      BY <1>1, <3>1, NextLegFacts
    <3> QED BY <1>3, <2>2, <3>2
  <2> QED BY <2>1, <2>2
<1> HIDE DEF n, pc, y
<1>7. PICK x : att' = [att EXCEPT ![a] = x] /\ (fail[k].n = 0 => Expirer(x, k))
  BY <1>6
<1>8. ASSUME faults' = 0, NEW j \in Key PROVE Expires(fail[j], j)'
  <2>1. Expires(fail[j], j) /\ ~Expirer(att[a], j)
    BY <1>1, <1>8 DEF ExpiresUnlessFault, Expirer
  <2>2. CASE j # k
    BY <1>2, <1>7, <2>1, <2>2, ExpirerStays
  <2>3. CASE j = k /\ fail[k].n = 0
    <3>1. att'[a] = x
      BY <1>7 DEF GuardInv, GuardTypes
    <3> QED BY <1>7, <2>3, <3>1 DEF Expires
  <2>4. CASE j = k /\ fail[k].n # 0
    <3>1. fail[k].n > 0 /\ fail'[k].ttl = fail[k].ttl
      BY <1>1, <1>2, <2>4 DEF Counter
    <3>2. \A b \in Attempt : Expirer(att[b], k) => att'[b] = att[b]
      BY <1>1, <1>7 DEF Expirer, GuardInv, GuardTypes
    <3> QED BY <2>1, <2>4, <3>1, <3>2 DEF Expires
  <2> QED BY <2>2, <2>3, <2>4
<1> QED BY <1>8 DEF ExpiresUnlessFault

LEMMA ExpireExpires ==
    ASSUME GuardInv, ExpiresUnlessFault, NEW a \in Attempt, Expire(a)
    PROVE  ExpiresUnlessFault'
<1> DEFINE k == LegKey(a)
<1>1. /\ att[a].pc = "expire" /\ faults' = faults
      /\ fail' = [fail EXCEPT ![k].ttl = IF fail[k].n = 0 THEN 0 ELSE LockFor]
      /\ k \in Key /\ fail[k] \in Counter
  BY AttemptFacts, KeyFacts DEF Expire
<1>2. \A j \in Key : j # k => fail'[j] = fail[j]
  BY <1>1 DEF GuardInv, GuardTypes
<1>3. fail'[k].n = fail[k].n /\ fail'[k].ttl = IF fail[k].n = 0 THEN 0 ELSE LockFor
  BY <1>1 DEF GuardInv, GuardTypes, Counter
<1>4. PICK x : att' = [att EXCEPT ![a] = x]
  <2>1. CASE att[a].count >= LockAfter(k)
    <3>1. att' = [att EXCEPT ![a].pc = "lock"]
      BY <2>1 DEF Expire
    <3>2. att' = [att EXCEPT ![a] = [att[a] EXCEPT !.pc = "lock"]]
      BY <3>1 DEF GuardInv, GuardTypes
    <3> QED BY <3>2
  <2>2. CASE ~(att[a].count >= LockAfter(k))
    <3>1. NextLeg(a)
      BY <2>2 DEF Expire
    <3> QED BY <1>1, <3>1, NextLegFacts
  <2> QED BY <2>1, <2>2
<1>5. ASSUME faults' = 0, NEW j \in Key PROVE Expires(fail[j], j)'
  <2>1. Expires(fail[j], j)
    BY <1>1, <1>5 DEF ExpiresUnlessFault
  <2>2. CASE j # k
    <3>1. ~Expirer(att[a], j)
      BY <2>2, AttemptFacts DEF Expirer
    <3> QED BY <1>2, <1>4, <2>1, <2>2, <3>1, ExpirerStays
  <2>3. CASE j = k
    <3>1. fail[k].n \in Nat /\ LockFor > 0
      BY <1>1, Thresholds DEF Counter
    <3>2. ~(fail'[k].n > 0 /\ fail'[k].ttl = 0)
      BY <1>3, <3>1
    <3> QED BY <2>3, <3>2 DEF Expires
  <2> QED BY <2>2, <2>3
<1> HIDE DEF k
<1> QED BY <1>5 DEF ExpiresUnlessFault

LEMMA ResetExpires ==
    ASSUME GuardInv, ExpiresUnlessFault, NEW a \in Attempt, ResetLoginFailures(a)
    PROVE  ExpiresUnlessFault'
<1>1. /\ att[a].pc = "reset" /\ faults' = faults /\ fail' = [fail EXCEPT ![LegKey(a)] = NoCounter]
      /\ NextLeg(a)
  BY DEF ResetLoginFailures
<1>2. PICK x \in AttemptRecord : att' = [att EXCEPT ![a] = x]
  BY <1>1, NextLegFacts
<1>3. ASSUME faults' = 0, NEW j \in Key PROVE Expires(fail[j], j)'
  <2>1. Expires(fail[j], j) /\ ~Expirer(att[a], j)
    BY <1>1, <1>3 DEF ExpiresUnlessFault, Expirer
  <2>2. CASE j # LegKey(a)
    <3>1. fail'[j] = fail[j]
      BY <1>1, <2>2 DEF GuardInv, GuardTypes
    <3> QED BY <1>2, <2>1, <3>1, ExpirerStays
  <2>3. CASE j = LegKey(a)
    <3>1. fail'[j].n = 0
      BY <1>1, <2>3 DEF NoCounter, GuardInv, GuardTypes
    <3> QED BY <3>1 DEF Expires
  <2> QED BY <2>2, <2>3
<1> QED BY <1>3 DEF ExpiresUnlessFault

LEMMA TickExpires ==
    ASSUME GuardInv, ExpiresUnlessFault, Tick
    PROVE  ExpiresUnlessFault'
<1>1. att' = att /\ faults' = faults /\ fail' = [k \in Key |-> Aged(fail[k])]
  BY DEF Tick
<1>2. ASSUME faults' = 0, NEW j \in Key PROVE Expires(fail[j], j)'
  <2>1. Expires(fail[j], j) /\ fail[j] \in Counter /\ fail'[j] = Aged(fail[j])
    BY <1>1, <1>2, KeyFacts DEF ExpiresUnlessFault
  <2>2. (fail'[j].n > 0 /\ fail'[j].ttl = 0) => (fail[j].n > 0 /\ fail[j].ttl = 0)
    <3>1. /\ fail[j].ttl = 1 => fail'[j].n = 0
          /\ fail[j].ttl > 1 => fail'[j].ttl = fail[j].ttl - 1
          /\ fail[j].ttl = 0 => fail'[j] = fail[j]
      BY <2>1, Thresholds DEF Aged, NoCounter, Counter
    <3>2. fail[j].ttl \in Nat
      BY <2>1, Thresholds DEF Counter
    <3> QED BY <3>1, <3>2
  <2> QED BY <1>1, <2>1, <2>2 DEF Expires
<1> QED BY <1>2 DEF ExpiresUnlessFault

LEMMA StepExpires ==
    ASSUME GuardInv, ExpiresUnlessFault, NEW a \in Attempt, Step(a)
    PROVE  ExpiresUnlessFault'
<1>1. ASSUME NEW s \in Source, Submit(a, s) PROVE ExpiresUnlessFault'
  <2>1. /\ att[a].pc # "expire" /\ UNCHANGED <<fail, faults>>
        /\ att' = [att EXCEPT ![a] = [Free EXCEPT !.pc = "check", !.src = s]]
    BY <1>1 DEF Submit
  <2> QED BY <2>1, CountersStay
<1>2. CASE CheckLocked(a)
  <2>1. /\ att[a].pc # "expire" /\ UNCHANGED <<fail, faults>>
        /\ att' = [att EXCEPT ![a] =
                     IF lock[LegKey(a)] > 0 THEN Free
                     ELSE IF att[a].leg = "ip" THEN [att[a] EXCEPT !.leg = "user"]
                     ELSE [att[a] EXCEPT !.pc = "auth", !.leg = "ip"]]
    BY <1>2 DEF CheckLocked
  <2> QED BY <2>1, CountersStay
<1>3. CASE GiveUp(a)
  <2>1. att[a].pc # "expire" /\ UNCHANGED <<fail, faults>> /\ att' = [att EXCEPT ![a] = Free]
    BY <1>3 DEF GiveUp
  <2> QED BY <2>1, CountersStay
<1>4. CASE AuthenticateFails(a) \/ AuthenticateSucceeds(a)
  <2>1. PICK pc : att' = [att EXCEPT ![a].pc = pc]
    BY <1>4 DEF AuthenticateFails, AuthenticateSucceeds
  <2>2. att' = [att EXCEPT ![a] = [att[a] EXCEPT !.pc = pc]]
    BY <2>1 DEF GuardInv, GuardTypes
  <2>3. att[a].pc # "expire" /\ UNCHANGED <<fail, faults>>
    BY <1>4 DEF AuthenticateFails, AuthenticateSucceeds
  <2> QED BY <2>2, <2>3, CountersStay
<1>5. CASE SetLock(a)
  <2>1. att[a].pc = "lock" /\ UNCHANGED <<fail, faults>> /\ NextLeg(a)
    BY <1>5 DEF SetLock
  <2>2. PICK x \in AttemptRecord : att' = [att EXCEPT ![a] = x]
    BY <2>1, NextLegFacts
  <2> QED BY <2>1, <2>2, CountersStay
<1>6. CASE LegError(a) \/ Cancel(a)
  <2>1. faults' = faults + 1 /\ faults \in Nat
    BY <1>6, Thresholds DEF LegError, Cancel, GuardInv, GuardTypes
  <2> QED BY <2>1 DEF ExpiresUnlessFault
<1> QED BY <1>1, <1>2, <1>3, <1>4, <1>5, <1>6, IncrExpires, ExpireExpires, ResetExpires DEF Step

\* Without a valkey error or a cancelled request, every failure counter has a TTL or an
\* attempt that is about to give it one, however many requests share the counter, reset
\* it or let it expire in between (RecordLoginFailure).  CounterExpires without this
\* proviso does not hold.
THEOREM CountersExpireUnlessFault == Spec => [](faults = 0 => CounterExpires)
<1>1. Init => ExpiresUnlessFault
  BY DEF Init, ExpiresUnlessFault, Expires, NoCounter
<1>2. GuardInv /\ ExpiresUnlessFault /\ [Next]_vars => ExpiresUnlessFault'
  <2> SUFFICES ASSUME GuardInv, ExpiresUnlessFault, [Next]_vars PROVE ExpiresUnlessFault'
    OBVIOUS
  <2>1. CASE UNCHANGED vars
    BY <2>1 DEF vars, ExpiresUnlessFault, Expires
  <2> QED BY <2>1, StepExpires, TickExpires DEF Next
<1>3. ExpiresUnlessFault => (faults = 0 => CounterExpires)
  BY DEF ExpiresUnlessFault, Expires, Expirer, SideKey, CounterExpires, LegKey
<1> QED BY <1>1, <1>2, <1>3, GuardInvHolds, PTL DEF Spec
=============================================================================
