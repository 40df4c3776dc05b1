-------------------------- MODULE RateLimitProofs --------------------------
(***************************************************************************)
(* How far the limits can be passed, for any limits and any number of      *)
(* concurrent requests, windows and outages. A request is armed for a      *)
(* bucket from the check it passed there until it is counted there: what a *)
(* bucket holds and what is still coming to it stay under one bound        *)
(* together.                                                               *)
(***************************************************************************)
EXTENDS RateLimit, FiniteSetTheorems, TLAPS

-----------------------------------------------------------------------------
(* Arithmetic of the bound.                                                *)

\* What a bucket with limit bl may come to, with n slots, units of u, and k more
\* requests that outages let through.
Room(bl, n, k, u) == bl + (n - 1 + k) * u

LEMMA Times ==
    ASSUME NEW a \in Nat, NEW b \in Nat, NEW u \in Nat
    PROVE  /\ a * u \in Nat /\ (a + 1) * u = a * u + u
           /\ a <= b => a * u <= b * u
           /\ (a + b) * u = a * u + b * u
OBVIOUS

LEMMA RoomIs ==
    ASSUME NEW bl \in Nat, NEW n \in Nat \ {0}, NEW k \in Nat, NEW u \in Nat
    PROVE  /\ Room(bl, n, k, u) \in Nat
           /\ Room(bl, n, k, u) + u = bl + n * u + k * u
<1>1. PICK m \in Nat : n = m + 1
  <2>1. n - 1 \in Nat /\ n = (n - 1) + 1
    OBVIOUS
  <2> QED BY <2>1
<1>2. n - 1 + k = m + k /\ m + k \in Nat
  BY <1>1
<1>3. (m + k) * u = m * u + k * u /\ m * u \in Nat /\ k * u \in Nat
  BY <1>1, Times
<1>4. n * u = m * u + u
  BY <1>1, Times
<1> QED BY <1>2, <1>3, <1>4 DEF Room

\* A check that passes arms its slot.
LEMMA RoomArmed ==
    ASSUME NEW bl \in Nat, NEW n \in Nat \ {0}, NEW k \in Nat, NEW u \in Nat,
           NEW live \in Nat, NEW a \in Nat, live + u <= bl, a <= n
    PROVE  live + a * u <= Room(bl, n, k, u)
<1>1. a * u \in Nat /\ n * u \in Nat /\ k * u \in Nat /\ a * u <= n * u
  BY Times
<1>2. Room(bl, n, k, u) \in Nat /\ Room(bl, n, k, u) + u = bl + n * u + k * u
  BY RoomIs
<1> DEFINE x == a * u  y == n * u  z == k * u  r == Room(bl, n, k, u)
<1> HIDE DEF x, y, z, r
<1>3. x \in Nat /\ y \in Nat /\ z \in Nat /\ x <= y /\ r \in Nat /\ r + u = bl + y + z
  BY <1>1, <1>2 DEF x, y, z, r
<1>4. live + x <= r
  BY <1>3
<1> QED BY <1>4 DEF x, r

\* A record counts at most a unit and disarms its slot.
LEMMA RoomRecorded ==
    ASSUME NEW r \in Nat, NEW u \in Nat, NEW live \in Nat, NEW live2 \in Nat,
           NEW a \in Nat, NEW b \in Nat, live + a * u <= r, live2 <= live + u, b + 1 <= a
    PROVE  live2 + b * u <= r
<1>1. (b + 1) * u = b * u + u /\ (b + 1) * u <= a * u /\ a * u \in Nat /\ b * u \in Nat
  BY Times
<1> DEFINE x == a * u  y == b * u
<1> HIDE DEF x, y
<1>2. x \in Nat /\ y \in Nat /\ y + u <= x /\ live + x <= r
  BY <1>1 DEF x, y
<1>3. live2 + y <= r
  BY <1>2
<1> QED BY <1>3 DEF y

\* A window that ends.
LEMMA RoomRolled ==
    ASSUME NEW bl \in Nat, NEW n \in Nat \ {0}, NEW k \in Nat, NEW u \in Nat,
           NEW a \in Nat, a <= n, a = 0 \/ u <= bl
    PROVE  a * u <= Room(bl, n, k, u)
<1>1. CASE a = 0
  <2>1. a * u = 0
    BY <1>1
  <2>2. Room(bl, n, k, u) \in Nat
    BY RoomIs
  <2> QED BY <2>1, <2>2
<1>2. CASE u <= bl
  <2>1. 0 + u <= bl
    BY <1>2
  <2>2. 0 + a * u <= Room(bl, n, k, u)
    BY <2>1, RoomArmed
  <2>3. a * u \in Nat
    BY Times
  <2> QED BY <2>2, <2>3
<1> QED BY <1>1, <1>2

\* A loss of the store makes room for every slot.
LEMMA RoomLost ==
    ASSUME NEW bl \in Nat, NEW n \in Nat \ {0}, NEW k \in Nat, NEW u \in Nat
    PROVE  /\ Room(bl, n, k + n, u) = Room(bl, n, k, u) + n * u
           /\ n * u <= Room(bl, n, k + n, u)
<1>1. (k + n) * u = k * u + n * u /\ k * u \in Nat /\ n * u \in Nat /\ k + n \in Nat
  BY Times
<1> DEFINE a == Room(bl, n, k + n, u)  b == Room(bl, n, k, u)
<1>2. a \in Nat /\ a + u = bl + n * u + (k + n) * u
  BY <1>1, RoomIs
<1>3. b \in Nat /\ b + u = bl + n * u + k * u
  BY RoomIs
<1> HIDE DEF a, b
<1> DEFINE x == k * u  y == n * u
<1> HIDE DEF x, y
<1>4. /\ x \in Nat /\ y \in Nat /\ a + u = bl + y + (x + y) /\ b + u = bl + y + x
  BY <1>1, <1>2, <1>3 DEF x, y
<1>5. a = b + y /\ y <= a
  BY <1>2, <1>3, <1>4
<1> QED BY <1>5 DEF a, b, y

Widened(bl, n, k, u) == Room(bl, n, k + n, u) = Room(bl, n, k, u) + n * u
LEMMA RoomWidened ==
    ASSUME NEW bl \in Nat, NEW n \in Nat \ {0}, NEW k \in Nat, NEW u \in Nat
    PROVE  Widened(bl, n, k, u)
BY RoomLost DEF Widened

-----------------------------------------------------------------------------
(* A request, and the lists of buckets it goes through.                    *)

Kinds == {"none", "verify", "settle"}
SlotRec == [at : {"idle", "check", "work", "record"}, kind : Kinds, i : 0..3,
            ok : BOOLEAN, fee : 0..MaxFee]
SlotOk(r) ==
    /\ r \in SlotRec
    /\ r.at = "check" => r.kind # "none" /\ r.i \in 1..Len(Checks(r.kind))
    /\ r.at = "work" => r.kind # "none"
    /\ r.at = "record" => r.kind # "none" /\ r.i \in 1..Len(Records(r.kind, r.fee))
    /\ r.kind # "settle" => r.fee = 0

\* Where a bucket stands in those lists, and whose lists it is in.
Place(b) == IF b = "fee" THEN 3 ELSE IF b = "day" THEN 2 ELSE 1
Uses(kind, b) == IF kind = "verify" THEN b = "verify" ELSE kind = "settle" /\ b # "verify"

\* A request that passed the check of b and has not been counted there.
ArmedAt(r, b) ==
    /\ Uses(r.kind, b)
    /\ \/ r.at = "check" /\ r.ok /\ Place(b) < r.i
       \/ r.at = "work"
       \/ r.at = "record" /\ r.i <= Place(b) /\ (b = "fee" => r.fee > 0)

LEMMA ListsAre ==
    /\ Checks("verify") = <<"verify">> /\ Checks("settle") = <<"minute", "day", "fee">>
    /\ Records("verify", 0) = <<"verify">> /\ Records("settle", 0) = <<"minute", "day">>
    /\ \A fee \in Nat : fee > 0 => Records("settle", fee) = <<"minute", "day", "fee">>
<1>1. ASSUME NEW fee \in Nat, fee > 0  PROVE Records("settle", fee) = <<"minute", "day", "fee">>
  <2>1. Records("settle", fee) = <<"minute", "day">> \o <<"fee">>
    BY <1>1 DEF Records
  <2> QED BY <2>1
<1>2. Records("settle", 0) = <<"minute", "day">> \o <<>>
  BY DEF Records
<1> QED BY <1>1, <1>2 DEF Checks, Records

\* The bucket of the check a request is at.
LEMMA CheckList ==
    ASSUME NEW r, SlotOk(r), r.at = "check"
    PROVE  /\ r.kind \in {"verify", "settle"} /\ r.i \in 1..3
           /\ Checks(r.kind)[r.i] \in Bucket
           /\ Place(Checks(r.kind)[r.i]) = r.i /\ Uses(r.kind, Checks(r.kind)[r.i])
           /\ Len(Checks(r.kind)) = IF r.kind = "verify" THEN 1 ELSE 3
           /\ \A b \in Bucket : Uses(r.kind, b) /\ Place(b) = r.i => b = Checks(r.kind)[r.i]
           /\ r.i <= Len(Checks(r.kind))
<1>1. r.kind \in {"verify", "settle"}
  BY DEF SlotOk, SlotRec, Kinds
<1>2. CASE r.kind = "verify"
  <2>0. Checks(r.kind) = <<"verify">>
    BY <1>2, ListsAre
  <2>1. Len(Checks(r.kind)) = 1 /\ r.i = 1 /\ Checks(r.kind)[1] = "verify"
    BY <2>0 DEF SlotOk
  <2> QED BY <1>2, <2>1 DEF Bucket, Place, Uses
<1>3. CASE r.kind = "settle"
  <2>0. Checks(r.kind) = <<"minute", "day", "fee">>
    BY <1>3, ListsAre
  <2>1. /\ Len(Checks(r.kind)) = 3 /\ r.i \in 1..3 /\ Checks(r.kind)[1] = "minute"
        /\ Checks(r.kind)[2] = "day" /\ Checks(r.kind)[3] = "fee"
    BY <2>0 DEF SlotOk
  <2>a. CASE r.i = 1
    BY <1>3, <2>1, <2>a DEF Bucket, Place, Uses
  <2>b. CASE r.i = 2
    BY <1>3, <2>1, <2>b DEF Bucket, Place, Uses
  <2>c. CASE r.i = 3
    BY <1>3, <2>1, <2>c DEF Bucket, Place, Uses
  <2> QED BY <2>1, <2>a, <2>b, <2>c
<1> QED BY <1>1, <1>2, <1>3

\* The bucket of the record a request is at.
LEMMA RecordList ==
    ASSUME NEW r, SlotOk(r), r.at = "record"
    PROVE  LET c == Records(r.kind, r.fee)[r.i]  n == Len(Records(r.kind, r.fee)) IN
           /\ r.kind \in {"verify", "settle"} /\ r.i \in 1..3 /\ r.i <= n
           /\ n = IF r.kind = "verify" THEN 1 ELSE IF r.fee > 0 THEN 3 ELSE 2
           /\ c \in Bucket /\ Place(c) = r.i /\ Uses(r.kind, c)
           /\ (c = "fee" => r.fee > 0)
           /\ \A b \in Bucket : Uses(r.kind, b) /\ Place(b) = r.i => b = c
<1> DEFINE list == Records(r.kind, r.fee)  c == list[r.i]  n == Len(list)
<1>1. r.kind \in {"verify", "settle"} /\ r.fee \in 0..MaxFee /\ MaxFee \in Nat
  BY RateAssumption DEF SlotOk, SlotRec, Kinds
<1>i. r.i \in 1..n
  BY DEF SlotOk
<1> SUFFICES /\ r.i \in 1..3 /\ r.i <= n
             /\ n = (IF r.kind = "verify" THEN 1 ELSE IF r.fee > 0 THEN 3 ELSE 2)
             /\ c \in Bucket /\ Place(c) = r.i /\ Uses(r.kind, c)
             /\ (c = "fee" => r.fee > 0)
             /\ \A b \in Bucket : Uses(r.kind, b) /\ Place(b) = r.i => b = c
  BY <1>1
<1>2. CASE r.kind = "verify"
  <2>1. r.fee = 0
    BY <1>2 DEF SlotOk
  <2>2. list = <<"verify">>
    BY <1>2, <2>1, ListsAre
  <2> HIDE DEF list
  <2>3. n = 1 /\ r.i = 1 /\ c = "verify"
    BY <2>2, <1>i
  <2> HIDE DEF c, n
  <2> QED BY <1>2, <2>3 DEF Bucket, Place, Uses
<1>3. CASE r.kind = "settle" /\ r.fee = 0
  <2>1. list = <<"minute", "day">>
    BY <1>3, ListsAre
  <2> HIDE DEF list
  <2>2. n = 2 /\ ((r.i = 1 /\ c = "minute") \/ (r.i = 2 /\ c = "day"))
    BY <2>1, <1>i
  <2> HIDE DEF c, n
  <2> QED BY <1>3, <2>2 DEF Bucket, Place, Uses
<1>4. CASE r.kind = "settle" /\ r.fee > 0
  <2>1. list = <<"minute", "day", "fee">>
    BY <1>1, <1>4, ListsAre
  <2> HIDE DEF list
  <2>2. n = 3 /\ ((r.i = 1 /\ c = "minute") \/ (r.i = 2 /\ c = "day") \/ (r.i = 3 /\ c = "fee"))
    BY <2>1, <1>i
  <2> HIDE DEF c, n
  <2> QED BY <1>4, <2>2 DEF Bucket, Place, Uses
<1> QED BY <1>1, <1>2, <1>3, <1>4

-----------------------------------------------------------------------------
(* What a step of a request does to its own record. *)

Checked(r, ok) ==
    CASE r.i < Len(Checks(r.kind)) /\ (r.i < 2 \/ ok) -> [r EXCEPT !.i = @ + 1, !.ok = ok]
      [] r.i = Len(Checks(r.kind)) /\ ok -> [r EXCEPT !.at = "work"]
      [] OTHER -> IdleSlot
Paid(r, fee) == [r EXCEPT !.at = "record", !.i = 1, !.fee = fee]
Recorded(r) == IF r.i < Len(Records(r.kind, r.fee)) THEN [r EXCEPT !.i = @ + 1] ELSE IdleSlot
Asked(kind) == [IdleSlot EXCEPT !.at = "check", !.kind = kind, !.i = 1]

LEMMA IdleOk == SlotOk(IdleSlot) /\ \A b \in Bucket : ~ArmedAt(IdleSlot, b)
<1>1. IdleSlot \in SlotRec
  BY RateAssumption DEF IdleSlot, SlotRec, Kinds
<1>2. IdleSlot.at = "idle" /\ IdleSlot.kind = "none" /\ IdleSlot.fee = 0
  BY DEF IdleSlot
<1> QED BY <1>1, <1>2 DEF SlotOk, ArmedAt, Uses

LEMMA AskedOk ==
    ASSUME NEW kind \in {"verify", "settle"}
    PROVE  SlotOk(Asked(kind)) /\ \A b \in Bucket : ~ArmedAt(Asked(kind), b)
<1> DEFINE q == Asked(kind)
<1>1. q \in SlotRec
  <2>1. IdleSlot \in SlotRec
    BY IdleOk DEF SlotOk
  <2>2. kind \in Kinds /\ 1 \in 0..3
    BY DEF Kinds
  <2> QED BY <2>1, <2>2 DEF SlotRec, Asked
<1>2. q.at = "check" /\ q.kind = kind /\ q.i = 1 /\ q.fee = 0
  BY DEF Asked, IdleSlot
<1>3. 1 \in 1..Len(Checks(kind))
  BY DEF Checks
<1> HIDE DEF q
<1> QED BY <1>1, <1>2, <1>3 DEF SlotOk, ArmedAt, Uses, Place, q

\* A check arms its request for one bucket, and only if it allows it.
LEMMA CheckedOk ==
    ASSUME NEW r, SlotOk(r), r.at = "check", NEW al \in BOOLEAN
    PROVE  LET q == Checked(r, r.ok /\ al)  c == Checks(r.kind)[r.i] IN
           /\ SlotOk(q) /\ q.at # "record"
           /\ \A b \in Bucket : ArmedAt(q, b) => ArmedAt(r, b) \/ (b = c /\ al)
           /\ q.at = "work" => al
<1> DEFINE ok == r.ok /\ al  q == Checked(r, ok)  n == Len(Checks(r.kind))
<1>0. /\ r \in SlotRec /\ r.kind \in {"verify", "settle"} /\ r.i \in 1..3 /\ r.i <= n
      /\ n = (IF r.kind = "verify" THEN 1 ELSE 3) /\ r.ok \in BOOLEAN /\ ok \in BOOLEAN
      /\ r.kind # "settle" => r.fee = 0
  BY CheckList DEF SlotOk, SlotRec
<1>c. \A b \in Bucket : Uses(r.kind, b) /\ Place(b) = r.i => b = Checks(r.kind)[r.i]
  BY CheckList
<1>p. \A b \in Bucket : Place(b) \in 1..3 /\ (Uses(r.kind, b) => Place(b) <= n)
  BY <1>0 DEF Place, Uses, Bucket
<1> HIDE DEF ok
<1>1. CASE r.i < n /\ (r.i < 2 \/ ok)
  <2>0. q = [r EXCEPT !.i = r.i + 1, !.ok = ok]
    BY <1>1 DEF Checked
  <2>a. r.i + 1 \in 0..3 /\ r.i + 1 \in 1..n
    BY <1>0, <1>1
  <2>1. q \in SlotRec
    BY <2>0, <2>a, <1>0 DEF SlotRec
  <2>2. q.at = "check" /\ q.kind = r.kind /\ q.i = r.i + 1 /\ q.ok = ok /\ q.fee = r.fee
    BY <2>0, <1>0 DEF SlotRec
  <2> HIDE DEF q
  <2>3. SlotOk(q)
    BY <2>1, <2>2, <2>a, <1>0 DEF SlotOk
  <2>4. ASSUME NEW b \in Bucket, ArmedAt(q, b)  PROVE ArmedAt(r, b) \/ (b = Checks(r.kind)[r.i] /\ al)
    <3>1. Uses(r.kind, b) /\ ok /\ Place(b) < r.i + 1
      BY <2>2, <2>4 DEF ArmedAt
    <3>2. r.ok /\ al
      BY <3>1 DEF ok
    <3>3. Place(b) < r.i \/ Place(b) = r.i
      BY <3>1, <1>p, <1>0
    <3> QED BY <3>1, <3>2, <3>3, <1>c DEF ArmedAt
  <2> QED BY <2>2, <2>3, <2>4 DEF q, ok
<1>2. CASE ~(r.i < n /\ (r.i < 2 \/ ok)) /\ r.i = n /\ ok
  <2>0. q = [r EXCEPT !.at = "work"]
    BY <1>2 DEF Checked
  <2>1. q \in SlotRec
    BY <2>0, <1>0 DEF SlotRec
  <2>2. q.at = "work" /\ q.kind = r.kind /\ q.fee = r.fee
    BY <2>0, <1>0 DEF SlotRec
  <2> HIDE DEF q
  <2>3. SlotOk(q)
    BY <2>1, <2>2, <1>0 DEF SlotOk
  <2>b. r.ok /\ al
    BY <1>2 DEF ok
  <2>4. ASSUME NEW b \in Bucket, ArmedAt(q, b)  PROVE ArmedAt(r, b) \/ (b = Checks(r.kind)[r.i] /\ al)
    <3>1. Uses(r.kind, b)
      BY <2>2, <2>4 DEF ArmedAt
    <3>3. Place(b) < r.i \/ Place(b) = r.i
      BY <3>1, <1>p, <1>0, <1>2
    <3> QED BY <3>1, <2>b, <3>3, <1>c DEF ArmedAt
  <2> QED BY <2>2, <2>3, <2>4, <2>b DEF q, ok
<1>3. CASE ~(r.i < n /\ (r.i < 2 \/ ok)) /\ ~(r.i = n /\ ok)
  <2>1. q = IdleSlot
    BY <1>3 DEF Checked
  <2>2. IdleSlot.at = "idle"
    BY DEF IdleSlot
  <2> QED BY <2>1, <2>2, IdleOk DEF ok
<1> QED BY <1>1, <1>2, <1>3

\* The work between arms it for nothing more.
LEMMA PaidOk ==
    ASSUME NEW r, SlotOk(r), r.at = "work",
           NEW fee \in (IF r.kind = "settle" THEN 0..MaxFee ELSE {0})
    PROVE  LET q == Paid(r, fee) IN
           /\ SlotOk(q) /\ q.at = "record" /\ q.fee = fee
           /\ \A b \in Bucket : ArmedAt(q, b) => ArmedAt(r, b)
<1> DEFINE q == Paid(r, fee)
<1>0. /\ r \in SlotRec /\ r.kind \in {"verify", "settle"} /\ fee \in 0..MaxFee
      /\ r.kind # "settle" => fee = 0
  BY RateAssumption DEF SlotOk, SlotRec, Kinds
<1>1. q \in SlotRec
  <2>1. 1 \in 0..3 /\ "record" \in {"idle", "check", "work", "record"}
    OBVIOUS
  <2> QED BY <1>0, <2>1 DEF SlotRec, Paid
<1>2. q.at = "record" /\ q.kind = r.kind /\ q.fee = fee /\ q.i = 1
  BY <1>0 DEF SlotRec, Paid
<1>3. 1 \in 1..Len(Records(r.kind, fee))
  <2>1. MaxFee \in Nat
    BY RateAssumption
  <2>2. CASE r.kind = "verify"
    BY <2>2 DEF Records
  <2>3. CASE r.kind = "settle" /\ fee = 0
    <3>1. Records(r.kind, fee) = <<"minute", "day">>
      BY <2>3, ListsAre
    <3> QED BY <3>1
  <2>4. CASE r.kind = "settle" /\ fee > 0
    <3>1. Records(r.kind, fee) = <<"minute", "day", "fee">>
      BY <1>0, <2>1, <2>4, ListsAre
    <3> QED BY <3>1
  <2> QED BY <1>0, <2>1, <2>2, <2>3, <2>4
<1> HIDE DEF q
<1>4. SlotOk(q)
  BY <1>0, <1>1, <1>2, <1>3 DEF SlotOk
<1> QED BY <1>2, <1>4 DEF ArmedAt, q

\* A record disarms it for the bucket it counts in.
LEMMA RecordedOk ==
    ASSUME NEW r, SlotOk(r), r.at = "record"
    PROVE  LET q == Recorded(r)  c == Records(r.kind, r.fee)[r.i] IN
           /\ SlotOk(q) /\ q.at \in {"record", "idle"}
           /\ \A b \in Bucket : ArmedAt(q, b) => ArmedAt(r, b)
           /\ ArmedAt(r, c) /\ ~ArmedAt(q, c)
           /\ q.at = "record" => q.fee = r.fee /\ c # "fee"
           /\ q.at = "idle" => c = "fee" \/ r.fee = 0
<1> DEFINE q == Recorded(r)  c == Records(r.kind, r.fee)[r.i]  n == Len(Records(r.kind, r.fee))
<1>0. /\ r \in SlotRec /\ r.kind \in {"verify", "settle"} /\ r.i \in 1..3 /\ r.i <= n
      /\ n = (IF r.kind = "verify" THEN 1 ELSE IF r.fee > 0 THEN 3 ELSE 2)
      /\ r.kind # "settle" => r.fee = 0
      /\ r.fee \in 0..MaxFee /\ MaxFee \in Nat
  BY RecordList, RateAssumption DEF SlotOk, SlotRec
<1>c. /\ c \in Bucket /\ Place(c) = r.i /\ Uses(r.kind, c)
      /\ (c = "fee" => r.fee > 0)
      /\ \A b \in Bucket : Uses(r.kind, b) /\ Place(b) = r.i => b = c
  BY RecordList
<1>p. \A b \in Bucket : Place(b) \in 1..3
  BY DEF Place, Bucket
<1> HIDE DEF c
<1>a. ArmedAt(r, c)
  BY <1>c, <1>0 DEF ArmedAt
<1>1. CASE r.i < n
  <2>0. q = [r EXCEPT !.i = r.i + 1]
    BY <1>1 DEF Recorded
  <2>a. r.i + 1 \in 0..3 /\ r.i + 1 \in 1..n
    BY <1>0, <1>1
  <2>1. q \in SlotRec
    BY <2>0, <2>a, <1>0 DEF SlotRec
  <2>2. q.at = "record" /\ q.kind = r.kind /\ q.i = r.i + 1 /\ q.fee = r.fee
    BY <2>0, <1>0 DEF SlotRec
  <2> HIDE DEF q
  <2>3. SlotOk(q)
    BY <2>1, <2>2, <2>a, <1>0 DEF SlotOk
  <2>4. \A b \in Bucket : ArmedAt(q, b) => ArmedAt(r, b)
    BY <2>2, <1>p, <1>0 DEF ArmedAt
  <2>5. ~ArmedAt(q, c)
    BY <2>2, <1>c, <1>0 DEF ArmedAt
  <2>6. c # "fee"
    BY <1>1, <1>0, <1>c DEF Place
  <2> QED BY <2>2, <2>3, <2>4, <2>5, <2>6, <1>a DEF q, c
<1>2. CASE ~(r.i < n)
  <2>1. q = IdleSlot
    BY <1>2 DEF Recorded
  <2>2. IdleSlot.at = "idle"
    BY DEF IdleSlot
  <2>3. c = "fee" \/ r.fee = 0
    BY <1>0, <1>2, <1>c DEF Place
  <2> QED BY <2>1, <2>2, <2>3, <1>a, <1>c, IdleOk DEF c
<1> QED BY <1>1, <1>2

-----------------------------------------------------------------------------
(* One bucket, as numbers: its count in the shared store and in memory, the  *)
(* requests that are armed for it, and what the outages have let through.    *)

Unit(b) == IF b = "fee" THEN MaxFee ELSE 1
Bound(b, k) == Room(BucketLimit[b], SlotCount, k, Unit(b))
Live(on, sh, mm) == IF on THEN sh ELSE mm

\* The count in use, and a unit for each armed request, is in bounds; so is the
\* store not in use, and while Redis is degraded there is room in it for every
\* slot, which may return to it armed. A request is armed only if one fits at all.
BucketOk(b, on, sh, mm, a, k, dg) ==
    /\ Live(on, sh, mm) + a * Unit(b) <= Bound(b, k)
    /\ sh <= Bound(b, k) /\ mm <= Bound(b, k)
    /\ dg => sh + SlotCount * Unit(b) <= Bound(b, k)
    /\ a = 0 \/ Unit(b) <= BucketLimit[b]

LEMMA UnitIs ==
    /\ SlotCount \in Nat \ {0}
    /\ \A b \in Bucket : BucketLimit[b] \in Nat /\ Unit(b) \in Nat \ {0}
    /\ \A b \in Bucket, k \in Nat : Bound(b, k) \in Nat
<1>1. SlotCount \in Nat \ {0}
  <2>1. IsFiniteSet(Slot) /\ Slot # {}
    BY RateAssumption
  <2> QED BY <2>1, FS_CardinalityType, FS_EmptySet DEF SlotCount
<1>2. \A b \in Bucket : BucketLimit[b] \in Nat /\ Unit(b) \in Nat \ {0}
  BY RateAssumption DEF Unit
<1>3. ASSUME NEW b \in Bucket, NEW k \in Nat  PROVE Bound(b, k) \in Nat
  BY <1>1, <1>2, RoomIs DEF Bound
<1> QED BY <1>1, <1>2, <1>3

\* Less of everything.
LEMMA Lowered ==
    ASSUME NEW b \in Bucket, NEW on \in BOOLEAN, NEW dg \in BOOLEAN, NEW k \in Nat,
           NEW sh \in Nat, NEW mm \in Nat, NEW a \in Nat,
           NEW sh2 \in Nat, NEW mm2 \in Nat, NEW a2 \in Nat,
           sh2 <= sh, mm2 <= mm, a2 <= a, BucketOk(b, on, sh, mm, a, k, dg)
    PROVE  BucketOk(b, on, sh2, mm2, a2, k, dg)
<1> DEFINE u == Unit(b)  R == Bound(b, k)  n == SlotCount
<1>0. u \in Nat /\ R \in Nat /\ n \in Nat /\ BucketLimit[b] \in Nat
  BY UnitIs
<1>1. a * u \in Nat /\ a2 * u \in Nat /\ a2 * u <= a * u /\ n * u \in Nat
  BY <1>0, Times
<1> DEFINE x == a * u  y == a2 * u  z == n * u
           l == Live(on, sh, mm)  l2 == Live(on, sh2, mm2)
<1>2. l \in Nat /\ l2 \in Nat /\ l2 <= l
  BY DEF Live
<1>3. /\ l + x <= R /\ sh <= R /\ mm <= R /\ (dg => sh + z <= R) /\ (a = 0 \/ u <= BucketLimit[b])
  BY DEF BucketOk
<1>4. x \in Nat /\ y \in Nat /\ z \in Nat /\ y <= x
  BY <1>1
<1> HIDE DEF u, R, n, x, y, z, l, l2
<1>5. l2 + y <= R /\ sh2 <= R /\ mm2 <= R
  BY <1>0, <1>2, <1>3, <1>4
<1>6. dg => sh2 + z <= R
  BY <1>0, <1>3, <1>4
<1>7. a2 = 0 \/ u <= BucketLimit[b]
  BY <1>3
<1> QED BY <1>5, <1>6, <1>7 DEF BucketOk, u, R, n, x, y, z, l, l2

\* A check that passes arms any number of slots: it saw room for one more.
LEMMA ArmedMore ==
    ASSUME NEW b \in Bucket, NEW on \in BOOLEAN, NEW dg \in BOOLEAN, NEW k \in Nat,
           NEW sh \in Nat, NEW mm \in Nat, NEW a \in Nat, NEW a2 \in Nat,
           a2 <= SlotCount, Fits(b, Live(on, sh, mm)), BucketOk(b, on, sh, mm, a, k, dg)
    PROVE  BucketOk(b, on, sh, mm, a2, k, dg)
<1>0. /\ SlotCount \in Nat \ {0} /\ BucketLimit[b] \in Nat /\ Unit(b) \in Nat
      /\ Live(on, sh, mm) \in Nat
  BY UnitIs DEF Live
<1>1. Live(on, sh, mm) + Unit(b) <= BucketLimit[b]
  BY DEF Fits, Unit
<1>2. Live(on, sh, mm) + a2 * Unit(b) <= Bound(b, k)
  BY <1>0, <1>1, RoomArmed DEF Bound
<1>3. Unit(b) <= BucketLimit[b]
  BY <1>0, <1>1
<1> QED BY <1>2, <1>3 DEF BucketOk

\* The count of b grew by at most a unit, where it is kept.
Grew(b, on, sh, mm, sh2, mm2, dg) ==
    /\ on => (mm2 = mm /\ sh2 <= sh + Unit(b) /\ ~dg)
    /\ ~on => (sh2 = sh /\ mm2 <= mm + Unit(b))

LEMMA Counted ==
    ASSUME NEW b \in Bucket, NEW on \in BOOLEAN, NEW dg \in BOOLEAN, NEW k \in Nat,
           NEW sh \in Nat, NEW mm \in Nat, NEW a \in Nat,
           NEW sh2 \in Nat, NEW mm2 \in Nat, NEW a2 \in Nat,
           Grew(b, on, sh, mm, sh2, mm2, dg), a2 + 1 <= a, BucketOk(b, on, sh, mm, a, k, dg)
    PROVE  BucketOk(b, on, sh2, mm2, a2, k, dg)
<1> DEFINE l == Live(on, sh, mm)  l2 == Live(on, sh2, mm2)
<1>0. Unit(b) \in Nat /\ Bound(b, k) \in Nat /\ l \in Nat /\ l2 \in Nat
  BY UnitIs DEF Live
<1>1. l2 <= l + Unit(b) /\ l + a * Unit(b) <= Bound(b, k)
  BY DEF Live, BucketOk, Grew
<1> HIDE DEF l, l2
<1>2. l2 + a2 * Unit(b) <= Bound(b, k)
  BY <1>0, <1>1, RoomRecorded
<1>3. a2 * Unit(b) \in Nat
  BY <1>0, Times
<1>4. l2 <= Bound(b, k)
  BY <1>0, <1>2, <1>3
<1>5. sh2 <= Bound(b, k) /\ mm2 <= Bound(b, k)
  BY <1>4 DEF l2, Live, BucketOk, Grew
<1>6. dg => sh2 + SlotCount * Unit(b) <= Bound(b, k)
  BY DEF BucketOk, Grew
<1>7. a2 = 0 \/ Unit(b) <= BucketLimit[b]
  BY DEF BucketOk
<1> QED BY <1>2, <1>5, <1>6, <1>7 DEF BucketOk, l2

\* The window ends; the armed requests stay armed.
LEMMA Emptied ==
    ASSUME NEW b \in Bucket, NEW on \in BOOLEAN, NEW dg \in BOOLEAN, NEW k \in Nat,
           NEW sh \in Nat, NEW mm \in Nat, NEW a \in Nat, a <= SlotCount,
           dg => \E j \in Nat : k = j + SlotCount, BucketOk(b, on, sh, mm, a, k, dg)
    PROVE  BucketOk(b, on, 0, 0, a, k, dg)
<1>0. /\ SlotCount \in Nat \ {0} /\ BucketLimit[b] \in Nat /\ Unit(b) \in Nat
      /\ Bound(b, k) \in Nat /\ Live(on, 0, 0) = 0
  BY UnitIs DEF Live
<1>1. a = 0 \/ Unit(b) <= BucketLimit[b]
  BY DEF BucketOk
<1>2. a * Unit(b) <= Bound(b, k) /\ a * Unit(b) \in Nat
  BY <1>0, <1>1, RoomRolled, Times DEF Bound
<1>3. dg => SlotCount * Unit(b) <= Bound(b, k) /\ SlotCount * Unit(b) \in Nat
  <2> SUFFICES ASSUME dg PROVE SlotCount * Unit(b) <= Bound(b, k) /\ SlotCount * Unit(b) \in Nat
    OBVIOUS
  <2>1. PICK j \in Nat : k = j + SlotCount
    OBVIOUS
  <2>2. SlotCount * Unit(b) <= Room(BucketLimit[b], SlotCount, j + SlotCount, Unit(b))
    BY <1>0, RoomLost
  <2> QED BY <1>0, <2>1, <2>2, Times DEF Bound
<1> DEFINE x == a * Unit(b)  y == SlotCount * Unit(b)
<1>4. x \in Nat /\ x <= Bound(b, k) /\ (dg => y \in Nat /\ y <= Bound(b, k))
  BY <1>2, <1>3
<1> HIDE DEF x, y
<1>5. 0 + x <= Bound(b, k) /\ (dg => 0 + y <= Bound(b, k)) /\ 0 <= Bound(b, k)
  BY <1>0, <1>4
<1> QED BY <1>0, <1>1, <1>5 DEF BucketOk, x, y

\* Redis is lost: memory, whatever it holds, takes over.
LEMMA Degraded ==
    ASSUME NEW b \in Bucket, NEW on \in BOOLEAN, NEW dg \in BOOLEAN, NEW k \in Nat,
           NEW sh \in Nat, NEW mm \in Nat, NEW a \in Nat, a <= SlotCount,
           BucketOk(b, on, sh, mm, a, k, dg)
    PROVE  BucketOk(b, FALSE, sh, mm, a, k + SlotCount, TRUE)
<1> DEFINE u == Unit(b)  R == Bound(b, k)  n == SlotCount  Q == Bound(b, k + n)
<1>0. u \in Nat /\ R \in Nat /\ n \in Nat \ {0} /\ BucketLimit[b] \in Nat
  BY UnitIs
<1>1. a * u \in Nat /\ n * u \in Nat /\ a * u <= n * u
  BY <1>0, Times
<1>2. Q = R + n * u
  <2>1. Widened(BucketLimit[b], SlotCount, k, Unit(b))
    BY <1>0, RoomWidened
  <2> QED BY <2>1 DEF Bound, Widened
<1> DEFINE x == a * u  y == n * u
<1>3. sh <= R /\ mm <= R /\ (a = 0 \/ u <= BucketLimit[b])
  BY DEF BucketOk
<1>4. x \in Nat /\ y \in Nat /\ x <= y /\ Q = R + y
  BY <1>1, <1>2
<1> HIDE DEF u, R, n, Q, x, y
<1>5. mm + x <= Q /\ sh <= Q /\ mm <= Q /\ sh + y <= Q
  BY <1>0, <1>3, <1>4
<1> QED BY <1>3, <1>5 DEF BucketOk, Live, u, Q, n, x, y

\* Redis takes over again.
LEMMA Recovered ==
    ASSUME NEW b \in Bucket, NEW on \in BOOLEAN, NEW k \in Nat,
           NEW sh \in Nat, NEW mm \in Nat, NEW a \in Nat, a <= SlotCount,
           BucketOk(b, on, sh, mm, a, k, TRUE)
    PROVE  BucketOk(b, TRUE, sh, mm, a, k, FALSE)
<1> DEFINE u == Unit(b)  R == Bound(b, k)  n == SlotCount
<1>0. u \in Nat /\ R \in Nat /\ n \in Nat \ {0} /\ BucketLimit[b] \in Nat
  BY UnitIs
<1>1. a * u \in Nat /\ n * u \in Nat /\ a * u <= n * u
  BY <1>0, Times
<1> DEFINE x == a * u  y == n * u
<1>3. sh <= R /\ mm <= R /\ (a = 0 \/ u <= BucketLimit[b]) /\ sh + y <= R
  BY DEF BucketOk
<1>4. x \in Nat /\ y \in Nat /\ x <= y
  BY <1>1
<1> HIDE DEF u, R, n, x, y
<1>5. sh + x <= R
  BY <1>0, <1>3, <1>4
<1> QED BY <1>3, <1>5 DEF BucketOk, Live, u, R, x

-----------------------------------------------------------------------------
(* The map in memory. *)

InMem(m, b) == IF b \in DOMAIN m THEN m[b] ELSE 0
MemOk(m) == DOMAIN m \subseteq Bucket /\ m \in [DOMAIN m -> Nat]
With(m, c, am) == [x \in DOMAIN m \cup {c} |-> IF x = c THEN InMem(m, c) + am ELSE m[x]]

LEMMA WithOk ==
    ASSUME NEW m, MemOk(m), NEW c \in Bucket, NEW am \in Nat
    PROVE  /\ MemOk(With(m, c, am)) /\ InMem(With(m, c, am), c) = InMem(m, c) + am
           /\ \A b \in Bucket : b # c => InMem(With(m, c, am), b) = InMem(m, b)
           /\ \A b \in Bucket : InMem(m, b) \in Nat
<1>1. \A b \in Bucket : InMem(m, b) \in Nat
  BY DEF MemOk, InMem
<1>2. DOMAIN With(m, c, am) = DOMAIN m \cup {c}
  BY DEF With
<1>3. \A x \in DOMAIN m \cup {c} :
        With(m, c, am)[x] = IF x = c THEN InMem(m, c) + am ELSE m[x]
  BY DEF With
<1>4. MemOk(With(m, c, am))
  <2>1. With(m, c, am) \in [DOMAIN m \cup {c} -> Nat]
    BY <1>1 DEF With, MemOk
  <2> QED BY <2>1, <1>2 DEF MemOk
<1> QED BY <1>1, <1>2, <1>3, <1>4 DEF InMem

\* Shedding drops a bucket, and keeps count when that is the fees'.
ShedFees(m) == feesShed' = feesShed + 1 /\ InMem(memory', "fee") \in Nat
KeptFees(m) == feesShed' = feesShed /\ InMem(memory', "fee") = InMem(m, "fee")

LEMMA ShedOk ==
    ASSUME NEW m, MemOk(m), Shed(m) \/ Kept(m), feesShed \in Nat
    PROVE  /\ MemOk(memory') /\ feesShed' \in Nat
           /\ \A b \in Bucket : InMem(memory', b) <= InMem(m, b)
           /\ ShedFees(m) \/ KeptFees(m)
<1>0. \A b \in Bucket : InMem(m, b) \in Nat
  BY DEF MemOk, InMem
<1>f. "fee" \in Bucket
  BY DEF Bucket
<1>1. CASE Kept(m)
  <2>1. memory' = m /\ feesShed' = feesShed
    BY <1>1 DEF Kept
  <2>2. \A b \in Bucket : InMem(memory', b) = InMem(m, b)
    BY <2>1
  <2> QED BY <1>0, <2>1, <2>2, <1>f DEF KeptFees
<1>2. CASE Shed(m)
  <2>1. PICK old \in DOMAIN m :
          /\ memory' = [b \in DOMAIN m \ {old} |-> m[b]]
          /\ feesShed' = IF old = "fee" THEN feesShed + 1 ELSE feesShed
    BY <1>2 DEF Shed, ResetsFirst
  <2>2. DOMAIN memory' = DOMAIN m \ {old} /\ \A b \in DOMAIN memory' : memory'[b] = m[b]
    BY <2>1
  <2>3. MemOk(memory')
    <3>1. memory' \in [DOMAIN m \ {old} -> Nat]
      BY <2>1 DEF MemOk
    <3> QED BY <3>1, <2>2 DEF MemOk
  <2>4. \A b \in Bucket : InMem(memory', b) \in Nat /\ InMem(memory', b) <= InMem(m, b)
    BY <2>2, <1>0 DEF InMem
  <2>5. ShedFees(m) \/ KeptFees(m)
    BY <2>1, <2>2, <2>4, <1>f DEF ShedFees, KeptFees, InMem
  <2> QED BY <2>1, <2>3, <2>4, <2>5
<1> QED BY <1>1, <1>2

LEMMA AddedOk ==
    ASSUME MemOk(memory), NEW c \in Bucket, NEW am \in Nat, AddToMemory(c, am), feesShed \in Nat
    PROVE  /\ MemOk(memory') /\ feesShed' \in Nat
           /\ InMem(memory', c) <= InMem(memory, c) + am
           /\ \A b \in Bucket : b # c => InMem(memory', b) <= InMem(memory, b)
           /\ ShedFees(With(memory, c, am)) \/ KeptFees(With(memory, c, am))
           /\ InMem(With(memory, c, am), "fee")
                = InMem(memory, "fee") + (IF c = "fee" THEN am ELSE 0)
<1> DEFINE f == With(memory, c, am)
<1>1. Kept(f) \/ Shed(f)
  BY DEF AddToMemory, With, InMemory, InMem
<1>2. /\ MemOk(f) /\ InMem(f, c) = InMem(memory, c) + am
      /\ \A b \in Bucket : b # c => InMem(f, b) = InMem(memory, b)
      /\ \A b \in Bucket : InMem(memory, b) \in Nat
  BY WithOk
<1> HIDE DEF f
<1>3. /\ MemOk(memory') /\ feesShed' \in Nat
      /\ ShedFees(f) \/ KeptFees(f)
      /\ \A b \in Bucket : InMem(memory', b) <= InMem(f, b)
  BY <1>1, <1>2, ShedOk
<1>4. "fee" \in Bucket
  BY DEF Bucket
<1>5. InMem(f, "fee") = InMem(memory, "fee") + (IF c = "fee" THEN am ELSE 0)
  <2>1. CASE c = "fee"
    BY <1>2, <2>1
  <2>2. CASE c # "fee"
    <3>1. InMem(f, "fee") = InMem(memory, "fee") /\ InMem(memory, "fee") \in Nat
      BY <1>2, <1>4, <2>2
    <3>2. InMem(memory, "fee") = InMem(memory, "fee") + 0
      BY <3>1
    <3> QED BY <3>1, <3>2, <2>2
  <2> QED BY <2>1, <2>2
<1> QED BY <1>2, <1>3, <1>5 DEF f

-----------------------------------------------------------------------------
(* Counting the requests. *)

\* Settling: will be paid for, maybe. Payers: paid for, and not counted. Owing has
\* a pair for each unit of fee that was paid and not counted, so that its
\* cardinality is the sum.
Armed(sl, b) == {s \in Slot : ArmedAt(sl[s], b)}
Settling(sl) == {s \in Slot : sl[s].at = "work" /\ sl[s].kind = "settle"}
Payers(sl) == {s \in Slot : sl[s].at = "record" /\ sl[s].fee > 0}
Owing(sl) == {p \in Slot \X (1..MaxFee) : sl[p[1]].at = "record" /\ p[2] <= sl[p[1]].fee}
SlotsOk(sl) == sl \in [Slot -> SlotRec] /\ \A s \in Slot : SlotOk(sl[s])

LEMMA Counts ==
    ASSUME NEW T, T \subseteq Slot
    PROVE  IsFiniteSet(T) /\ Cardinality(T) \in Nat /\ Cardinality(T) <= SlotCount
<1>1. IsFiniteSet(Slot) /\ T \in SUBSET Slot
  BY RateAssumption
<1>2. IsFiniteSet(T) /\ Cardinality(T) <= Cardinality(Slot)
  BY <1>1, FS_Subset
<1> QED BY <1>2, FS_CardinalityType DEF SlotCount

LEMMA Fewer ==
    ASSUME NEW T, T \subseteq Slot, NEW S, S \subseteq T
    PROVE  Cardinality(S) <= Cardinality(T)
BY Counts, FS_Subset

LEMMA OneFewer ==
    ASSUME NEW T, T \subseteq Slot, NEW s \in T
    PROVE  Cardinality(T \ {s}) + 1 = Cardinality(T)
<1>1. IsFiniteSet(T) /\ Cardinality(T) \in Nat
  BY Counts
<1>2. Cardinality(T \ {s}) = Cardinality(T) - 1
  BY <1>1, FS_RemoveElement
<1> QED BY <1>1, <1>2

\* sl2 is sl with the request q in slot s.
Moved(sl, sl2, s, q) ==
    /\ SlotsOk(sl2) /\ sl2[s] = q
    /\ \A t \in Slot : t # s => sl2[t] = sl[t]

LEMMA MovedOk ==
    ASSUME NEW sl, SlotsOk(sl), NEW s \in Slot, NEW q, SlotOk(q), NEW sl2,
           sl2 = [sl EXCEPT ![s] = q]
    PROVE  Moved(sl, sl2, s, q)
<1>0. q \in SlotRec /\ sl \in [Slot -> SlotRec]
  BY DEF SlotOk, SlotsOk
<1>1. sl2 \in [Slot -> SlotRec] /\ sl2[s] = q /\ \A t \in Slot : t # s => sl2[t] = sl[t]
  BY <1>0
<1>2. \A t \in Slot : SlotOk(sl2[t])
  BY <1>1 DEF SlotsOk
<1> QED BY <1>1, <1>2 DEF SlotsOk, Moved

LEMMA FewerArmed ==
    ASSUME NEW sl, NEW sl2, NEW s \in Slot, NEW q, Moved(sl, sl2, s, q), NEW b \in Bucket,
           ArmedAt(q, b) => ArmedAt(sl[s], b)
    PROVE  /\ Cardinality(Armed(sl2, b)) <= Cardinality(Armed(sl, b))
           /\ (ArmedAt(sl[s], b) /\ ~ArmedAt(q, b)) =>
                Cardinality(Armed(sl2, b)) + 1 <= Cardinality(Armed(sl, b))
<1> DEFINE A == Armed(sl, b)  B == Armed(sl2, b)
<1>1. sl2[s] = q /\ \A t \in Slot : t # s => sl2[t] = sl[t]
  BY DEF Moved
<1>2. A \subseteq Slot /\ B \subseteq Slot /\ B \subseteq A
  BY <1>1 DEF Armed
<1>3. Cardinality(B) <= Cardinality(A) /\ Cardinality(A) \in Nat /\ Cardinality(B) \in Nat
  BY <1>2, Fewer, Counts
<1>4. ASSUME ArmedAt(sl[s], b), ~ArmedAt(q, b)  PROVE Cardinality(B) + 1 <= Cardinality(A)
  <2>1. s \in A /\ B \subseteq A \ {s}
    BY <1>1, <1>2, <1>4 DEF Armed
  <2>2. A \ {s} \subseteq Slot
    BY <1>2
  <2>3. Cardinality(B) <= Cardinality(A \ {s}) /\ Cardinality(A \ {s}) \in Nat
    BY <2>1, <2>2, Fewer, Counts
  <2>4. Cardinality(A \ {s}) + 1 = Cardinality(A)
    BY <2>1, <1>2, OneFewer
  <2> QED BY <2>3, <2>4, <1>3
<1> QED BY <1>3, <1>4

LEMMA FewerSettling ==
    ASSUME NEW sl, NEW sl2, NEW s \in Slot, NEW q, Moved(sl, sl2, s, q), q.at # "work"
    PROVE  /\ Cardinality(Settling(sl2)) <= Cardinality(Settling(sl))
           /\ (sl[s].at = "work" /\ sl[s].kind = "settle") =>
                Cardinality(Settling(sl2)) + 1 <= Cardinality(Settling(sl))
<1> DEFINE A == Settling(sl)  B == Settling(sl2)
<1>1. sl2[s] = q /\ \A t \in Slot : t # s => sl2[t] = sl[t]
  BY DEF Moved
<1>2. A \subseteq Slot /\ B \subseteq Slot /\ B \subseteq A
  BY <1>1 DEF Settling
<1>3. Cardinality(B) <= Cardinality(A) /\ Cardinality(A) \in Nat /\ Cardinality(B) \in Nat
  BY <1>2, Fewer, Counts
<1>4. ASSUME sl[s].at = "work", sl[s].kind = "settle"  PROVE Cardinality(B) + 1 <= Cardinality(A)
  <2>1. s \in A /\ B \subseteq A \ {s}
    BY <1>1, <1>2, <1>4 DEF Settling
  <2>2. A \ {s} \subseteq Slot
    BY <1>2
  <2>3. Cardinality(B) <= Cardinality(A \ {s}) /\ Cardinality(A \ {s}) \in Nat
    BY <2>1, <2>2, Fewer, Counts
  <2>4. Cardinality(A \ {s}) + 1 = Cardinality(A)
    BY <2>1, <1>2, OneFewer
  <2> QED BY <2>3, <2>4, <1>3
<1> QED BY <1>3, <1>4

LEMMA OwingIs ==
    ASSUME NEW sl
    PROVE  IsFiniteSet(Owing(sl)) /\ Cardinality(Owing(sl)) \in Nat
<1>1. MaxFee \in Nat /\ IsFiniteSet(Slot)
  BY RateAssumption
<1>2. IsFiniteSet(1..MaxFee)
  BY <1>1, FS_Interval
<1>3. IsFiniteSet(Slot \X (1..MaxFee))
  BY <1>1, <1>2, FS_Product
<1>4. Owing(sl) \in SUBSET (Slot \X (1..MaxFee))
  BY DEF Owing
<1>5. IsFiniteSet(Owing(sl))
  BY <1>3, <1>4, FS_Subset
<1> QED BY <1>5, FS_CardinalityType

\* The fee of one slot, as that many pairs.
Row(s, fee) == {s} \X (1..fee)

LEMMA RowIs ==
    ASSUME NEW s, NEW fee \in Nat
    PROVE  IsFiniteSet(Row(s, fee)) /\ Cardinality(Row(s, fee)) = fee
<1>1. IsFiniteSet({s}) /\ Cardinality({s}) = 1
  BY FS_Singleton
<1>2. IsFiniteSet(1..fee) /\ Cardinality(1..fee) = fee
  <2>1. 1 \in Int /\ fee \in Int
    OBVIOUS
  <2>2. IsFiniteSet(1..fee) /\ Cardinality(1..fee) = IF 1 > fee THEN 0 ELSE fee - 1 + 1
    BY <2>1, FS_Interval
  <2> QED BY <2>2
<1>3. IsFiniteSet(Row(s, fee)) /\ Cardinality(Row(s, fee)) = Cardinality({s}) * Cardinality(1..fee)
  BY <1>1, <1>2, FS_Product DEF Row
<1> QED BY <1>1, <1>2, <1>3

\* A fee that is paid adds that many pairs; read backwards, one that is counted
\* removes them.
LEMMA Owes ==
    ASSUME NEW sl, NEW sl2, NEW s \in Slot, NEW fee \in 0..MaxFee,
           sl[s].at # "record", sl2[s].at = "record", sl2[s].fee = fee,
           \A t \in Slot : t # s => sl2[t] = sl[t]
    PROVE  Cardinality(Owing(sl2)) = Cardinality(Owing(sl)) + fee
<1>0. MaxFee \in Nat /\ fee \in Nat
  BY RateAssumption
<1>1. Owing(sl2) = Owing(sl) \cup Row(s, fee) /\ Owing(sl) \cap Row(s, fee) = {}
  <2>1. \A p \in Slot \X (1..MaxFee) : p \in Row(s, fee) <=> (p[1] = s /\ p[2] <= fee)
    BY <1>0 DEF Row
  <2>2. Row(s, fee) \subseteq Slot \X (1..MaxFee)
    BY <1>0 DEF Row
  <2>3. ASSUME NEW p \in Slot \X (1..MaxFee)
        PROVE  /\ p \in Owing(sl2) <=> (p \in Owing(sl) \/ p \in Row(s, fee))
               /\ ~(p \in Owing(sl) /\ p \in Row(s, fee))
    <3>1. p[1] \in Slot
      OBVIOUS
    <3> QED BY <2>1, <3>1 DEF Owing
  <2>4. Owing(sl2) \subseteq Slot \X (1..MaxFee) /\ Owing(sl) \subseteq Slot \X (1..MaxFee)
    BY DEF Owing
  <2> QED BY <2>2, <2>3, <2>4
<1>2. IsFiniteSet(Row(s, fee)) /\ Cardinality(Row(s, fee)) = fee
  BY <1>0, RowIs
<1>3. IsFiniteSet(Owing(sl)) /\ Cardinality(Owing(sl)) \in Nat
  BY OwingIs
<1>4. Cardinality(Owing(sl) \cup Row(s, fee)) =
        Cardinality(Owing(sl)) + Cardinality(Row(s, fee)) - Cardinality(Owing(sl) \cap Row(s, fee))
  BY <1>2, <1>3, FS_Union
<1>5. Cardinality(Owing(sl) \cap Row(s, fee)) = 0
  BY <1>1, FS_EmptySet
<1> QED BY <1>0, <1>1, <1>2, <1>3, <1>4, <1>5

LEMMA OwesSame ==
    ASSUME NEW sl, NEW sl2, NEW s \in Slot,
           sl[s].at = "record" <=> sl2[s].at = "record",
           sl[s].at = "record" => sl2[s].fee = sl[s].fee,
           \A t \in Slot : t # s => sl2[t] = sl[t]
    PROVE  Owing(sl2) = Owing(sl)
<1>1. ASSUME NEW p \in Slot \X (1..MaxFee)  PROVE p \in Owing(sl2) <=> p \in Owing(sl)
  <2>1. p[1] \in Slot
    OBVIOUS
  <2>2. CASE p[1] = s
    BY <2>2 DEF Owing
  <2>3. CASE p[1] # s
    BY <2>1, <2>3 DEF Owing
  <2> QED BY <2>2, <2>3
<1>2. Owing(sl2) \subseteq Slot \X (1..MaxFee) /\ Owing(sl) \subseteq Slot \X (1..MaxFee)
  BY DEF Owing
<1> QED BY <1>1, <1>2

\* What is owed is bounded by the requests armed for the fee bucket.
LEMMA OwingBound ==
    ASSUME NEW sl, SlotsOk(sl)
    PROVE  /\ Cardinality(Owing(sl)) <= Cardinality(Payers(sl)) * MaxFee
           /\ Cardinality(Payers(sl)) <= Cardinality(Armed(sl, "fee"))
           /\ Cardinality(Payers(sl)) + Cardinality(Settling(sl)) <= SlotCount
<1> DEFINE P == Payers(sl)  W == Settling(sl)
<1>0. MaxFee \in Nat /\ P \subseteq Slot /\ W \subseteq Slot
  BY RateAssumption DEF Payers, Settling
<1>1. IsFiniteSet(P) /\ Cardinality(P) \in Nat /\ IsFiniteSet(W) /\ Cardinality(W) \in Nat
  BY <1>0, Counts
<1>2. Cardinality(Owing(sl)) <= Cardinality(P) * MaxFee
  <2>1. IsFiniteSet(1..MaxFee) /\ Cardinality(1..MaxFee) = MaxFee
    <3>1. 1 \in Int /\ MaxFee \in Int
      BY <1>0
    <3>2. IsFiniteSet(1..MaxFee) /\ Cardinality(1..MaxFee) = IF 1 > MaxFee THEN 0 ELSE MaxFee - 1 + 1
      BY <3>1, FS_Interval
    <3> QED BY <3>2, <1>0
  <2>2. IsFiniteSet(P \X (1..MaxFee)) /\ Cardinality(P \X (1..MaxFee)) = Cardinality(P) * Cardinality(1..MaxFee)
    BY <1>1, <2>1, FS_Product
  <2>3. Owing(sl) \subseteq P \X (1..MaxFee)
    <3>1. ASSUME NEW p \in Owing(sl)  PROVE p \in P \X (1..MaxFee)
      <4>1. /\ p \in Slot \X (1..MaxFee) /\ sl[p[1]].at = "record" /\ p[2] <= sl[p[1]].fee
        BY DEF Owing
      <4>2. p[1] \in Slot /\ p[2] \in 1..MaxFee /\ p = <<p[1], p[2]>>
        BY <4>1
      <4>3. sl[p[1]].fee \in 0..MaxFee
        BY <4>2 DEF SlotsOk, SlotRec
      <4>4. p[1] \in P
        BY <1>0, <4>1, <4>2, <4>3 DEF Payers
      <4> QED BY <4>2, <4>4
    <3> QED BY <3>1
  <2> HIDE DEF P
  <2>4. Owing(sl) \in SUBSET (P \X (1..MaxFee))
    BY <2>3
  <2> QED BY <2>1, <2>2, <2>4, FS_Subset
<1>3. Cardinality(P) <= Cardinality(Armed(sl, "fee"))
  <2>1. P \subseteq Armed(sl, "fee")
    <3>1. ASSUME NEW s \in P  PROVE ArmedAt(sl[s], "fee")
      <4>1. /\ s \in Slot /\ sl[s].at = "record" /\ sl[s].fee > 0 /\ SlotOk(sl[s])
        BY DEF Payers, SlotsOk
      <4>2. sl[s].kind = "settle"
        BY <4>1 DEF SlotOk
      <4>3. sl[s].i \in 0..3
        BY <4>1 DEF SlotOk, SlotRec
      <4> QED BY <4>1, <4>2, <4>3 DEF ArmedAt, Uses, Place
    <3> QED BY <3>1, <1>0 DEF Armed
  <2>2. Armed(sl, "fee") \subseteq Slot
    BY DEF Armed
  <2> QED BY <2>1, <2>2, Fewer
<1>4. Cardinality(P) + Cardinality(W) <= SlotCount
  <2>1. P \cap W = {}
    BY DEF Payers, Settling
  <2>2. P \cup W \subseteq Slot
    BY <1>0
  <2>3. Cardinality(P \cup W) <= SlotCount
    BY <2>2, Counts
  <2>4. Cardinality(P \cup W) = Cardinality(P) + Cardinality(W) - Cardinality(P \cap W)
    BY <1>1, FS_Union
  <2>5. Cardinality(P \cap W) = 0
    BY <2>1, FS_EmptySet
  <2> QED BY <1>1, <2>3, <2>4, <2>5
<1> QED BY <1>2, <1>3, <1>4

-----------------------------------------------------------------------------
(* The fees sponsored, as numbers. *)

Lost(o) == o * (SlotCount * MaxFee)
\* While the store answers, what was spent is counted or owed, except for what
\* outages lost. While it does not, what is owed will be lost and each settlement
\* at work may lose its fee.
SpentOk(up, sp, f, ow, wk, o) ==
    IF up THEN sp <= f + ow + Lost(o) ELSE sp + wk * MaxFee <= f + Lost(o)

LEMMA LostIs ==
    /\ MaxFee \in Nat /\ SlotCount \in Nat /\ SlotCount * MaxFee \in Nat
    /\ \A o \in Nat : /\ Lost(o) \in Nat /\ Lost(o + 1) = Lost(o) + SlotCount * MaxFee
                      /\ o >= 1 => SlotCount * MaxFee <= Lost(o)
<1>1. MaxFee \in Nat /\ SlotCount \in Nat
  BY RateAssumption, UnitIs
<1>2. SlotCount * MaxFee \in Nat
  BY <1>1, Times
<1> DEFINE nm == SlotCount * MaxFee
<1>3. nm \in Nat
  BY <1>2
<1> HIDE DEF nm
<1>4. ASSUME NEW o \in Nat
      PROVE  o * nm \in Nat /\ (o + 1) * nm = o * nm + nm /\ (o >= 1 => nm <= o * nm)
  <2>1. o * nm \in Nat /\ (o + 1) * nm = o * nm + nm
    BY <1>3, Times
  <2>2. ASSUME o >= 1  PROVE nm <= o * nm
    <3>1. 1 * nm <= o * nm
      BY <1>3, <2>2, Times
    <3> QED BY <3>1, <1>3
  <2> QED BY <2>1, <2>2
<1> QED BY <1>1, <1>2, <1>4 DEF Lost, nm

LEMMA SpentPaid ==
    ASSUME NEW up \in BOOLEAN, NEW sp \in Nat, NEW f \in Nat, NEW ow \in Nat, NEW wk \in Nat,
           NEW wk2 \in Nat, NEW o \in Nat, NEW fee \in 0..MaxFee,
           (fee = 0 /\ wk2 <= wk) \/ wk2 + 1 <= wk, SpentOk(up, sp, f, ow, wk, o)
    PROVE  SpentOk(up, sp + fee, f, ow + fee, wk2, o)
<1>0. MaxFee \in Nat /\ Lost(o) \in Nat /\ fee \in Nat /\ fee <= MaxFee
  BY LostIs
<1>1. CASE up
  BY <1>0, <1>1 DEF SpentOk
<1>2. CASE ~up
  <2>1. sp + wk * MaxFee <= f + Lost(o)
    BY <1>2 DEF SpentOk
  <2>2. /\ wk * MaxFee \in Nat /\ wk2 * MaxFee \in Nat
        /\ wk2 <= wk => wk2 * MaxFee <= wk * MaxFee
        /\ (wk2 + 1) * MaxFee = wk2 * MaxFee + MaxFee
        /\ wk2 + 1 <= wk => (wk2 + 1) * MaxFee <= wk * MaxFee
    BY <1>0, Times
  <2> DEFINE x == wk * MaxFee  y == wk2 * MaxFee
  <2>3. x \in Nat /\ y \in Nat /\ sp + x <= f + Lost(o) /\ y + fee <= x
    BY <1>0, <2>1, <2>2
  <2> HIDE DEF x, y
  <2>4. sp + fee + y <= f + Lost(o)
    BY <1>0, <2>3
  <2> QED BY <2>4, <1>2 DEF SpentOk, y
<1> QED BY <1>1, <1>2

LEMMA SpentCounted ==
    ASSUME NEW up \in BOOLEAN, NEW sp \in Nat, NEW f \in Nat, NEW ow \in Nat, NEW wk \in Nat,
           NEW f2 \in Nat, NEW ow2 \in Nat, NEW wk2 \in Nat, NEW o \in Nat,
           up => f2 + ow2 >= f + ow, ~up => (f2 >= f /\ wk2 <= wk), SpentOk(up, sp, f, ow, wk, o)
    PROVE  SpentOk(up, sp, f2, ow2, wk2, o)
<1>0. MaxFee \in Nat /\ Lost(o) \in Nat
  BY LostIs
<1>1. CASE up
  BY <1>0, <1>1 DEF SpentOk
<1>2. CASE ~up
  <2>1. sp + wk * MaxFee <= f + Lost(o)
    BY <1>2 DEF SpentOk
  <2>2. wk * MaxFee \in Nat /\ wk2 * MaxFee \in Nat /\ wk2 * MaxFee <= wk * MaxFee
    BY <1>0, <1>2, Times
  <2> DEFINE x == wk * MaxFee  y == wk2 * MaxFee
  <2>3. x \in Nat /\ y \in Nat /\ sp + x <= f + Lost(o) /\ y <= x /\ f2 >= f
    BY <2>1, <2>2, <1>2
  <2> HIDE DEF x, y
  <2>4. sp + y <= f2 + Lost(o)
    BY <1>0, <2>3
  <2> QED BY <2>4, <1>2 DEF SpentOk, y
<1> QED BY <1>1, <1>2

LEMMA SpentLost ==
    ASSUME NEW sp \in Nat, NEW f \in Nat, NEW ow \in Nat, NEW wk \in Nat, NEW rc \in Nat,
           NEW o \in Nat, ow <= rc * MaxFee, rc + wk <= SlotCount,
           SpentOk(TRUE, sp, f, ow, wk, o)
    PROVE  SpentOk(FALSE, sp, f, ow, wk, o + 1)
<1>0. /\ MaxFee \in Nat /\ SlotCount \in Nat /\ Lost(o) \in Nat
      /\ SlotCount * MaxFee \in Nat /\ Lost(o + 1) = Lost(o) + SlotCount * MaxFee
  BY LostIs
<1>1. /\ rc * MaxFee \in Nat /\ wk * MaxFee \in Nat
      /\ (rc + wk) * MaxFee = rc * MaxFee + wk * MaxFee
      /\ (rc + wk) * MaxFee <= SlotCount * MaxFee
  <2>1. rc + wk \in Nat
    OBVIOUS
  <2> QED BY <1>0, <2>1, Times
<1>2. sp <= f + ow + Lost(o)
  BY DEF SpentOk
<1> DEFINE x == rc * MaxFee  y == wk * MaxFee  z == SlotCount * MaxFee  l == Lost(o)
<1>3. /\ x \in Nat /\ y \in Nat /\ z \in Nat /\ l \in Nat /\ x + y <= z /\ ow <= x
      /\ sp <= f + ow + l /\ Lost(o + 1) = l + z
  BY <1>0, <1>1, <1>2
<1> HIDE DEF x, y, z, l
<1>4. sp + y <= f + (l + z)
  BY <1>3
<1> QED BY <1>3, <1>4 DEF SpentOk, y

LEMMA SpentRolled ==
    ASSUME NEW up \in BOOLEAN, NEW ow \in Nat, NEW wk \in Nat, NEW o \in Nat,
           wk <= SlotCount, ~up => o >= 1
    PROVE  SpentOk(up, 0, 0, ow, wk, o)
<1>0. /\ MaxFee \in Nat /\ SlotCount \in Nat /\ Lost(o) \in Nat
      /\ SlotCount * MaxFee \in Nat /\ (~up => SlotCount * MaxFee <= Lost(o))
  BY LostIs
<1>1. wk * MaxFee \in Nat /\ wk * MaxFee <= SlotCount * MaxFee
  BY <1>0, Times
<1> DEFINE y == wk * MaxFee  z == SlotCount * MaxFee
<1>3. y \in Nat /\ z \in Nat /\ y <= z /\ (~up => z <= Lost(o)) /\ Lost(o) \in Nat
  BY <1>0, <1>1
<1> HIDE DEF y, z
<1>4. 0 <= 0 + ow + Lost(o) /\ (~up => 0 + y <= 0 + Lost(o))
  BY <1>3
<1> QED BY <1>4 DEF SpentOk, y

LEMMA SpentRegained ==
    ASSUME NEW sp \in Nat, NEW f \in Nat, NEW ow \in Nat, NEW wk \in Nat, NEW o \in Nat,
           SpentOk(FALSE, sp, f, ow, wk, o)
    PROVE  SpentOk(TRUE, sp, f, ow, wk, o)
<1>0. MaxFee \in Nat /\ Lost(o) \in Nat /\ wk * MaxFee \in Nat
  BY LostIs, Times
<1> DEFINE y == wk * MaxFee
<1>1. sp + y <= f + Lost(o) /\ y \in Nat
  BY <1>0 DEF SpentOk
<1> HIDE DEF y
<1>2. sp <= f + ow + Lost(o)
  BY <1>0, <1>1
<1> QED BY <1>2 DEF SpentOk

-----------------------------------------------------------------------------
(* The invariant. *)

Loss == IF backend = "redis" THEN SlotCount * outages ELSE 0

BucketInv(b) ==
    BucketOk(b, OnShared, shared[b], InMem(memory, b), Cardinality(Armed(slot, b)), Loss, Degrading)

\* The fees that are counted, or were until they were shed.
Known(sh, m, n) == Live(OnShared, sh["fee"], InMem(m, "fee")) + n * Bound("fee", 0)

\* On Postgres and in memory.
SpentInv ==
    backend # "redis" =>
      SpentOk(storeUp, spent, Known(shared, memory, feesShed),
              Cardinality(Owing(slot)), Cardinality(Settling(slot)), outages)

RateTyped ==
    /\ storeUp \in BOOLEAN /\ degraded \in BOOLEAN /\ shared \in [Bucket -> Nat]
    /\ MemOk(memory) /\ SlotsOk(slot)
    /\ spent \in Nat /\ feesShed \in Nat /\ outages \in Nat /\ rolls \in Nat

\* There is no degrading without an outage.
Fallen == /\ (degraded \/ ~storeUp) => outages >= 1
          /\ backend = "memory" => storeUp

\* The inductive invariant.
RateInv == RateTyped /\ Fallen /\ (\A b \in Bucket : BucketInv(b)) /\ SpentInv

LEMMA Numbers ==
    ASSUME RateInv
    PROVE  /\ Loss \in Nat /\ OnShared \in BOOLEAN /\ Degrading \in BOOLEAN
           /\ \A b \in Bucket : /\ shared[b] \in Nat /\ InMem(memory, b) \in Nat
                                /\ Live(OnShared, shared[b], InMem(memory, b)) \in Nat
                                /\ Cardinality(Armed(slot, b)) \in Nat
                                /\ Cardinality(Armed(slot, b)) <= SlotCount
           /\ Cardinality(Owing(slot)) \in Nat /\ Cardinality(Settling(slot)) \in Nat
           /\ Cardinality(Settling(slot)) <= SlotCount
           /\ "fee" \in Bucket /\ feesShed \in Nat /\ Bound("fee", 0) \in Nat
           /\ Known(shared, memory, feesShed) \in Nat
<1>1. Loss \in Nat
  BY UnitIs, Times DEF Loss, RateInv, RateTyped
<1>2. ASSUME NEW b \in Bucket  PROVE shared[b] \in Nat /\ InMem(memory, b) \in Nat
  BY DEF RateInv, RateTyped, MemOk, InMem
<1>3. \A b \in Bucket : Armed(slot, b) \subseteq Slot
  BY DEF Armed
<1>4. Settling(slot) \subseteq Slot
  BY DEF Settling
<1>5. OnShared \in BOOLEAN /\ Degrading \in BOOLEAN
  BY DEF OnShared, Degrading
<1>6. "fee" \in Bucket
  BY DEF Bucket
<1>7. \A b \in Bucket : Cardinality(Armed(slot, b)) \in Nat /\ Cardinality(Armed(slot, b)) <= SlotCount
  BY <1>3, Counts
<1>8. Cardinality(Settling(slot)) \in Nat /\ Cardinality(Settling(slot)) <= SlotCount
  BY <1>4, Counts
<1>9. Cardinality(Owing(slot)) \in Nat
  BY OwingIs
<1>10. \A b \in Bucket : Live(OnShared, shared[b], InMem(memory, b)) \in Nat
  BY <1>2 DEF Live
<1>11. feesShed \in Nat /\ Bound("fee", 0) \in Nat
  BY <1>6, UnitIs DEF RateInv, RateTyped
<1>12. Known(shared, memory, feesShed) \in Nat
  <2>1. feesShed * Bound("fee", 0) \in Nat
    BY <1>11, Times
  <2> QED BY <2>1, <1>6, <1>10 DEF Known
<1> QED BY <1>1, <1>2, <1>5, <1>6, <1>7, <1>8, <1>9, <1>10, <1>11, <1>12

\* The steps that leave the store in use as it is.
SameStore == UNCHANGED <<backend, storeUp, outages>> /\ (degraded' = degraded \/ degraded' = Degrading)

LEMMA SameSide ==
    ASSUME RateInv, SameStore
    PROVE  /\ (OnShared' <=> OnShared) /\ (Degrading' <=> Degrading) /\ Loss' = Loss
           /\ Fallen' /\ degraded' \in BOOLEAN
<1>1. degraded \in BOOLEAN /\ storeUp \in BOOLEAN /\ Fallen
  BY DEF RateInv, RateTyped
<1>2. UNCHANGED <<backend, storeUp, outages>>
  BY DEF SameStore
<1>3. CASE degraded' = degraded
  BY <1>1, <1>2, <1>3 DEF OnShared, Degrading, Loss, Fallen
<1>4. CASE degraded' = Degrading
  BY <1>1, <1>2, <1>4 DEF OnShared, Degrading, Loss, Fallen
<1> QED BY <1>3, <1>4 DEF SameStore

NextBucket(b) ==
    BucketOk(b, OnShared, shared'[b], InMem(memory', b), Cardinality(Armed(slot', b)), Loss, Degrading)
NextSpent ==
    backend # "redis" =>
      SpentOk(storeUp, spent', Known(shared', memory', feesShed'),
              Cardinality(Owing(slot')), Cardinality(Settling(slot')), outages)

LEMMA StoreKeeps ==
    ASSUME RateInv, SameStore, shared' \in [Bucket -> Nat], MemOk(memory'), SlotsOk(slot'),
           spent' \in Nat, feesShed' \in Nat, rolls' \in Nat, \A b \in Bucket : NextBucket(b), NextSpent
    PROVE  RateInv'
<1>1. /\ (OnShared' <=> OnShared) /\ (Degrading' <=> Degrading) /\ Loss' = Loss
      /\ Fallen' /\ degraded' \in BOOLEAN
  BY SameSide
<1>2. UNCHANGED <<backend, storeUp, outages>>
  BY DEF SameStore
<1>3. RateTyped'
  BY <1>1, <1>2 DEF RateTyped, RateInv
<1>4. ASSUME NEW b \in Bucket  PROVE BucketInv(b)'
  <2>1. NextBucket(b)
    OBVIOUS
  <2> QED BY <2>1, <1>1 DEF NextBucket, BucketInv, BucketOk, Live
<1>5. SpentInv'
  BY <1>1, <1>2 DEF NextSpent, SpentInv, SpentOk, Known, Live, Bound, Room, SlotCount, Unit
<1> QED BY <1>1, <1>3, <1>4, <1>5 DEF RateInv

LEMMA AllowedFits ==
    ASSUME RateInv, NEW b \in Bucket, Allowed(b)
    PROVE  /\ Fits(b, Live(OnShared, shared[b], InMem(memory, b)))
           /\ backend # "redis" => storeUp
<1>1. InMem(memory, b) = InMemory(b)
  BY DEF InMem, InMemory
<1>2. CASE OnShared
  BY <1>1, <1>2 DEF Allowed, Live, RateInv, RateTyped
<1>3. CASE ~OnShared
  <2>1. backend # "redis" => backend = "memory"
    BY <1>3 DEF OnShared, Degrading
  <2> QED BY <1>1, <1>3, <2>1 DEF Allowed, Live, RateInv, Fallen
<1> QED BY <1>2, <1>3

\* A request moves and no count changes.
LEMMA MoveKeeps ==
    ASSUME RateInv, SameStore, UNCHANGED <<shared, memory, feesShed, rolls>>, spent' \in Nat,
           NEW s \in Slot, NEW q, Moved(slot, slot', s, q),
           \A b \in Bucket : \/ (ArmedAt(q, b) => ArmedAt(slot[s], b))
                             \/ Fits(b, Live(OnShared, shared[b], InMem(memory, b))),
           NextSpent
    PROVE  RateInv'
<1>1. /\ Loss \in Nat /\ OnShared \in BOOLEAN /\ Degrading \in BOOLEAN
      /\ \A b \in Bucket : /\ shared[b] \in Nat /\ InMem(memory, b) \in Nat
                           /\ Cardinality(Armed(slot, b)) \in Nat
  BY Numbers
<1>2. SlotsOk(slot')
  BY DEF Moved
<1>3. ASSUME NEW b \in Bucket  PROVE NextBucket(b)
  <2>0. /\ shared'[b] = shared[b] /\ InMem(memory', b) = InMem(memory, b)
        /\ BucketOk(b, OnShared, shared[b], InMem(memory, b), Cardinality(Armed(slot, b)), Loss, Degrading)
    BY DEF RateInv, BucketInv
  <2>1. Armed(slot', b) \subseteq Slot
    BY DEF Armed
  <2>2. Cardinality(Armed(slot', b)) \in Nat /\ Cardinality(Armed(slot', b)) <= SlotCount
    BY <2>1, Counts
  <2> DEFINE a == Cardinality(Armed(slot, b))  a2 == Cardinality(Armed(slot', b))
             sh == shared[b]  mm == InMem(memory, b)
  <2>3. BucketOk(b, OnShared, sh, mm, a2, Loss, Degrading)
    <3>1. CASE ArmedAt(q, b) => ArmedAt(slot[s], b)
      <4>1. a2 <= a
        BY <3>1, FewerArmed
      <4>2. sh <= sh /\ mm <= mm /\ sh \in Nat /\ mm \in Nat /\ a \in Nat /\ a2 \in Nat
        BY <1>1, <2>2
      <4> HIDE DEF a, a2, sh, mm
      <4>3. BucketOk(b, OnShared, sh, mm, a, Loss, Degrading)
        BY <2>0 DEF a, sh, mm
      <4> QED BY <1>1, <4>1, <4>2, <4>3, Lowered
    <3>2. CASE Fits(b, Live(OnShared, shared[b], InMem(memory, b)))
      <4>1. a2 <= SlotCount /\ sh \in Nat /\ mm \in Nat /\ a \in Nat /\ a2 \in Nat
        BY <1>1, <2>2
      <4>2. BucketOk(b, OnShared, sh, mm, a, Loss, Degrading) /\ Fits(b, Live(OnShared, sh, mm))
        BY <2>0, <3>2
      <4> HIDE DEF a, a2, sh, mm
      <4> QED BY <1>1, <4>1, <4>2, ArmedMore
    <3> QED BY <3>1, <3>2
  <2> QED BY <2>0, <2>3 DEF NextBucket
<1>4. shared' \in [Bucket -> Nat] /\ MemOk(memory') /\ feesShed' \in Nat /\ rolls' \in Nat
  BY DEF RateInv, RateTyped
<1> QED BY <1>2, <1>3, <1>4, StoreKeeps

LEMMA SpentSame ==
    ASSUME RateInv, UNCHANGED <<shared, memory, feesShed, spent>>, Owing(slot') = Owing(slot),
           (~storeUp /\ backend # "redis") => Cardinality(Settling(slot')) <= Cardinality(Settling(slot))
    PROVE  NextSpent
<1> SUFFICES ASSUME backend # "redis"
             PROVE  SpentOk(storeUp, spent', Known(shared', memory', feesShed'),
                            Cardinality(Owing(slot')), Cardinality(Settling(slot')), outages)
  BY DEF NextSpent
<1> DEFINE f == Known(shared, memory, feesShed)
           ow == Cardinality(Owing(slot))  wk == Cardinality(Settling(slot))
           wk2 == Cardinality(Settling(slot'))
<1>1. f \in Nat /\ ow \in Nat /\ wk \in Nat
  BY Numbers
<1>2. storeUp \in BOOLEAN /\ spent \in Nat /\ outages \in Nat /\ SpentOk(storeUp, spent, f, ow, wk, outages)
  BY DEF RateInv, RateTyped, SpentInv
<1>3. Settling(slot') \subseteq Slot
  BY DEF Settling
<1>4. wk2 \in Nat
  BY <1>3, Counts
<1>5. ~storeUp => wk2 <= wk
  OBVIOUS
<1>6. /\ spent' = spent /\ Cardinality(Owing(slot')) = ow
      /\ Known(shared', memory', feesShed') = f
  OBVIOUS
<1> HIDE DEF f, ow, wk, wk2
<1>a. f + ow >= f + ow /\ f >= f
  BY <1>1
<1>7. SpentOk(storeUp, spent, f, ow, wk2, outages)
  BY <1>1, <1>2, <1>4, <1>5, <1>a, SpentCounted
<1> QED BY <1>6, <1>7 DEF wk2

LEMMA LimitArrive == ASSUME RateInv, NEW s \in Slot, Arrive(s)  PROVE RateInv'
<1>1. PICK kind \in {"verify", "settle"} : slot' = [slot EXCEPT ![s] = Asked(kind)]
  BY DEF Arrive, Asked
<1> DEFINE q == Asked(kind)
<1>2. SlotOk(q) /\ \A b \in Bucket : ~ArmedAt(q, b)
  BY AskedOk
<1>3. q.at = "check" /\ slot[s].at = "idle"
  BY DEF Asked, IdleSlot, Arrive
<1> HIDE DEF q
<1>4. SlotsOk(slot) /\ spent \in Nat
  BY DEF RateInv, RateTyped
<1>5. Moved(slot, slot', s, q)
  BY <1>1, <1>2, <1>4, MovedOk DEF q
<1>6. Owing(slot') = Owing(slot)
  BY <1>3, <1>5, OwesSame DEF Moved
<1>7. Cardinality(Settling(slot')) <= Cardinality(Settling(slot))
  BY <1>3, <1>5, FewerSettling
<1>8. UNCHANGED <<shared, memory, feesShed, rolls, spent>> /\ SameStore /\ spent' \in Nat
  BY <1>4 DEF Arrive, SameStore, mapVars
<1>9. NextSpent
  BY <1>6, <1>7, <1>8, SpentSame
<1> QED BY <1>2, <1>5, <1>8, <1>9, MoveKeeps

LEMMA LimitCheck == ASSUME RateInv, NEW s \in Slot, Check(s)  PROVE RateInv'
<1> DEFINE r == slot[s]  c == Checks(r.kind)[r.i]  q == Checked(r, r.ok /\ Allowed(c))
<1>1. slot' = [slot EXCEPT ![s] = q] /\ r.at = "check"
  BY DEF Check, Checked
<1>2. SlotsOk(slot) /\ SlotOk(r) /\ spent \in Nat
  BY DEF RateInv, RateTyped, SlotsOk
<1>3. c \in Bucket
  BY <1>1, <1>2, CheckList
<1>4. Allowed(c) \in BOOLEAN
  <2>1. ASSUME NEW n  PROVE Fits(c, n) \in BOOLEAN
    BY DEF Fits
  <2>2. CASE OnShared /\ storeUp
    BY <2>1, <2>2 DEF Allowed
  <2>3. CASE OnShared /\ ~storeUp
    BY <2>3 DEF Allowed
  <2>4. CASE ~OnShared
    BY <2>1, <2>4 DEF Allowed
  <2> QED BY <2>2, <2>3, <2>4
<1>5. /\ SlotOk(q) /\ q.at # "record"
      /\ \A b \in Bucket : ArmedAt(q, b) => ArmedAt(r, b) \/ (b = c /\ Allowed(c))
      /\ q.at = "work" => Allowed(c)
  BY <1>1, <1>2, <1>4, CheckedOk
<1> HIDE DEF q
<1>6. Moved(slot, slot', s, q)
  BY <1>1, <1>2, <1>5, MovedOk
<1>7. Owing(slot') = Owing(slot)
  BY <1>1, <1>5, <1>6, OwesSame DEF Moved
<1>a. Allowed(c) => /\ Fits(c, Live(OnShared, shared[c], InMem(memory, c)))
                    /\ backend # "redis" => storeUp
  BY <1>3, AllowedFits
<1>8. (~storeUp /\ backend # "redis") => Cardinality(Settling(slot')) <= Cardinality(Settling(slot))
  <2> SUFFICES ASSUME ~storeUp, backend # "redis"
               PROVE  Cardinality(Settling(slot')) <= Cardinality(Settling(slot))
    OBVIOUS
  <2>1. q.at # "work"
    BY <1>5, <1>a
  <2> QED BY <2>1, <1>6, FewerSettling
<1>9. UNCHANGED <<shared, memory, feesShed, rolls, spent>> /\ SameStore /\ spent' \in Nat
  BY <1>2 DEF Check, SameStore, mapVars
<1>10. NextSpent
  BY <1>7, <1>8, <1>9, SpentSame
<1>11. \A b \in Bucket : \/ (ArmedAt(q, b) => ArmedAt(slot[s], b))
                         \/ Fits(b, Live(OnShared, shared[b], InMem(memory, b)))
  BY <1>5, <1>a
<1> HIDE DEF r, c
<1> QED BY <1>6, <1>9, <1>10, <1>11, MoveKeeps

LEMMA LimitWork == ASSUME RateInv, NEW s \in Slot, Work(s)  PROVE RateInv'
<1>1. SlotsOk(slot) /\ SlotOk(slot[s]) /\ spent \in Nat /\ slot[s].at = "work"
  BY DEF RateInv, RateTyped, SlotsOk, Work
<1>2. UNCHANGED <<shared, memory, feesShed, rolls>> /\ SameStore
  BY DEF Work, SameStore, mapVars
<1>3. CASE slot' = [slot EXCEPT ![s] = IdleSlot] /\ UNCHANGED spent
  <2>1. SlotOk(IdleSlot) /\ \A b \in Bucket : ~ArmedAt(IdleSlot, b)
    BY IdleOk
  <2>2. IdleSlot.at = "idle"
    BY DEF IdleSlot
  <2>3. Moved(slot, slot', s, IdleSlot)
    BY <1>1, <1>3, <2>1, MovedOk
  <2>4. Owing(slot') = Owing(slot)
    BY <1>1, <2>2, <2>3, OwesSame DEF Moved
  <2>5. Cardinality(Settling(slot')) <= Cardinality(Settling(slot))
    BY <2>2, <2>3, FewerSettling
  <2>6. NextSpent /\ spent' \in Nat
    BY <1>1, <1>2, <1>3, <2>4, <2>5, SpentSame
  <2> QED BY <1>2, <2>1, <2>3, <2>6, MoveKeeps
<1>4. ASSUME NEW fee \in (IF slot[s].kind = "settle" THEN 0..MaxFee ELSE {0}),
             slot' = [slot EXCEPT ![s] = Paid(slot[s], fee)], spent' = spent + fee
      PROVE  RateInv'
  <2> DEFINE q == Paid(slot[s], fee)
  <2>1. /\ SlotOk(q) /\ q.at = "record" /\ q.fee = fee
        /\ \A b \in Bucket : ArmedAt(q, b) => ArmedAt(slot[s], b)
    BY <1>1, PaidOk
  <2>2. Moved(slot, slot', s, q)
    BY <1>1, <1>4, <2>1, MovedOk
  <2> HIDE DEF q
  <2>3. fee \in 0..MaxFee /\ fee \in Nat /\ (slot[s].kind # "settle" => fee = 0)
    BY RateAssumption
  <2>4. Cardinality(Owing(slot')) = Cardinality(Owing(slot)) + fee
    BY <1>1, <2>1, <2>2, <2>3, Owes DEF Moved
  <2>5. /\ Cardinality(Settling(slot')) <= Cardinality(Settling(slot))
        /\ slot[s].kind = "settle" =>
             Cardinality(Settling(slot')) + 1 <= Cardinality(Settling(slot))
    BY <1>1, <2>1, <2>2, FewerSettling
  <2>6. NextSpent
    <3> SUFFICES ASSUME backend # "redis"
                 PROVE  SpentOk(storeUp, spent', Known(shared', memory', feesShed'),
                                Cardinality(Owing(slot')), Cardinality(Settling(slot')), outages)
      BY DEF NextSpent
    <3> DEFINE f == Known(shared, memory, feesShed)
               ow == Cardinality(Owing(slot))  wk == Cardinality(Settling(slot))
               wk2 == Cardinality(Settling(slot'))
    <3>1. f \in Nat /\ ow \in Nat /\ wk \in Nat
      BY Numbers
    <3>2. storeUp \in BOOLEAN /\ outages \in Nat /\ SpentOk(storeUp, spent, f, ow, wk, outages)
      BY DEF RateInv, RateTyped, SpentInv
    <3>3. Settling(slot') \subseteq Slot
      BY DEF Settling
    <3>4. wk2 \in Nat
      BY <3>3, Counts
    <3>5. (fee = 0 /\ wk2 <= wk) \/ wk2 + 1 <= wk
      BY <2>3, <2>5
    <3>6. Known(shared', memory', feesShed') = f
      BY <1>2
    <3> HIDE DEF f, ow, wk, wk2
    <3>7. SpentOk(storeUp, spent + fee, f, ow + fee, wk2, outages)
      BY <1>1, <2>3, <3>1, <3>2, <3>4, <3>5, SpentPaid
    <3> QED BY <1>4, <2>4, <3>6, <3>7 DEF wk2, ow
  <2>7. spent' \in Nat
    BY <1>1, <1>4, <2>3
  <2> QED BY <1>2, <2>1, <2>2, <2>6, <2>7, MoveKeeps
<1> QED BY <1>3, <1>4 DEF Work, Paid

LEMMA Incremented ==
    ASSUME RateInv, NEW c \in Bucket, NEW am \in Nat, am <= Unit(c), Increment(c, am),
           (backend # "redis" /\ ~OnShared) =>
             InMem(memory, "fee") + (IF c = "fee" THEN am ELSE 0) <= Bound("fee", 0)
    PROVE  /\ shared' \in [Bucket -> Nat] /\ MemOk(memory') /\ feesShed' \in Nat
           /\ OnShared => (/\ InMem(memory', c) = InMem(memory, c)
                           /\ shared'[c] <= shared[c] + Unit(c) /\ ~Degrading)
           /\ ~OnShared => (/\ shared'[c] = shared[c]
                            /\ InMem(memory', c) <= InMem(memory, c) + Unit(c))
           /\ \A b \in Bucket : b # c => (/\ shared'[b] <= shared[b]
                                          /\ InMem(memory', b) <= InMem(memory, b))
           /\ backend # "redis" =>
                Known(shared', memory', feesShed') >=
                Known(shared, memory, feesShed) + (IF storeUp /\ c = "fee" THEN am ELSE 0)
<1>0. /\ shared \in [Bucket -> Nat] /\ MemOk(memory) /\ storeUp \in BOOLEAN /\ Fallen
      /\ \A b \in Bucket : shared[b] \in Nat /\ InMem(memory, b) \in Nat
      /\ "fee" \in Bucket /\ Unit(c) \in Nat \ {0} /\ feesShed \in Nat /\ Bound("fee", 0) \in Nat
  BY Numbers, UnitIs DEF RateInv, RateTyped
<1> DEFINE B == Bound("fee", 0)  g == IF storeUp /\ c = "fee" THEN am ELSE 0
<1>n. /\ feesShed * B \in Nat /\ (feesShed + 1) * B = feesShed * B + B
  BY <1>0, Times
<1>g. g \in Nat
  OBVIOUS
<1>1. CASE OnShared
  <2>1. UNCHANGED <<memory, feesShed>> /\ ~Degrading
    BY <1>1 DEF Increment, OnShared
  <2>2. ASSUME NEW x \in Nat, x <= Unit(c), shared' = [shared EXCEPT ![c] = @ + x],
               backend # "redis" => x = (IF storeUp THEN am ELSE 0)
        PROVE  /\ shared' \in [Bucket -> Nat] /\ shared'[c] <= shared[c] + Unit(c)
               /\ \A b \in Bucket : b # c => shared'[b] <= shared[b]
               /\ backend # "redis" => shared'["fee"] = shared["fee"] + g
    <3>1. shared[c] + x \in Nat
      BY <1>0
    <3>2. /\ shared' \in [Bucket -> Nat] /\ shared'[c] = shared[c] + x
          /\ \A b \in Bucket : b # c => shared'[b] = shared[b]
      BY <1>0, <2>2, <3>1
    <3>3. shared'[c] <= shared[c] + Unit(c) /\ \A b \in Bucket : b # c => shared'[b] <= shared[b]
      BY <1>0, <2>2, <3>2
    <3>4. ASSUME backend # "redis"  PROVE shared'["fee"] = shared["fee"] + g
      <4>1. CASE c = "fee"
        BY <2>2, <3>2, <3>4, <4>1
      <4>2. CASE c # "fee"
        BY <1>0, <3>2, <4>2
      <4> QED BY <4>1, <4>2
    <3> QED BY <3>2, <3>3, <3>4
  <2>3. /\ shared' \in [Bucket -> Nat] /\ shared'[c] <= shared[c] + Unit(c)
        /\ \A b \in Bucket : b # c => shared'[b] <= shared[b]
        /\ backend # "redis" => shared'["fee"] = shared["fee"] + g
    <3>1. CASE ~storeUp
      <4>1. shared' = shared
        BY <1>1, <3>1 DEF Increment
      <4>2. shared' = [shared EXCEPT ![c] = @ + 0]
        BY <1>0, <4>1
      <4>3. 0 \in Nat /\ 0 <= Unit(c)
        BY <1>0
      <4> HIDE DEF g
      <4> QED BY <2>2, <3>1, <4>2, <4>3
    <3>2. CASE storeUp /\ backend = "redis"
      <4>1. shared' = [shared EXCEPT ![c] = @ + 1]
        BY <1>1, <3>2 DEF Increment, RedisAdd
      <4>2. 1 \in Nat /\ 1 <= Unit(c)
        BY <1>0
      <4> HIDE DEF g
      <4> QED BY <2>2, <3>2, <4>1, <4>2
    <3>3. CASE storeUp /\ backend # "redis"
      <4>1. shared' = [shared EXCEPT ![c] = @ + am]
        BY <1>1, <3>3 DEF Increment, PostgresAdd
      <4> HIDE DEF g
      <4> QED BY <2>2, <3>3, <4>1
    <3> QED BY <1>0, <3>1, <3>2, <3>3
  <2>4. /\ MemOk(memory') /\ \A b \in Bucket : InMem(memory', b) = InMem(memory, b)
    BY <1>0, <2>1
  <2>5. \A b \in Bucket : InMem(memory', b) <= InMem(memory, b)
    BY <1>0, <2>4
  <2>6. ASSUME backend # "redis"
        PROVE  Known(shared', memory', feesShed') >= Known(shared, memory, feesShed) + g
    <3>1. /\ Known(shared', memory', feesShed') = shared'["fee"] + feesShed * B
          /\ Known(shared, memory, feesShed) = shared["fee"] + feesShed * B
      BY <1>1, <2>1 DEF Known, Live
    <3> DEFINE n == feesShed * B
    <3>2. shared["fee"] \in Nat /\ n \in Nat /\ shared'["fee"] = shared["fee"] + g
      BY <1>0, <1>n, <2>3, <2>6
    <3> HIDE DEF n, g
    <3>3. shared'["fee"] + n >= shared["fee"] + n + g
      BY <1>g, <3>2
    <3> QED BY <3>1, <3>3 DEF n
  <2> HIDE DEF g
  <2>7. feesShed' \in Nat
    BY <1>0, <2>1
  <2> QED BY <1>0, <1>1, <2>1, <2>3, <2>4, <2>5, <2>6, <2>7 DEF g
<1>2. CASE ~OnShared
  <2>1. AddToMemory(c, am) /\ shared' = shared
    BY <1>2 DEF Increment
  <2> DEFINE m == With(memory, c, am)
  <2>2. /\ MemOk(memory') /\ feesShed' \in Nat
        /\ InMem(memory', c) <= InMem(memory, c) + am
        /\ \A b \in Bucket : b # c => InMem(memory', b) <= InMem(memory, b)
        /\ ShedFees(m) \/ KeptFees(m)
        /\ InMem(m, "fee") = InMem(memory, "fee") + (IF c = "fee" THEN am ELSE 0)
    BY <1>0, <2>1, AddedOk
  <2>3. backend # "redis" => storeUp
    BY <1>0, <1>2 DEF OnShared, Degrading, Fallen
  <2>4. \A b \in Bucket : InMem(memory', b) \in Nat
    BY <2>2 DEF MemOk, InMem
  <2>5. InMem(memory', c) <= InMem(memory, c) + Unit(c)
    BY <1>0, <2>2, <2>4
  <2>6. \A b \in Bucket : shared'[b] <= shared[b]
    BY <1>0, <2>1
  <2>7. ASSUME backend # "redis"
        PROVE  Known(shared', memory', feesShed') >= Known(shared, memory, feesShed) + g
    <3>1. /\ Known(shared', memory', feesShed') = InMem(memory', "fee") + feesShed' * B
          /\ Known(shared, memory, feesShed) = InMem(memory, "fee") + feesShed * B
      BY <1>2 DEF Known, Live
    <3>2. InMem(m, "fee") = InMem(memory, "fee") + g /\ InMem(m, "fee") <= B
      BY <1>2, <2>2, <2>3, <2>7
    <3> DEFINE n == feesShed * B  old == InMem(memory, "fee")  new == InMem(memory', "fee")
               mid == InMem(m, "fee")
    <3>3. n \in Nat /\ old \in Nat /\ new \in Nat /\ B \in Nat
      BY <1>0, <1>n, <2>4
    <3>4. CASE ShedFees(m)
      <4>1. feesShed' * B = n + B
        BY <3>4, <1>n DEF ShedFees
      <4> HIDE DEF n, old, new, mid, g, B, m
      <4>2. mid = old + g /\ mid <= B
        BY <3>2 DEF mid, old
      <4>3. new + (n + B) >= old + n + g
        BY <1>g, <3>3, <4>2
      <4> QED BY <3>1, <4>1, <4>3 DEF old, new, n
    <3>5. CASE KeptFees(m)
      <4>1. feesShed' * B = n /\ new = mid
        BY <3>5 DEF KeptFees
      <4> HIDE DEF n, old, new, mid, g, B, m
      <4>2. mid = old + g
        BY <3>2 DEF mid, old
      <4>3. new + n >= old + n + g
        BY <1>g, <3>3, <4>1, <4>2
      <4> QED BY <3>1, <4>1, <4>3 DEF old, new, n
    <3> QED BY <2>2, <3>4, <3>5
  <2> HIDE DEF g, m
  <2> QED BY <1>0, <1>2, <2>1, <2>2, <2>5, <2>6, <2>7 DEF g
<1> QED BY <1>1, <1>2

LEMMA LimitRecord == ASSUME RateInv, NEW s \in Slot, Record(s)  PROVE RateInv'
<1> DEFINE r == slot[s]  c == Records(r.kind, r.fee)[r.i]  q == Recorded(r)
           am == IF c = "fee" THEN r.fee ELSE 1
<1>1. /\ Increment(c, am) /\ slot' = [slot EXCEPT ![s] = q] /\ r.at = "record"
      /\ UNCHANGED <<backend, storeUp, spent, outages, rolls>>
  BY DEF Record, Recorded
<1>2. SlotsOk(slot) /\ SlotOk(r) /\ spent \in Nat /\ rolls \in Nat /\ r.fee \in 0..MaxFee
  BY DEF RateInv, RateTyped, SlotsOk, SlotRec
<1>3. c \in Bucket
  BY <1>1, <1>2, RecordList
<1>4. /\ SlotOk(q) /\ q.at \in {"record", "idle"}
      /\ \A b \in Bucket : ArmedAt(q, b) => ArmedAt(r, b)
      /\ ArmedAt(r, c) /\ ~ArmedAt(q, c)
      /\ q.at = "record" => q.fee = r.fee /\ c # "fee"
      /\ q.at = "idle" => c = "fee" \/ r.fee = 0
  BY <1>1, <1>2, RecordedOk
<1>5. am \in Nat /\ am <= Unit(c)
  BY <1>2, RateAssumption DEF Unit
<1>6. Moved(slot, slot', s, q)
  <2> HIDE DEF q, c
  <2> QED BY <1>1, <1>2, <1>4, MovedOk
<1>7. SameStore
  BY <1>1 DEF Increment, SameStore
<1> HIDE DEF q, c, am
<1>f. (backend # "redis" /\ ~OnShared) =>
        InMem(memory, "fee") + (IF c = "fee" THEN am ELSE 0) <= Bound("fee", 0)
  <2> SUFFICES ASSUME backend # "redis", ~OnShared
               PROVE  InMem(memory, "fee") + (IF c = "fee" THEN am ELSE 0) <= Bound("fee", 0)
    OBVIOUS
  <2>1. /\ "fee" \in Bucket /\ Loss = 0 /\ Unit("fee") = MaxFee
        /\ InMem(memory, "fee") \in Nat /\ MaxFee \in Nat
    BY Numbers, RateAssumption DEF Loss, Unit
  <2>2. InMem(memory, "fee") <= Bound("fee", 0)
    BY <2>1 DEF RateInv, BucketInv, BucketOk
  <2>3. CASE c = "fee"
    <3> DEFINE A == Armed(slot, "fee")  a == Cardinality(A)  a2 == Cardinality(A \ {s})
               mm == InMem(memory, "fee")  B == Bound("fee", 0)
    <3>1. A \subseteq Slot /\ s \in A
      BY <1>4, <2>3 DEF Armed
    <3>2. a2 + 1 = a /\ a2 \in Nat
      <4>1. A \ {s} \subseteq Slot
        BY <3>1
      <4> QED BY <3>1, <4>1, OneFewer, Counts
    <3>3. mm + a * MaxFee <= B
      BY <2>1 DEF RateInv, BucketInv, BucketOk, Live
    <3>4. a * MaxFee = a2 * MaxFee + MaxFee /\ a2 * MaxFee \in Nat
      BY <2>1, <3>2, Times
    <3>5. B \in Nat
      BY Numbers
    <3> DEFINE x == a2 * MaxFee  y == a * MaxFee
    <3>6. x \in Nat /\ y = x + MaxFee /\ mm + y <= B /\ mm \in Nat /\ am <= MaxFee
      BY <1>5, <2>1, <2>3, <3>3, <3>4
    <3> HIDE DEF A, a, a2, mm, B, x, y
    <3>7. mm + am <= B
      BY <1>5, <2>1, <3>5, <3>6
    <3> QED BY <2>3, <3>7 DEF mm, B
  <2>4. CASE c # "fee"
    BY <2>1, <2>2, <2>4
  <2> QED BY <2>3, <2>4
<1>8. /\ shared' \in [Bucket -> Nat] /\ MemOk(memory') /\ feesShed' \in Nat
      /\ OnShared => (/\ InMem(memory', c) = InMem(memory, c)
                      /\ shared'[c] <= shared[c] + Unit(c) /\ ~Degrading)
      /\ ~OnShared => (/\ shared'[c] = shared[c]
                       /\ InMem(memory', c) <= InMem(memory, c) + Unit(c))
      /\ \A b \in Bucket : b # c => (/\ shared'[b] <= shared[b]
                                     /\ InMem(memory', b) <= InMem(memory, b))
      /\ backend # "redis" =>
           Known(shared', memory', feesShed') >=
           Known(shared, memory, feesShed) + (IF storeUp /\ c = "fee" THEN am ELSE 0)
  BY <1>1, <1>3, <1>5, <1>f, Incremented
<1>9. ASSUME NEW b \in Bucket  PROVE NextBucket(b)
  <2> DEFINE a == Cardinality(Armed(slot, b))  a2 == Cardinality(Armed(slot', b))
             sh == shared[b]  mm == InMem(memory, b)
             sh2 == shared'[b]  mm2 == InMem(memory', b)
  <2>0. /\ BucketOk(b, OnShared, sh, mm, a, Loss, Degrading)
        /\ sh \in Nat /\ mm \in Nat /\ a \in Nat /\ Loss \in Nat
        /\ OnShared \in BOOLEAN /\ Degrading \in BOOLEAN
    BY Numbers DEF RateInv, BucketInv
  <2>1. Armed(slot', b) \subseteq Slot
    BY DEF Armed
  <2>2. sh2 \in Nat /\ mm2 \in Nat /\ a2 \in Nat
    BY <1>8, <2>1, Counts DEF MemOk, InMem
  <2>3. /\ a2 <= a
        /\ b = c => a2 + 1 <= a
    BY <1>4, <1>6, FewerArmed
  <2>4. CASE b = c
    <3>1. Grew(b, OnShared, sh, mm, sh2, mm2, Degrading) /\ a2 + 1 <= a
      BY <1>8, <2>3, <2>4 DEF Grew
    <3> HIDE DEF a, a2, sh, mm, sh2, mm2
    <3>2. BucketOk(b, OnShared, sh2, mm2, a2, Loss, Degrading)
      BY <2>0, <2>2, <3>1, Counted
    <3> QED BY <3>2 DEF NextBucket, a2, sh2, mm2
  <2>5. CASE b # c
    <3>1. sh2 <= sh /\ mm2 <= mm
      BY <1>8, <2>5
    <3> HIDE DEF a, a2, sh, mm, sh2, mm2
    <3>2. BucketOk(b, OnShared, sh2, mm2, a2, Loss, Degrading)
      BY <2>0, <2>2, <2>3, <3>1, Lowered
    <3> QED BY <3>2 DEF NextBucket, a2, sh2, mm2
  <2> QED BY <2>4, <2>5
<1>10. NextSpent
  <2> SUFFICES ASSUME backend # "redis"
               PROVE  SpentOk(storeUp, spent', Known(shared', memory', feesShed'),
                              Cardinality(Owing(slot')), Cardinality(Settling(slot')), outages)
    BY DEF NextSpent
  <2> DEFINE f == Known(shared, memory, feesShed)
             f2 == Known(shared', memory', feesShed')
             ow == Cardinality(Owing(slot))  ow2 == Cardinality(Owing(slot'))
             wk == Cardinality(Settling(slot))  wk2 == Cardinality(Settling(slot'))
  <2>1. f \in Nat /\ ow \in Nat /\ wk \in Nat /\ ow2 \in Nat
    BY Numbers, OwingIs
  <2>2. storeUp \in BOOLEAN /\ outages \in Nat /\ SpentOk(storeUp, spent, f, ow, wk, outages)
    BY DEF RateInv, RateTyped, SpentInv
  <2>3. Settling(slot') \subseteq Slot
    BY DEF Settling
  <2>4. wk2 \in Nat
    BY <2>3, Counts
  <2>5. wk2 <= wk
    BY <1>4, <1>6, FewerSettling
  <2>6. f2 >= f + (IF storeUp /\ c = "fee" THEN am ELSE 0)
    BY <1>8
  <2>7. f2 \in Nat
    <3>1. feesShed' * Bound("fee", 0) \in Nat /\ "fee" \in Bucket
      BY <1>8, Numbers, Times
    <3>2. shared'["fee"] \in Nat /\ InMem(memory', "fee") \in Nat
      BY <1>8, <3>1 DEF MemOk, InMem
    <3> QED BY <3>1, <3>2 DEF Known, Live
  <2>8. ow = ow2 + (IF c = "fee" THEN am ELSE 0)
    <3>1. CASE q.at = "record"
      <4>0. /\ slot'[s].at = "record" /\ slot[s].at = "record" /\ slot'[s].fee = slot[s].fee
            /\ \A x \in Slot : x # s => slot'[x] = slot[x]
        BY <1>1, <1>4, <1>6, <3>1 DEF Moved
      <4>1. Owing(slot') = Owing(slot)
        BY <4>0, OwesSame
      <4> QED BY <1>4, <2>1, <3>1, <4>1
    <3>2. CASE q.at = "idle"
      <4>1. /\ slot'[s].at # "record" /\ slot[s].at = "record" /\ slot[s].fee = r.fee
            /\ \A x \in Slot : x # s => slot[x] = slot'[x]
        BY <1>1, <1>6, <3>2 DEF Moved
      <4>2. ow = ow2 + r.fee
        BY <1>2, <4>1, Owes
      <4>3. r.fee = (IF c = "fee" THEN am ELSE 0)
        BY <1>4, <3>2 DEF am
      <4> QED BY <4>2, <4>3
    <3> QED BY <1>4, <3>1, <3>2
  <2> HIDE DEF f, f2, ow, ow2, wk, wk2
  <2>9. /\ storeUp => f2 + ow2 >= f + ow
        /\ ~storeUp => (f2 >= f /\ wk2 <= wk)
    BY <1>5, <2>1, <2>2, <2>5, <2>6, <2>7, <2>8
  <2>10. SpentOk(storeUp, spent, f2, ow2, wk2, outages)
    BY <1>2, <2>1, <2>2, <2>4, <2>7, <2>9, SpentCounted
  <2> QED BY <1>1, <2>10 DEF f2, ow2, wk2
<1>11. SlotsOk(slot') /\ spent' \in Nat /\ rolls' \in Nat
  BY <1>1, <1>2, <1>6 DEF Moved
<1> QED BY <1>7, <1>8, <1>9, <1>10, <1>11, StoreKeeps

LEMMA LimitRoll == ASSUME RateInv, NEW w \in 1..2, Roll(w)  PROVE RateInv'
<1>1. /\ shared' = [b \in Bucket |-> IF Window(b) <= w THEN 0 ELSE shared[b]]
      /\ memory' = [b \in {x \in DOMAIN memory : Window(x) > w} |-> memory[b]]
      /\ spent' = (IF w = 2 THEN 0 ELSE spent) /\ rolls' = rolls + 1
      /\ feesShed' = (IF w = 2 THEN 0 ELSE feesShed)
      /\ UNCHANGED <<backend, storeUp, degraded, slot, outages>>
  BY DEF Roll
<1>2. /\ shared \in [Bucket -> Nat] /\ MemOk(memory) /\ spent \in Nat /\ rolls \in Nat
      /\ feesShed \in Nat /\ outages \in Nat /\ storeUp \in BOOLEAN /\ Fallen /\ SlotsOk(slot)
  BY DEF RateInv, RateTyped
<1>w. \A b \in Bucket : Window(b) \in 1..2
  BY DEF Window
<1>3. /\ shared' \in [Bucket -> Nat] /\ MemOk(memory') /\ spent' \in Nat /\ rolls' \in Nat
      /\ feesShed' \in Nat
  <2>1. shared' \in [Bucket -> Nat]
    BY <1>1, <1>2
  <2>2. DOMAIN memory' = {x \in DOMAIN memory : Window(x) > w}
    BY <1>1
  <2>3. memory' \in [DOMAIN memory' -> Nat]
    BY <1>1, <1>2, <2>2 DEF MemOk
  <2> QED BY <1>1, <1>2, <2>1, <2>2, <2>3 DEF MemOk
<1>4. ASSUME NEW b \in Bucket
      PROVE  /\ Window(b) <= w => (shared'[b] = 0 /\ InMem(memory', b) = 0)
             /\ ~(Window(b) <= w) => (shared'[b] = shared[b] /\ InMem(memory', b) = InMem(memory, b))
  BY <1>1, <1>w DEF InMem
<1>5. SameStore
  BY <1>1 DEF SameStore
<1>6. ASSUME NEW b \in Bucket  PROVE NextBucket(b)
  <2> DEFINE a == Cardinality(Armed(slot, b))  sh == shared[b]  mm == InMem(memory, b)
  <2>0. /\ BucketOk(b, OnShared, sh, mm, a, Loss, Degrading)
        /\ sh \in Nat /\ mm \in Nat /\ a \in Nat /\ Loss \in Nat /\ a <= SlotCount
        /\ OnShared \in BOOLEAN /\ Degrading \in BOOLEAN
    BY Numbers DEF RateInv, BucketInv
  <2>1. Armed(slot', b) = Armed(slot, b)
    BY <1>1
  <2>2. CASE Window(b) <= w
    <3>1. Degrading => \E j \in Nat : Loss = j + SlotCount
      <4> SUFFICES ASSUME Degrading  PROVE \E j \in Nat : Loss = j + SlotCount
        OBVIOUS
      <4>1. outages >= 1 /\ Loss = SlotCount * outages
        BY <1>2 DEF Degrading, Fallen, Loss
      <4>2. SlotCount \in Nat
        BY UnitIs
      <4>3. outages - 1 \in Nat /\ outages = (outages - 1) + 1
        BY <1>2, <4>1
      <4>4. PICK o \in Nat : outages = o + 1
        BY <4>3
      <4>5. SlotCount * outages = SlotCount * o + SlotCount /\ SlotCount * o \in Nat
        BY <4>2, <4>4
      <4> QED BY <4>1, <4>5
    <3> HIDE DEF a, sh, mm
    <3>2. BucketOk(b, OnShared, 0, 0, a, Loss, Degrading)
      BY <2>0, <3>1, Emptied
    <3> QED BY <1>4, <2>1, <2>2, <3>2 DEF NextBucket, a
  <2>3. CASE ~(Window(b) <= w)
    BY <1>4, <2>0, <2>1, <2>3 DEF NextBucket
  <2> QED BY <2>2, <2>3
<1>7. NextSpent
  <2> SUFFICES ASSUME backend # "redis"
               PROVE  SpentOk(storeUp, spent', Known(shared', memory', feesShed'),
                              Cardinality(Owing(slot')), Cardinality(Settling(slot')), outages)
    BY DEF NextSpent
  <2> DEFINE ow == Cardinality(Owing(slot))  wk == Cardinality(Settling(slot))
  <2>1. /\ ow \in Nat /\ wk \in Nat /\ wk <= SlotCount /\ "fee" \in Bucket
        /\ Cardinality(Owing(slot')) = ow /\ Cardinality(Settling(slot')) = wk
    BY <1>1, Numbers
  <2>2. Window("fee") = 2
    BY DEF Window
  <2>3. CASE w = 2
    <3>1. spent' = 0 /\ Known(shared', memory', feesShed') = 0
      <4>1. shared'["fee"] = 0 /\ InMem(memory', "fee") = 0 /\ feesShed' = 0
        BY <1>1, <1>4, <2>1, <2>2, <2>3
      <4>2. Bound("fee", 0) \in Nat
        BY Numbers
      <4>3. 0 * Bound("fee", 0) = 0
        BY <4>2
      <4> QED BY <1>1, <2>3, <4>1, <4>3 DEF Known, Live
    <3>2. ~storeUp => outages >= 1
      BY <1>2 DEF Fallen
    <3> HIDE DEF ow, wk
    <3>3. SpentOk(storeUp, 0, 0, ow, wk, outages)
      BY <1>2, <2>1, <3>2, SpentRolled
    <3> QED BY <2>1, <3>1, <3>3
  <2>4. CASE w = 1
    <3>1. /\ spent' = spent
          /\ Known(shared', memory', feesShed') = Known(shared, memory, feesShed)
      BY <1>1, <1>4, <2>1, <2>2, <2>4 DEF Known, Live
    <3>2. SpentOk(storeUp, spent, Known(shared, memory, feesShed), ow, wk, outages)
      BY DEF RateInv, SpentInv
    <3> QED BY <2>1, <3>1, <3>2
  <2> QED BY <2>3, <2>4
<1>8. SlotsOk(slot')
  BY <1>1, <1>2
<1> QED BY <1>3, <1>5, <1>6, <1>7, <1>8, StoreKeeps

LEMMA LimitLose == ASSUME RateInv, LoseStore  PROVE RateInv'
<1>1. /\ backend # "memory" /\ storeUp /\ ~storeUp' /\ storeUp' \in BOOLEAN /\ outages' = outages + 1
      /\ UNCHANGED <<backend, degraded, shared, memory, feesShed, slot, spent, rolls>>
  BY DEF LoseStore, mapVars
<1>2. outages \in Nat /\ RateTyped
  BY DEF RateInv, RateTyped
<1>3. RateTyped' /\ Fallen'
  BY <1>1, <1>2 DEF RateTyped, Fallen
<1>4. ASSUME NEW b \in Bucket  PROVE BucketInv(b)'
  <2> DEFINE a == Cardinality(Armed(slot, b))  sh == shared[b]  mm == InMem(memory, b)
  <2>0. /\ BucketOk(b, OnShared, sh, mm, a, Loss, Degrading)
        /\ sh \in Nat /\ mm \in Nat /\ a \in Nat /\ Loss \in Nat /\ a <= SlotCount
        /\ OnShared \in BOOLEAN /\ Degrading \in BOOLEAN
    BY Numbers DEF RateInv, BucketInv
  <2>1. a' = a /\ sh' = sh /\ mm' = mm
    BY <1>1
  <2> HIDE DEF a, sh, mm
  <2>2. CASE backend = "redis"
    <3>1. ~OnShared' /\ Degrading'
      BY <1>1, <2>2 DEF OnShared, Degrading
    <3>2. Loss' = Loss + SlotCount
      <4>1. SlotCount \in Nat /\ SlotCount' = SlotCount
        BY UnitIs
      <4>2. Loss' = SlotCount * (outages + 1) /\ Loss = SlotCount * outages
        BY <1>1, <2>2 DEF Loss
      <4>3. SlotCount * (outages + 1) = SlotCount * outages + SlotCount
        BY <1>2, <4>1
      <4> QED BY <4>2, <4>3
    <3>3. BucketOk(b, FALSE, sh, mm, a, Loss + SlotCount, TRUE)
      BY <2>0, Degraded
    <3>4. BucketOk(b, FALSE, sh', mm', a', Loss', TRUE)
      BY <2>1, <3>2, <3>3
    <3> QED BY <3>1, <3>4 DEF BucketInv, BucketOk, Live, a, sh, mm
  <2>3. CASE backend # "redis"
    <3>1. (OnShared' <=> OnShared) /\ (Degrading' <=> Degrading) /\ Loss' = Loss
      BY <1>1, <2>3 DEF OnShared, Degrading, Loss
    <3>2. BucketOk(b, OnShared, sh', mm', a', Loss', Degrading)
      BY <2>0, <2>1, <3>1
    <3> QED BY <3>1, <3>2 DEF BucketInv, BucketOk, Live, a, sh, mm
  <2> QED BY <2>2, <2>3
<1>5. SpentInv'
  <2> SUFFICES ASSUME backend # "redis"
               PROVE  SpentOk(storeUp, spent, Known(shared, memory, feesShed),
                              Cardinality(Owing(slot)), Cardinality(Settling(slot)), outages)'
    BY <1>1 DEF SpentInv
  <2> DEFINE f == Known(shared, memory, feesShed)
             ow == Cardinality(Owing(slot))  wk == Cardinality(Settling(slot))
             rc == Cardinality(Payers(slot))
  <2>1. f \in Nat /\ ow \in Nat /\ wk \in Nat
    BY Numbers
  <2>2. spent \in Nat /\ SpentOk(TRUE, spent, f, ow, wk, outages)
    BY <1>1 DEF RateInv, RateTyped, SpentInv, SpentOk
  <2>3. ow <= rc * MaxFee /\ rc + wk <= SlotCount
    BY <1>2, OwingBound DEF RateTyped
  <2>4. Payers(slot) \subseteq Slot
    BY DEF Payers
  <2>5. rc \in Nat
    BY <2>4, Counts
  <2>6. (OnShared' <=> OnShared)
    BY <1>1 DEF OnShared, Degrading
  <2>7. f' = f /\ ow' = ow /\ wk' = wk /\ spent' = spent
    BY <1>1, <2>6 DEF Known, Live, Bound, Room, SlotCount, Unit
  <2> HIDE DEF f, ow, wk, rc
  <2>8. SpentOk(FALSE, spent, f, ow, wk, outages + 1)
    BY <1>2, <2>1, <2>2, <2>3, <2>5, SpentLost
  <2>9. SpentOk(FALSE, spent', f', ow', wk', outages')
    BY <1>1, <2>7, <2>8
  <2> QED BY <1>1, <2>9 DEF SpentOk, f, ow, wk
<1> QED BY <1>3, <1>4, <1>5 DEF RateInv

\* Redis answers again: counting returns to it.
LEMMA Returned ==
    ASSUME RateInv, UNCHANGED <<backend, shared, memory, feesShed, slot, spent, outages, rolls>>,
           storeUp', storeUp' \in BOOLEAN, degraded' \in BOOLEAN, degraded' => degraded
    PROVE  RateInv'
<1>1. RateTyped /\ Fallen
  BY DEF RateInv
<1>2. RateTyped' /\ Fallen'
  BY <1>1 DEF RateTyped, Fallen
<1>3. Loss' = Loss
  BY DEF Loss
<1>4. ASSUME NEW b \in Bucket  PROVE BucketInv(b)'
  <2> DEFINE a == Cardinality(Armed(slot, b))  sh == shared[b]  mm == InMem(memory, b)
  <2>0. /\ BucketOk(b, OnShared, sh, mm, a, Loss, Degrading)
        /\ sh \in Nat /\ mm \in Nat /\ a \in Nat /\ Loss \in Nat /\ a <= SlotCount
        /\ OnShared \in BOOLEAN /\ Degrading \in BOOLEAN
    BY Numbers DEF RateInv, BucketInv
  <2>1. a' = a /\ sh' = sh /\ mm' = mm
    OBVIOUS
  <2> HIDE DEF a, sh, mm
  <2>2. CASE Degrading /\ ~Degrading'
    <3>1. OnShared'
      BY <2>2 DEF OnShared, Degrading
    <3>2. BucketOk(b, OnShared, sh, mm, a, Loss, TRUE)
      BY <2>0, <2>2 DEF BucketOk
    <3>3. BucketOk(b, TRUE, sh, mm, a, Loss, FALSE)
      BY <2>0, <3>2, Recovered
    <3>4. BucketOk(b, TRUE, sh', mm', a', Loss', FALSE)
      BY <1>3, <2>1, <3>3
    <3> QED BY <2>2, <3>1, <3>4 DEF BucketInv, BucketOk, Live, a, sh, mm
  <2>3. CASE ~(Degrading /\ ~Degrading')
    <3>1. (OnShared' <=> OnShared) /\ (Degrading' <=> Degrading)
      BY <2>3, <1>1 DEF OnShared, Degrading, RateTyped
    <3>2. BucketOk(b, OnShared, sh', mm', a', Loss', Degrading)
      BY <1>3, <2>0, <2>1
    <3> QED BY <3>1, <3>2 DEF BucketInv, BucketOk, Live, a, sh, mm
  <2> QED BY <2>2, <2>3
<1>5. SpentInv'
  <2> SUFFICES ASSUME backend # "redis"
               PROVE  SpentOk(storeUp, spent, Known(shared, memory, feesShed),
                              Cardinality(Owing(slot)), Cardinality(Settling(slot)), outages)'
    BY DEF SpentInv
  <2> DEFINE f == Known(shared, memory, feesShed)
             ow == Cardinality(Owing(slot))  wk == Cardinality(Settling(slot))
  <2>1. f \in Nat /\ ow \in Nat /\ wk \in Nat
    BY Numbers
  <2>2. spent \in Nat /\ outages \in Nat /\ SpentOk(storeUp, spent, f, ow, wk, outages)
    BY DEF RateInv, RateTyped, SpentInv
  <2>6. (OnShared' <=> OnShared)
    BY DEF OnShared, Degrading
  <2>7. f' = f /\ ow' = ow /\ wk' = wk /\ spent' = spent /\ outages' = outages
    BY <2>6 DEF Known, Live, Bound, Room, SlotCount, Unit
  <2> HIDE DEF f, ow, wk
  <2>8. SpentOk(TRUE, spent, f, ow, wk, outages)
    <3>1. CASE storeUp
      BY <2>2, <3>1 DEF SpentOk
    <3>2. CASE ~storeUp
      <4>1. SpentOk(FALSE, spent, f, ow, wk, outages)
        BY <2>2, <3>2 DEF SpentOk
      <4> QED BY <2>1, <2>2, <4>1, SpentRegained
    <3> QED BY <3>1, <3>2
  <2>9. SpentOk(TRUE, spent', f', ow', wk', outages')
    BY <2>7, <2>8
  <2> QED BY <2>9 DEF SpentOk, f, ow, wk
<1> QED BY <1>2, <1>4, <1>5 DEF RateInv

LEMMA LimitRegain == ASSUME RateInv, RegainStore \/ RecoverRedis  PROVE RateInv'
<1>1. degraded \in BOOLEAN
  BY DEF RateInv, RateTyped
<1>2. CASE RegainStore
  BY <1>1, <1>2, Returned DEF RegainStore, mapVars
<1>3. CASE RecoverRedis
  BY <1>1, <1>3, Returned DEF RecoverRedis, mapVars
<1> QED BY <1>2, <1>3

\* The others fill the memory's map.
LEMMA LimitShed == ASSUME RateInv, ShedByOthers  PROVE RateInv'
<1>1. /\ Shed(memory)
      /\ UNCHANGED <<backend, storeUp, degraded, shared, slot, spent, outages, rolls>>
  BY DEF ShedByOthers
<1>2. /\ shared \in [Bucket -> Nat] /\ MemOk(memory) /\ SlotsOk(slot)
      /\ spent \in Nat /\ rolls \in Nat /\ feesShed \in Nat
  BY DEF RateInv, RateTyped
<1>3. /\ MemOk(memory') /\ feesShed' \in Nat
      /\ \A b \in Bucket : InMem(memory', b) <= InMem(memory, b)
      /\ ShedFees(memory) \/ KeptFees(memory)
  BY <1>1, <1>2, ShedOk
<1>4. SameStore
  BY <1>1 DEF SameStore
<1>5. ASSUME NEW b \in Bucket  PROVE NextBucket(b)
  <2> DEFINE a == Cardinality(Armed(slot, b))  sh == shared[b]  mm == InMem(memory, b)
             mm2 == InMem(memory', b)
  <2>1. /\ BucketOk(b, OnShared, sh, mm, a, Loss, Degrading)
        /\ sh \in Nat /\ mm \in Nat /\ a \in Nat /\ Loss \in Nat
        /\ OnShared \in BOOLEAN /\ Degrading \in BOOLEAN
    BY Numbers DEF RateInv, BucketInv
  <2>2. mm2 \in Nat /\ mm2 <= mm /\ sh <= sh /\ a <= a
    BY <1>3, <2>1 DEF MemOk, InMem
  <2>3. shared'[b] = sh /\ Cardinality(Armed(slot', b)) = a
    BY <1>1
  <2> HIDE DEF a, sh, mm, mm2
  <2>4. BucketOk(b, OnShared, sh, mm2, a, Loss, Degrading)
    BY <2>1, <2>2, Lowered
  <2> QED BY <2>3, <2>4 DEF NextBucket, mm2
<1>6. NextSpent
  <2> SUFFICES ASSUME backend # "redis"
               PROVE  SpentOk(storeUp, spent', Known(shared', memory', feesShed'),
                              Cardinality(Owing(slot')), Cardinality(Settling(slot')), outages)
    BY DEF NextSpent
  <2> DEFINE f == Known(shared, memory, feesShed)  f2 == Known(shared', memory', feesShed')
             ow == Cardinality(Owing(slot))  wk == Cardinality(Settling(slot))
             B == Bound("fee", 0)
  <2>1. /\ f \in Nat /\ ow \in Nat /\ wk \in Nat /\ B \in Nat /\ "fee" \in Bucket
        /\ shared["fee"] \in Nat /\ InMem(memory, "fee") \in Nat
    BY Numbers
  <2>2. /\ storeUp \in BOOLEAN /\ outages \in Nat /\ SpentOk(storeUp, spent, f, ow, wk, outages)
    BY DEF RateInv, RateTyped, SpentInv
  <2>3. InMem(memory, "fee") <= B /\ InMem(memory', "fee") \in Nat
    BY <1>3, <2>1 DEF RateInv, BucketInv, BucketOk, Loss, MemOk, InMem
  <2>4. /\ feesShed * B \in Nat /\ (feesShed + 1) * B = feesShed * B + B
        /\ feesShed' * B \in Nat
    BY <1>2, <1>3, <2>1, Times
  <2>5. f2 \in Nat /\ f2 >= f
    <3> DEFINE n == feesShed * B  n2 == feesShed' * B  old == InMem(memory, "fee")
               new == InMem(memory', "fee")  on == OnShared  sh == shared["fee"]
    <3>1. f = (IF on THEN sh ELSE old) + n /\ f2 = (IF on THEN sh ELSE new) + n2
      BY <1>1 DEF Known, Live
    <3>2. n \in Nat /\ n2 \in Nat /\ old \in Nat /\ new \in Nat /\ old <= B /\ sh \in Nat
      BY <2>1, <2>3, <2>4
    <3>3. \/ n2 = n + B
          \/ n2 = n /\ new = old
      BY <1>3, <2>4 DEF ShedFees, KeptFees
    <3> HIDE DEF n, n2, old, new, on, sh, B, f, f2
    <3>4. B \in Nat
      BY <2>1
    <3> QED BY <3>1, <3>2, <3>3, <3>4
  <2>6. storeUp => f2 + ow >= f + ow
    BY <2>1, <2>5
  <2>7. wk <= wk /\ spent \in Nat
    BY <1>2, <2>1
  <2>8. /\ spent' = spent /\ Cardinality(Owing(slot')) = ow
        /\ Cardinality(Settling(slot')) = wk
    BY <1>1
  <2> HIDE DEF f, f2, ow, wk
  <2>9. SpentOk(storeUp, spent, f2, ow, wk, outages)
    BY <2>1, <2>2, <2>5, <2>6, <2>7, SpentCounted
  <2> QED BY <2>8, <2>9 DEF f2, ow, wk
<1>7. shared' \in [Bucket -> Nat] /\ SlotsOk(slot') /\ spent' \in Nat /\ rolls' \in Nat
  BY <1>1, <1>2
<1> QED BY <1>3, <1>4, <1>5, <1>6, <1>7, StoreKeeps

LEMMA LimitInit == RateInit => RateInv
<1> SUFFICES ASSUME RateInit PROVE RateInv
  OBVIOUS
<1>1. /\ storeUp = TRUE /\ degraded = FALSE /\ shared = [b \in Bucket |-> 0]
      /\ memory = [b \in {} |-> 0] /\ slot = [s \in Slot |-> IdleSlot]
      /\ spent = 0 /\ feesShed = 0 /\ outages = 0 /\ rolls = 0
  BY DEF RateInit
<1>2. SlotOk(IdleSlot) /\ (\A b \in Bucket : ~ArmedAt(IdleSlot, b)) /\ IdleSlot.at = "idle"
  BY IdleOk DEF IdleSlot
<1>3. IdleSlot \in SlotRec
  BY <1>2 DEF SlotOk
<1>4. slot \in [Slot -> SlotRec] /\ \A s \in Slot : slot[s] = IdleSlot
  BY <1>1, <1>3
<1>5. SlotsOk(slot)
  BY <1>2, <1>4 DEF SlotsOk
<1>6. MemOk(memory) /\ \A b \in Bucket : InMem(memory, b) = 0
  <2>1. DOMAIN memory = {}
    BY <1>1
  <2> QED BY <1>1, <2>1 DEF MemOk, InMem
<1>7. RateTyped /\ Fallen
  BY <1>1, <1>5, <1>6 DEF RateTyped, Fallen
<1>8. ~Degrading
  BY <1>1 DEF Degrading
<1>9. ASSUME NEW b \in Bucket  PROVE BucketInv(b)
  <2>1. Armed(slot, b) = {}
    BY <1>2, <1>4 DEF Armed
  <2>2. Cardinality(Armed(slot, b)) = 0
    BY <2>1, FS_EmptySet
  <2>3. Loss \in Nat /\ Unit(b) \in Nat
    BY <1>1, UnitIs DEF Loss
  <2>4. Bound(b, Loss) \in Nat /\ 0 * Unit(b) = 0
    BY <2>3, UnitIs
  <2>5. shared[b] = 0 /\ InMem(memory, b) = 0
    BY <1>1, <1>6
  <2>6. Live(OnShared, shared[b], InMem(memory, b)) = 0
    BY <2>5 DEF Live
  <2> QED BY <1>8, <2>2, <2>4, <2>5, <2>6 DEF BucketInv, BucketOk
<1>10. SpentInv
  <2>1. Owing(slot) \in SUBSET (Slot \X (1..MaxFee)) /\ Cardinality(Owing(slot)) \in Nat
    BY OwingIs DEF Owing
  <2>2. Known(shared, memory, feesShed) = 0
    <3>1. Bound("fee", 0) \in Nat /\ "fee" \in Bucket
      BY UnitIs DEF Bucket
    <3>2. 0 * Bound("fee", 0) = 0
      BY <3>1
    <3> QED BY <1>1, <1>6, <3>1, <3>2 DEF Known, Live
  <2>3. Lost(outages) \in Nat
    BY <1>1, LostIs
  <2> QED BY <1>1, <2>1, <2>2, <2>3 DEF SpentInv, SpentOk
<1> QED BY <1>7, <1>9, <1>10 DEF RateInv

LEMMA SpentBounded ==
    ASSUME RateInv, backend # "redis"
    PROVE  spent <= (feesShed + 1) * Bound("fee", 0) + Lost(outages)
<1> DEFINE f == Live(OnShared, shared["fee"], InMem(memory, "fee"))  k == Known(shared, memory, feesShed)
           ow == Cardinality(Owing(slot))  wk == Cardinality(Settling(slot))
           rc == Cardinality(Payers(slot))  a == Cardinality(Armed(slot, "fee"))
<1>1. f \in Nat /\ ow \in Nat /\ wk \in Nat /\ a \in Nat /\ "fee" \in Bucket
  BY Numbers
<1>2. /\ spent \in Nat /\ outages \in Nat /\ SlotsOk(slot) /\ storeUp \in BOOLEAN
      /\ SpentOk(storeUp, spent, k, ow, wk, outages)
  BY DEF RateInv, RateTyped, SpentInv
<1>3. Loss = 0 /\ Unit("fee") = MaxFee
  BY DEF Loss, Unit
<1>4. f + a * MaxFee <= Bound("fee", 0) /\ Bound("fee", 0) \in Nat
  <2>1. BucketInv("fee")
    BY <1>1 DEF RateInv
  <2> QED BY <1>1, <1>3, <2>1, UnitIs DEF BucketInv, BucketOk
<1>5. ow <= rc * MaxFee /\ rc <= a
  BY <1>2, OwingBound
<1>6. Payers(slot) \subseteq Slot
  BY DEF Payers
<1>7. rc \in Nat
  BY <1>6, Counts
<1>8. MaxFee \in Nat /\ Lost(outages) \in Nat
  BY <1>2, LostIs
<1>9. rc * MaxFee <= a * MaxFee /\ rc * MaxFee \in Nat /\ a * MaxFee \in Nat /\ wk * MaxFee \in Nat
  BY <1>1, <1>5, <1>7, <1>8, Times
<1>n. /\ feesShed * Bound("fee", 0) \in Nat
      /\ (feesShed + 1) * Bound("fee", 0) = feesShed * Bound("fee", 0) + Bound("fee", 0)
  BY Numbers, Times
<1> DEFINE n == feesShed * Bound("fee", 0)
<1>k. k = f + n /\ n \in Nat
  BY <1>n DEF Known
<1> DEFINE x == rc * MaxFee  y == a * MaxFee  z == wk * MaxFee  l == Lost(outages)  B == Bound("fee", 0)
<1>10. /\ x \in Nat /\ y \in Nat /\ z \in Nat /\ l \in Nat /\ B \in Nat /\ x <= y /\ ow <= x
       /\ f + y <= B /\ (IF storeUp THEN spent <= k + ow + l ELSE spent + z <= k + l)
  BY <1>2, <1>4, <1>5, <1>8, <1>9 DEF SpentOk
<1> HIDE DEF f, k, n, ow, wk, rc, a, x, y, z, l, B
<1>11. spent <= n + B + l
  BY <1>1, <1>2, <1>10, <1>k
<1> QED BY <1>n, <1>11 DEF B, l, n

\* What src/src/rate-limit.js lets past its limits, for any number of concurrent
\* requests, limits and losses of the store: a bucket of any of the three stores
\* exceeds its limit by no more than the requests in flight beside the one that
\* fits, and as many again for each loss of Redis; and on Postgres or in memory the
\* fees sponsored in a day exceed feeSpd by no more than the dearest transaction of
\* each of those, and of every slot for each outage that lost its records; and in
\* memory as much can be sponsored again for each time the map shed the fee bucket.
THEOREM LimitsKeptTheorem == RateSpec => []LimitsKept
<1>1. RateInit => RateInv
  BY LimitInit
<1>2. RateInv /\ [RateNext]_rateVars => RateInv'
  <2> SUFFICES ASSUME RateInv, [RateNext]_rateVars  PROVE RateInv'
    OBVIOUS
  <2>1. CASE UNCHANGED rateVars
    BY <2>1 DEF rateVars, RateInv, RateTyped, Fallen, BucketInv, SpentInv, Known, Loss, OnShared,
         Degrading, Bound, Room, SlotCount, Unit
  <2> QED BY <2>1, LimitArrive, LimitCheck, LimitWork, LimitRecord, LimitRoll, LimitShed,
             LimitLose, LimitRegain DEF RateNext
<1>3. RateInv => LimitsKept
  <2> SUFFICES ASSUME RateInv PROVE LimitsKept
    OBVIOUS
  <2>1. ASSUME NEW b \in Bucket
        PROVE  LET over   == SlotCount - 1 + (IF backend = "redis" THEN SlotCount * outages ELSE 0)
                   excess == over * (IF b = "fee" THEN MaxFee ELSE 1)
               IN shared[b] <= BucketLimit[b] + excess
                  /\ InMemory(b) <= BucketLimit[b] + excess
    <3>1. shared[b] <= Bound(b, Loss) /\ InMem(memory, b) <= Bound(b, Loss)
      BY DEF RateInv, BucketInv, BucketOk
    <3>2. InMem(memory, b) = InMemory(b)
      BY DEF InMem, InMemory
    <3> QED BY <3>1, <3>2 DEF Bound, Room, Loss, Unit
  <2>2. ASSUME backend # "redis"
        PROVE  spent <= (feesShed + 1) * Ceiling + outages * SlotCount * MaxFee
    <3>1. spent <= (feesShed + 1) * Bound("fee", 0) + Lost(outages)
      BY <2>2, SpentBounded
    <3>2. SlotCount \in Nat \ {0} /\ MaxFee \in Nat /\ outages \in Nat
      BY UnitIs, RateAssumption DEF RateInv, RateTyped
    <3>3. Bound("fee", 0) = Ceiling
      <4>1. Bound("fee", 0) = BucketLimit["fee"] + (SlotCount - 1 + 0) * MaxFee
        BY DEF Bound, Room, Unit
      <4>2. SlotCount - 1 + 0 = SlotCount - 1
        BY <3>2
      <4> QED BY <4>1, <4>2 DEF Ceiling
    <3>4. Lost(outages) = outages * SlotCount * MaxFee
      BY <3>2 DEF Lost
    <3> QED BY <3>1, <3>3, <3>4
  <2> QED BY <2>1, <2>2 DEF LimitsKept
<1> QED BY <1>1, <1>2, <1>3, PTL DEF RateSpec
=============================================================================
