------------------------------ MODULE QuotaProofs ------------------------------
(***************************************************************************)
(* Proofs about the reservations of module Quota: by how much concurrent   *)
(* requests can pass a hard limit, and that an answered request holds      *)
(* nothing back, for every number of requests, codes, quantities, limits,  *)
(* movable databases and connections.                                      *)
(***************************************************************************)
EXTENDS Quota, FiniteSetTheorems, SequenceTheorems, TLAPS

Deciding  == {"begin", "locking", "locked", "decide"}
Reserving == Deciding \union {"count"}

\* What a request has kept by the time it is at its step.
Fit(r) ==
    /\ step[r] = "idle" => moving[r] = NoMove /\ got[r] = "none"
    /\ step[r] = "idle" \/ moving[r] # NoMove => \A c \in Codes : rows[<<r, c>>] = NoReservation
    /\ step[r] \in Reserving => plan[r] # <<>>
    /\ step[r] \in Deciding => used[r] # Unread
    /\ moving[r] = NoMove => got[r] # "reused"
    /\ moving[r] # NoMove => plan[r] \in {<<>>, <<[code |-> MoveCode, quantity |-> 1]>>}
    /\ moving[r] # NoMove /\ step[r] = "persist" => got[r] # "none"
    /\ \A c \in Codes : rows[<<r, c>>].quantity <= Most[c]

Shape == QuotaTypeOK /\ AnsweredHoldsNothing /\ \A r \in Creators : Fit(r)

\* What a request may still add under a code: what it has reserved, or what its
\* count, however old, leaves room for.
Promise(r, c) ==
    IF moving[r] = NoMove THEN rows[<<r, c>>].quantity
    ELSE IF c = MoveCode /\ got[r] = "checked" THEN 1 ELSE 0

Claim(r, c) ==
    IF step[r] \in Deciding /\ CodeOf(r) = c
    THEN IF used[r] + Head(plan[r]).quantity <= Limit[c] THEN Head(plan[r]).quantity ELSE 0
    ELSE IF step[r] \in Reserving \union {"persist"} THEN Promise(r, c) ELSE 0

\* The sum of f over the requests in S, as the number of its units.
Units(f, S, m) == {u \in S \X (1..m) : u[2] <= f[u[1]]}

Claims(c) == Cardinality(Units([r \in Creators |-> Claim(r, c)], Creators, Most[c]))

\* What exists, without what came back unchecked.
Base(c) == resources[c] + (IF c = MoveCode THEN Cardinality(arrived \ unchecked) ELSE 0)

\* A claim is made only while there is room, and is given up or redeemed once.
ClaimsBounded ==
    \A c \in Codes : Base(c) + Claims(c) <= Limit[c] + (Cardinality(Creators) - 1) * Most[c]

QuotaInv == Shape /\ ClaimsBounded

-----------------------------------------------------------------------------
(* Counting                                                                *)

LEMMA CreatorsFinite ==
    /\ IsFiniteSet(Creators)
    /\ Cardinality(Creators) \in Nat \ {0}
  <1>1. IsFiniteSet(Creators) /\ Creators # {}
    BY QuotaAssumption
  <1>2. Cardinality(Creators) \in Nat
    BY <1>1, FS_CardinalityType
  <1>3. Cardinality(Creators) # 0
    BY <1>1, FS_EmptySet
  <1> QED BY <1>1, <1>2, <1>3

\* The others' part of a sum is at most (n - 1) * m, and one request's part is its own.
LEMMA UnitsSplit ==
    ASSUME NEW m \in Nat, NEW f \in [Creators -> 0..m], NEW r \in Creators
    PROVE  /\ Cardinality(Units(f, Creators \ {r}, m)) \in Nat
           /\ Cardinality(Units(f, Creators \ {r}, m)) <= (Cardinality(Creators) - 1) * m
           /\ Cardinality(Units(f, Creators, m))
                = Cardinality(Units(f, Creators \ {r}, m)) + f[r]
  <1> DEFINE O == Units(f, Creators \ {r}, m)
             R == {r} \X (1..f[r])
  <1>1. /\ IsFiniteSet(Creators \ {r})
        /\ Cardinality(Creators \ {r}) = Cardinality(Creators) - 1
    BY CreatorsFinite, FS_RemoveElement
  <1>2. IsFiniteSet(1..m) /\ Cardinality(1..m) = m
    BY FS_Interval
  <1>3. /\ IsFiniteSet((Creators \ {r}) \X (1..m))
        /\ Cardinality((Creators \ {r}) \X (1..m)) = (Cardinality(Creators) - 1) * m
    <2>1. /\ IsFiniteSet((Creators \ {r}) \X (1..m))
          /\ Cardinality((Creators \ {r}) \X (1..m)) = Cardinality(Creators \ {r}) * Cardinality(1..m)
      BY <1>1, <1>2, FS_Product
    <2> QED BY <1>1, <1>2, <2>1
  <1>4. O \in SUBSET ((Creators \ {r}) \X (1..m))
    BY DEF Units
  <1>5. /\ IsFiniteSet(O) /\ Cardinality(O) \in Nat
        /\ Cardinality(O) <= (Cardinality(Creators) - 1) * m
    <2>1. IsFiniteSet(O) /\ Cardinality(O) <= Cardinality((Creators \ {r}) \X (1..m))
      BY <1>3, <1>4, FS_Subset
    <2> QED BY <1>3, <2>1, FS_CardinalityType
  <1>6. f[r] \in Nat /\ f[r] <= m
    OBVIOUS
  <1>7. IsFiniteSet(1..f[r]) /\ Cardinality(1..f[r]) = f[r]
    BY <1>6, FS_Interval
  <1>8. IsFiniteSet(R) /\ Cardinality(R) = f[r]
    <2>1. IsFiniteSet({r}) /\ Cardinality({r}) = 1
      BY FS_Singleton
    <2>2. IsFiniteSet(R) /\ Cardinality(R) = Cardinality({r}) * Cardinality(1..f[r])
      BY <1>7, <2>1, FS_Product
    <2> QED BY <1>6, <1>7, <2>1, <2>2
  <1>9. Units(f, Creators, m) = O \union R /\ O \intersect R = {}
    BY <1>6 DEF Units
  <1>10. Cardinality(O \union R) = Cardinality(O) + Cardinality(R)
    <2>1. Cardinality(O \union R) = Cardinality(O) + Cardinality(R) - Cardinality(O \intersect R)
      BY <1>5, <1>8, FS_Union
    <2>2. Cardinality(O \intersect R) = 0
      BY <1>9, FS_EmptySet
    <2> HIDE DEF O, R
    <2> QED BY <1>5, <1>6, <1>8, <2>1, <2>2
  <1> QED BY <1>5, <1>8, <1>9, <1>10

LEMMA UnitsSame ==
    ASSUME NEW m \in Nat, NEW f, NEW g, NEW S, \A q \in S : f[q] = g[q]
    PROVE  Units(f, S, m) = Units(g, S, m)
  BY DEF Units

LEMMA LimitsAreNumbers ==
    ASSUME NEW c \in Codes
    PROVE  /\ Limit[c] \in Nat
           /\ Most[c] \in Nat \ {0}
           /\ (Cardinality(Creators) - 1) * Most[c] \in Nat
  <1>1. Limit[c] \in Nat /\ Most[c] \in Nat \ {0}
    BY QuotaAssumption
  <1>2. Cardinality(Creators) - 1 \in Nat
    BY CreatorsFinite
  <1>3. \A a, b \in Nat : a * b \in Nat
    OBVIOUS
  <1> QED BY <1>1, <1>2, <1>3

LEMMA ArrivedFinite ==
    ASSUME QuotaTypeOK
    PROVE  /\ IsFiniteSet(arrived) /\ IsFiniteSet(arrived \ unchecked)
           /\ Cardinality(arrived \ unchecked) \in Nat
           /\ Cardinality(unchecked) \in Nat
           /\ Cardinality(arrived) = Cardinality(arrived \ unchecked) + Cardinality(unchecked)
  <1>1. IsFiniteSet(arrived)
    BY QuotaAssumption, FS_Subset DEF QuotaTypeOK
  <1>2. /\ IsFiniteSet(arrived \ unchecked)
        /\ Cardinality(arrived \ unchecked) = Cardinality(arrived) - Cardinality(arrived \intersect unchecked)
    BY <1>1, FS_Difference
  <1>3. arrived \intersect unchecked = unchecked /\ unchecked \in SUBSET arrived
    BY DEF QuotaTypeOK
  <1>4. IsFiniteSet(unchecked)
    BY <1>1, <1>3, FS_Subset
  <1>5. /\ Cardinality(arrived) \in Nat /\ Cardinality(unchecked) \in Nat
        /\ Cardinality(arrived \ unchecked) \in Nat
    BY <1>1, <1>2, <1>4, FS_CardinalityType
  <1> QED BY <1>1, <1>2, <1>3, <1>5

LEMMA BaseType ==
    ASSUME QuotaTypeOK, NEW c \in Codes
    PROVE  /\ Base(c) \in Nat
           /\ Base(c) <= Count(c)
           /\ Count(c) \in Nat
           /\ Count(c) = Base(c) + (IF c = MoveCode THEN Cardinality(unchecked) ELSE 0)
  <1>1. resources[c] \in Nat
    BY DEF QuotaTypeOK
  <1> QED BY <1>1, ArrivedFinite DEF Base, Count

LEMMA PendingSumType ==
    ASSUME QuotaTypeOK, NEW c \in Codes
    PROVE  PendingSum(c) \in Nat
  <1> DEFINE P == {u \in KeysOf(c) \X (1..Most[c]) :
                      rows[u[1]].status = "pending" /\ u[2] <= rows[u[1]].quantity}
  <1>1. IsFiniteSet(Creators \X {c})
    BY CreatorsFinite, FS_Singleton, FS_Product
  <1>2. IsFiniteSet(KeysOf(c))
    <2>1. IsFiniteSet(IF c = MoveCode THEN Movable ELSE {})
      BY QuotaAssumption, FS_EmptySet
    <2> QED BY <1>1, <2>1, FS_Union DEF KeysOf
  <1>3. IsFiniteSet(1..Most[c])
    BY LimitsAreNumbers, FS_Interval
  <1>4. IsFiniteSet(KeysOf(c) \X (1..Most[c]))
    BY <1>2, <1>3, FS_Product
  <1>5. P \in SUBSET (KeysOf(c) \X (1..Most[c]))
    OBVIOUS
  <1>6. IsFiniteSet(P)
    BY <1>4, <1>5, FS_Subset
  <1>7. Cardinality(P) \in Nat
    BY <1>6, FS_CardinalityType
  <1> QED BY <1>7 DEF PendingSum

LEMMA HeadIsItem ==
    ASSUME QuotaTypeOK, NEW r \in Creators, plan[r] # <<>>
    PROVE  /\ Head(plan[r]) \in Item
           /\ CodeOf(r) \in Codes
           /\ Head(plan[r]).quantity \in 1..Most[CodeOf(r)]
           /\ Tail(plan[r]) \in Seq(Item)
           /\ Len(plan[r]) # 1 => Tail(plan[r]) # <<>>
  <1>1. plan[r] \in Seq(Item)
    BY DEF QuotaTypeOK
  <1>2. /\ Head(plan[r]) \in Item
        /\ Tail(plan[r]) \in Seq(Item)
        /\ Len(Tail(plan[r])) = Len(plan[r]) - 1
    BY <1>1, HeadTailProperties
  <1>3. Len(plan[r]) \in Nat
    BY <1>1, LenProperties
  <1>4. Tail(plan[r]) = <<>> => Len(Tail(plan[r])) = 0
    BY EmptySeq
  <1>5. Len(plan[r]) # 1 => Tail(plan[r]) # <<>>
    BY <1>2, <1>3, <1>4
  <1>6. /\ CodeOf(r) \in Codes
        /\ Head(plan[r]).quantity \in Nat \ {0}
        /\ Head(plan[r]).quantity <= Most[CodeOf(r)]
    BY <1>2 DEF Item, CodeOf
  <1>7. Most[CodeOf(r)] \in Nat
    BY <1>6, LimitsAreNumbers
  <1> QED BY <1>2, <1>5, <1>6, <1>7

LEMMA ClaimType ==
    ASSUME Shape, NEW r \in Creators, NEW c \in Codes
    PROVE  Claim(r, c) \in 0..Most[c]
  <1>1. QuotaTypeOK /\ Fit(r) /\ Most[c] \in Nat \ {0}
    BY LimitsAreNumbers DEF Shape
  <1>2. rows[<<r, c>>].quantity \in 0..Most[c]
    <2>1. <<r, c>> \in Keys
      BY DEF Keys
    <2>2. rows[<<r, c>>].quantity \in Nat
      BY <1>1, <2>1 DEF QuotaTypeOK, Row
    <2> QED BY <1>1, <2>2 DEF Fit
  <1>3. Promise(r, c) \in 0..Most[c]
    BY <1>1, <1>2 DEF Promise
  <1>4. CASE step[r] \in Deciding /\ CodeOf(r) = c
    <2>1. plan[r] # <<>>
      BY <1>1, <1>4 DEF Fit, Reserving
    <2>2. Head(plan[r]).quantity \in 1..Most[c]
      BY <1>1, <1>4, <2>1, HeadIsItem
    <2> QED BY <1>1, <1>4, <2>2 DEF Claim
  <1>5. CASE ~(step[r] \in Deciding /\ CodeOf(r) = c)
    BY <1>1, <1>3, <1>5 DEF Claim
  <1> QED BY <1>4, <1>5

\* The same facts, of the next state as well.
LEMMA NextTypes ==
    /\ Shape => \A r \in Creators, c \in Codes : Claim(r, c) \in 0..Most[c]
    /\ Shape' => \A r \in Creators, c \in Codes : Claim(r, c)' \in 0..Most[c]
    /\ QuotaTypeOK => \A c \in Codes : Base(c) \in Nat
    /\ QuotaTypeOK' => \A c \in Codes : Base(c)' \in Nat
  <1>1. Shape => \A r \in Creators, c \in Codes : Claim(r, c) \in 0..Most[c]
    BY ClaimType
  <1>2. Shape' => (\A r \in Creators, c \in Codes : Claim(r, c) \in 0..Most[c])'
    BY <1>1, PTL
  <1>3. QuotaTypeOK => \A c \in Codes : Base(c) \in Nat
    BY BaseType
  <1>4. QuotaTypeOK' => (\A c \in Codes : Base(c) \in Nat)'
    BY <1>3, PTL
  <1> QED BY <1>1, <1>2, <1>3, <1>4

-----------------------------------------------------------------------------
(* One request acts                                                        *)

\* A reservation as it was, but that it may no longer be pending.
Kept(k) ==
    /\ rows'[k].quantity = rows[k].quantity
    /\ rows'[k].status = "pending" => rows[k].status = "pending"
    /\ rows[k] = NoReservation => rows'[k] = NoReservation

Same(r) ==
    /\ step'[r] = step[r] /\ plan'[r] = plan[r] /\ used'[r] = used[r]
    /\ moving'[r] = moving[r] /\ got'[r] = got[r]

Alone(r) == \A q \in Creators \ {r} : Same(q) /\ \A c \in Codes : Kept(<<q, c>>)

LEMMA OtherFits ==
    ASSUME Shape, NEW q \in Creators, Same(q), \A c \in Codes : Kept(<<q, c>>)
    PROVE  Fit(q)' /\ \A c \in Codes : Claim(q, c)' = Claim(q, c)
  <1>1. Fit(q)'
    BY DEF Shape, Fit, Same, Kept
  <1>2. ASSUME NEW c \in Codes PROVE Claim(q, c)' = Claim(q, c)
    <2>1. Promise(q, c)' = Promise(q, c)
      BY DEF Same, Kept, Promise
    <2>2. CodeOf(q)' = CodeOf(q)
      BY DEF Same, CodeOf
    <2> QED BY <2>1, <2>2 DEF Same, Claim
  <1> QED BY <1>1, <1>2

\* The bound is kept by a step of one request that adds no more than it claimed,
\* or that leaves room for all it may still add.
LEMMA AloneBounded ==
    ASSUME QuotaInv, Shape', NEW r \in Creators, Alone(r), NEW c \in Codes,
           \/ Base(c)' + Claim(r, c)' <= Base(c) + Claim(r, c)
           \/ Base(c)' + Claim(r, c)' <= Limit[c]
    PROVE  Base(c)' + Claims(c)' <= Limit[c] + (Cardinality(Creators) - 1) * Most[c]
  <1>1. PICK m : m = Most[c]
    OBVIOUS
  <1>2. PICK f : f = [q \in Creators |-> Claim(q, c)]
    OBVIOUS
  <1>3. PICK g : g = [q \in Creators |-> Claim(q, c)']
    OBVIOUS
  <1>4. m \in Nat /\ Limit[c] \in Nat
    BY <1>1, LimitsAreNumbers
  <1>5. f \in [Creators -> 0..m]
    BY <1>1, <1>2, ClaimType DEF QuotaInv
  <1>6. g \in [Creators -> 0..m]
    <2>1. \A q \in Creators : Claim(q, c)' \in 0..Most[c]
      BY NextTypes
    <2> QED BY <1>1, <1>3, <2>1
  <1> DEFINE O == Cardinality(Units(f, Creators \ {r}, m))
             B == (Cardinality(Creators) - 1) * m
  <1>7. O \in Nat /\ O <= B /\ Cardinality(Units(f, Creators, m)) = O + f[r]
    BY <1>4, <1>5, UnitsSplit
  <1>8. Cardinality(Units(g, Creators, m)) = O + g[r]
    <2>1. \A q \in Creators \ {r} : f[q] = g[q]
      BY <1>2, <1>3, OtherFits DEF Alone, QuotaInv
    <2>2. Units(g, Creators \ {r}, m) = Units(f, Creators \ {r}, m)
      BY <1>4, <2>1, UnitsSame
    <2> QED BY <1>4, <1>6, <2>2, UnitsSplit
  <1>9. B \in Nat
    BY <1>1, LimitsAreNumbers
  <1>10. Claims(c) = O + Claim(r, c) /\ Claims(c)' = O + Claim(r, c)'
    BY <1>1, <1>2, <1>3, <1>7, <1>8 DEF Claims
  <1>11. Base(c) + Claims(c) <= Limit[c] + B
    BY <1>1 DEF QuotaInv, ClaimsBounded
  <1>12. Base(c) \in Nat /\ Base(c)' \in Nat
    BY NextTypes DEF QuotaInv, Shape
  <1>13. Claim(r, c) \in Nat /\ Claim(r, c)' \in Nat
    BY <1>2, <1>3, <1>5, <1>6
  <1> HIDE DEF O, B
  <1>14. Base(c)' + Claims(c)' <= Limit[c] + B
    BY <1>4, <1>7, <1>9, <1>10, <1>11, <1>12, <1>13
  <1> QED BY <1>1, <1>14 DEF B

-----------------------------------------------------------------------------
(* What the updates of the reservations keep                               *)

LEMMA RowUpdate ==
    ASSUME NEW w \in Row, NEW s \in Statuses
    PROVE  /\ [w EXCEPT !.status = s] \in Row
           /\ [w EXCEPT !.status = s].status = s
           /\ [w EXCEPT !.status = s].quantity = w.quantity
  BY DEF Row

LEMMA NoReservationIsRow == NoReservation \in Row /\ NoReservation.status = "none" /\ NoReservation.quantity = 0
  BY DEF NoReservation, Row, Statuses

LEMMA ExpiredKeeps ==
    ASSUME QuotaTypeOK, NEW c \in Codes
    PROVE  /\ Expired(c) \in [Keys -> Row]
           /\ \A k \in Keys :
                /\ Expired(c)[k].quantity = rows[k].quantity
                /\ Expired(c)[k].status = "pending" => rows[k].status = "pending"
                /\ rows[k] = NoReservation => Expired(c)[k] = NoReservation
  <1>1. ASSUME NEW k \in Keys
        PROVE  /\ Expired(c)[k] \in Row
               /\ Expired(c)[k].quantity = rows[k].quantity
               /\ Expired(c)[k].status = "pending" => rows[k].status = "pending"
               /\ rows[k] = NoReservation => Expired(c)[k] = NoReservation
    <2>1. PICK w : w = rows[k]
      OBVIOUS
    <2>2. PICK e : e = Expired(c)[k]
      OBVIOUS
    <2>3. w \in Row
      BY <2>1 DEF QuotaTypeOK
    <2>4. e = IF k \in KeysOf(c) /\ w.status = "lapsed" THEN [w EXCEPT !.status = "expired"] ELSE w
      BY <2>1, <2>2 DEF Expired
    <2>5. CASE k \in KeysOf(c) /\ w.status = "lapsed"
      <3>1. "expired" \in Statuses /\ w # NoReservation
        BY <2>5, NoReservationIsRow DEF Statuses
      <3>2. e \in Row /\ e.status = "expired" /\ e.quantity = w.quantity
        BY <2>3, <2>4, <2>5, <3>1, RowUpdate
      <3> QED BY <2>1, <2>2, <3>1, <3>2
    <2>6. CASE ~(k \in KeysOf(c) /\ w.status = "lapsed")
      BY <2>1, <2>2, <2>3, <2>4, <2>6
    <2> QED BY <2>5, <2>6
  <1>2. Expired(c) = [k \in Keys |-> Expired(c)[k]]
    BY DEF Expired
  <1> QED BY <1>1, <1>2

LEMMA ClosedKeeps ==
    ASSUME QuotaTypeOK, NEW r \in Creators, NEW s \in {"committed", "released"}
    PROVE  /\ Closed(r, s) \in [Keys -> Row]
           /\ \A k \in Keys :
                /\ k \in Fresh(r) => Closed(r, s)[k] = NoReservation
                /\ k \notin Fresh(r) => Closed(r, s)[k].quantity = rows[k].quantity
                /\ Closed(r, s)[k].status = "pending" => rows[k].status = "pending" /\ k \notin Reserved(r)
                /\ rows[k] = NoReservation => Closed(r, s)[k] = NoReservation
  <1>1. ASSUME NEW k \in Keys
        PROVE  /\ Closed(r, s)[k] \in Row
               /\ k \in Fresh(r) => Closed(r, s)[k] = NoReservation
               /\ k \notin Fresh(r) => Closed(r, s)[k].quantity = rows[k].quantity
               /\ Closed(r, s)[k].status = "pending" => rows[k].status = "pending" /\ k \notin Reserved(r)
               /\ rows[k] = NoReservation => Closed(r, s)[k] = NoReservation
    <2>1. PICK w : w = rows[k]
      OBVIOUS
    <2>2. PICK e : e = Closed(r, s)[k]
      OBVIOUS
    <2>3. w \in Row
      BY <2>1 DEF QuotaTypeOK
    <2> DEFINE mine == k = moving[r] /\ got[r] # "none" /\ w.status \in {"pending", "lapsed"}
    <2>4. e = IF k \in Fresh(r) THEN NoReservation
              ELSE IF mine THEN [w EXCEPT !.status = s] ELSE w
      BY <2>1, <2>2 DEF Closed
    <2>5. CASE k \in Fresh(r)
      BY <2>2, <2>4, <2>5, NoReservationIsRow
    <2>6. CASE k \notin Fresh(r) /\ mine
      <3>1. s \in Statuses /\ w # NoReservation
        BY <2>6, NoReservationIsRow DEF Statuses
      <3>2. e \in Row /\ e.status = s /\ e.quantity = w.quantity
        BY <2>3, <2>4, <2>6, <3>1, RowUpdate
      <3> QED BY <2>1, <2>2, <2>6, <3>1, <3>2
    <2>7. CASE k \notin Fresh(r) /\ ~mine
      <3>1. w.status = "pending" => k \notin Reserved(r)
        BY <2>7 DEF Reserved
      <3> QED BY <2>1, <2>2, <2>3, <2>4, <2>7, <3>1
    <2> QED BY <2>5, <2>6, <2>7
  <1>2. Closed(r, s) = [k \in Keys |-> Closed(r, s)[k]]
    BY DEF Closed
  <1> QED BY <1>1, <1>2

LEMMA KeyFacts ==
    /\ \A r \in Creators, c \in Codes : <<r, c>> \in Keys /\ <<r, c>> \notin Movable /\ <<r, c>> \in Fresh(r)
    /\ \A r \in Creators : \A q \in Creators \ {r}, c \in Codes : <<q, c>> \notin Fresh(r)
    /\ \A d \in Movable : d \in Keys /\ (\A r \in Creators : d \notin Fresh(r))
    /\ NoMove \notin Movable
  BY QuotaAssumption DEF Keys, Fresh

-----------------------------------------------------------------------------
(* Steps                                                                   *)

\* What is to be shown of a step of request r.
Sound(r) ==
    /\ QuotaTypeOK' /\ AnsweredHoldsNothing' /\ Fit(r)' /\ Alone(r)
    /\ \A c \in Codes : \/ Base(c)' + Claim(r, c)' <= Base(c) + Claim(r, c)
                        \/ Base(c)' + Claim(r, c)' <= Limit[c]

LEMMA SoundSuffices ==
    ASSUME QuotaInv, NEW r \in Creators, Sound(r)
    PROVE  QuotaInv'
  <1>1. Shape'
    <2>1. ASSUME NEW q \in Creators PROVE Fit(q)'
      BY OtherFits DEF Sound, Alone, QuotaInv
    <2> QED BY <2>1 DEF Shape, Sound
  <1>2. ASSUME NEW c \in Codes
        PROVE  Base(c)' + Claims(c)' <= Limit[c] + (Cardinality(Creators) - 1) * Most[c]
    BY <1>1, AloneBounded DEF Sound
  <1> QED BY <1>1, <1>2 DEF QuotaInv, ClaimsBounded

\* A request that only moves on, or gives up.
LEMMA MovesOn ==
    ASSUME QuotaInv, NEW r \in Creators,
           NEW s \in {"locking", "locked", "decide", "release", "gone"},
           step[r] # "idle", s \in {"release", "gone"} \/ step[r] \in {"begin", "locking", "locked"},
           step' = [step EXCEPT ![r] = s], moving' = moving, got' = got, counted' = counted,
           rows' \in [Keys -> Row], \A k \in Keys : Kept(k),
           \/ plan' = plan /\ used' = used
           \/ /\ s = "gone"
              /\ plan' = [plan EXCEPT ![r] = <<>>] /\ used' = [used EXCEPT ![r] = Unread]
    PROVE  Sound(r)
  <1>1. Shape /\ QuotaTypeOK /\ Fit(r)
    BY DEF QuotaInv, Shape
  <1>2. QuotaTypeOK'
    <2>1. <<>> \in Seq(Item)
      BY EmptySeq
    <2>2. plan' \in [Creators -> Seq(Item)]
      BY <1>1, <2>1 DEF QuotaTypeOK
    <2>3. used' \in [Creators -> Nat \union {Unread}]
      BY <1>1 DEF QuotaTypeOK
    <2>4. UNCHANGED <<resources, arrived, unchecked>>
      BY DEF counted
    <2> QED BY <1>1, <2>2, <2>3, <2>4 DEF QuotaTypeOK
  <1>3. AnsweredHoldsNothing'
    BY <1>1 DEF Shape, QuotaTypeOK, AnsweredHoldsNothing, Reserved, Kept
  <1>4. step'[r] = s /\ moving'[r] = moving[r] /\ got'[r] = got[r]
    BY <1>1 DEF QuotaTypeOK
  <1>5. s \in Deciding => step[r] \in Deciding /\ plan'[r] = plan[r] /\ used'[r] = used[r]
    BY DEF Deciding
  <1>6. Fit(r)'
    <2>1. \A c \in Codes : Kept(<<r, c>>)
      BY KeyFacts
    <2>2. plan'[r] = plan[r] \/ plan'[r] = <<>>
      BY <1>1 DEF QuotaTypeOK
    <2> QED BY <1>1, <1>4, <1>5, <2>1, <2>2 DEF Fit, Kept, Deciding, Reserving
  <1>7. Alone(r)
    BY <1>1, KeyFacts DEF Alone, Same, QuotaTypeOK
  <1>8. ASSUME NEW c \in Codes PROVE Base(c)' + Claim(r, c)' <= Base(c) + Claim(r, c)
    <2>1. Base(c)' = Base(c)
      BY DEF Base, counted
    <2>2. Base(c) \in Nat /\ Claim(r, c) \in Nat
      BY <1>1, NextTypes
    <2>3. CASE s \in Deciding
      <3>1. Promise(r, c)' = Promise(r, c)
        BY <1>4, KeyFacts DEF Promise, Kept
      <3>2. CodeOf(r)' = CodeOf(r)
        BY <1>5, <2>3 DEF CodeOf
      <3>3. Claim(r, c)' = Claim(r, c)
        BY <1>4, <1>5, <2>3, <3>1, <3>2 DEF Claim, Reserving
      <3> QED BY <2>1, <2>2, <3>3
    <2>4. CASE s \notin Deciding
      <3>1. s \in {"release", "gone"}
        BY <2>4 DEF Deciding
      <3>2. Claim(r, c)' = 0
        BY <1>4, <3>1 DEF Claim, Deciding, Reserving
      <3> QED BY <2>1, <2>2, <3>2
    <2> QED BY <2>3, <2>4
  <1> QED BY <1>2, <1>3, <1>6, <1>7, <1>8 DEF Sound

\* A request that is answered: nothing is left under its random keys.
LEMMA IsAnswered ==
    ASSUME QuotaInv, NEW r \in Creators, step[r] # "idle", Answered(r), counted' = counted,
           rows' \in [Keys -> Row],
           \A k \in Keys : /\ k \in Fresh(r) => rows'[k] = NoReservation
                           /\ k \notin Fresh(r) => rows'[k].quantity = rows[k].quantity
                           /\ rows'[k].status = "pending" => rows[k].status = "pending" /\ k \notin Reserved(r)
                           /\ rows[k] = NoReservation => rows'[k] = NoReservation
    PROVE  Sound(r)
  <1>1. Shape /\ QuotaTypeOK /\ Fit(r)
    BY DEF QuotaInv, Shape
  <1>2. /\ step' = [step EXCEPT ![r] = "idle"]
        /\ plan' = [plan EXCEPT ![r] = <<>>]
        /\ used' = [used EXCEPT ![r] = Unread]
        /\ moving' = [moving EXCEPT ![r] = NoMove]
        /\ got' = [got EXCEPT ![r] = "none"]
    BY DEF Answered, To
  <1>3. QuotaTypeOK'
    BY <1>1, <1>2, EmptySeq DEF QuotaTypeOK, counted, Unread
  <1>4. AnsweredHoldsNothing'
    <2> SUFFICES ASSUME NEW k \in Keys, rows'[k].status = "pending"
                 PROVE  \E q \in Creators : step'[q] # "idle" /\ k \in Reserved(q)'
      BY DEF AnsweredHoldsNothing
    <2>1. PICK q \in Creators : step[q] # "idle" /\ k \in Reserved(q)
      BY <1>1 DEF Shape, AnsweredHoldsNothing
    <2>2. q # r
      BY <2>1
    <2> QED BY <1>1, <1>2, <2>1, <2>2 DEF Reserved, QuotaTypeOK
  <1>5. step'[r] = "idle" /\ moving'[r] = NoMove /\ got'[r] = "none"
    BY <1>1, <1>2 DEF QuotaTypeOK
  <1>6. Fit(r)'
    <2>1. ASSUME NEW c \in Codes PROVE rows'[<<r, c>>] = NoReservation /\ 0 <= Most[c]
      BY KeyFacts, LimitsAreNumbers
    <2> QED BY <1>5, <2>1, NoReservationIsRow DEF Fit, Deciding, Reserving
  <1>7. Alone(r)
    BY <1>1, <1>2, KeyFacts DEF Alone, Same, Kept, QuotaTypeOK
  <1>8. ASSUME NEW c \in Codes PROVE Base(c)' + Claim(r, c)' <= Base(c) + Claim(r, c)
    <2>1. Base(c)' = Base(c)
      BY DEF Base, counted
    <2>2. Base(c) \in Nat /\ Claim(r, c) \in Nat
      BY <1>1, NextTypes
    <2>3. Claim(r, c)' = 0
      BY <1>5 DEF Claim, Deciding, Reserving
    <2> QED BY <2>1, <2>2, <2>3
  <1> QED BY <1>3, <1>4, <1>6, <1>7, <1>8 DEF Sound

\* A request that begins has reserved nothing yet.
LEMMA StartSound ==
    ASSUME QuotaInv, NEW r \in Creators,
           (\E p \in Plans : StartCreate(r, p)) \/ (\E d \in Movable : StartMove(r, d))
    PROVE  Sound(r)
  <1>1. Shape /\ QuotaTypeOK /\ Fit(r)
    BY DEF QuotaInv, Shape
  <1>2. PICK p, d :
            /\ step[r] = "idle" /\ step' = [step EXCEPT ![r] = "count"]
            /\ plan' = [plan EXCEPT ![r] = p] /\ moving' = [moving EXCEPT ![r] = d]
            /\ UNCHANGED <<counted, rows, used, got>>
            /\ \/ p \in Plans /\ d = NoMove
               \/ p = <<[code |-> MoveCode, quantity |-> 1]>> /\ d \in Movable
    <2>1. ASSUME NEW p \in Plans, StartCreate(r, p)
          PROVE  moving' = [moving EXCEPT ![r] = NoMove]
      BY <1>1, <2>1 DEF StartCreate, Fit, QuotaTypeOK
    <2> QED BY <2>1 DEF StartCreate, StartMove, To
  <1>3. p \in Seq(Item) /\ p # <<>> /\ d \in Movable \union {NoMove}
    <2>1. CASE p \in Plans /\ d = NoMove
      BY <2>1, QuotaAssumption
    <2>2. CASE p = <<[code |-> MoveCode, quantity |-> 1]>> /\ d \in Movable
      <3>1. MoveCode \in Codes /\ 1 <= Most[MoveCode]
        BY QuotaAssumption, LimitsAreNumbers
      <3>2. [code |-> MoveCode, quantity |-> 1] \in Item
        BY <3>1 DEF Item
      <3> QED BY <2>2, <3>2
    <2> QED BY <1>2, <2>1, <2>2
  <1>4. QuotaTypeOK'
    BY <1>1, <1>2, <1>3 DEF QuotaTypeOK, counted
  <1>5. AnsweredHoldsNothing'
    <2>1. \A q \in Creators : step[q] # "idle" => step'[q] # "idle" /\ Reserved(q)' = Reserved(q)
      BY <1>1, <1>2 DEF QuotaTypeOK, Reserved
    <2> QED BY <1>1, <1>2, <2>1 DEF Shape, AnsweredHoldsNothing
  <1>6. /\ step'[r] = "count" /\ plan'[r] = p /\ moving'[r] = d /\ got'[r] = "none"
        /\ \A c \in Codes : rows'[<<r, c>>] = NoReservation
    BY <1>1, <1>2 DEF QuotaTypeOK, Fit
  <1>7. Fit(r)'
    <2>1. \A c \in Codes : 0 <= Most[c]
      BY LimitsAreNumbers
    <2> QED BY <1>2, <1>3, <1>6, <2>1, KeyFacts, NoReservationIsRow DEF Fit, Deciding, Reserving
  <1>8. Alone(r)
    BY <1>1, <1>2 DEF Alone, Same, Kept, QuotaTypeOK
  <1>9. ASSUME NEW c \in Codes PROVE Base(c)' + Claim(r, c)' <= Base(c) + Claim(r, c)
    <2>1. Base(c)' = Base(c)
      BY <1>2 DEF Base, counted
    <2>2. Base(c) \in Nat /\ Claim(r, c) \in Nat
      BY <1>1, NextTypes
    <2>3. Claim(r, c)' = 0
      <3>1. Promise(r, c)' = 0
        BY <1>6, NoReservationIsRow DEF Promise
      <3> QED BY <1>6, <3>1 DEF Claim, Deciding, Reserving
    <2> QED BY <2>1, <2>2, <2>3
  <1> QED BY <1>4, <1>5, <1>7, <1>8, <1>9 DEF Sound

\* A count leaves room for what is asked, or it is no claim.
LEMMA CountSound ==
    ASSUME QuotaInv, NEW r \in Creators, CountUsed(r)
    PROVE  Sound(r)
  <1>1. Shape /\ QuotaTypeOK /\ Fit(r) /\ step[r] = "count"
    BY DEF QuotaInv, Shape, CountUsed
  <1>2. PICK h, n : h = CodeOf(r) /\ n = Count(CodeOf(r))
    OBVIOUS
  <1>3. h \in Codes /\ n \in Nat
    BY <1>1, <1>2, HeadIsItem, BaseType DEF Fit, Reserving
  <1>4. /\ step' = [step EXCEPT ![r] = "begin"]
        /\ used' = [used EXCEPT ![r] = n]
        /\ UNCHANGED <<counted, rows, plan, moving, got>>
    BY <1>2 DEF CountUsed, To
  <1>5. QuotaTypeOK'
    BY <1>1, <1>3, <1>4 DEF QuotaTypeOK, counted
  <1>6. AnsweredHoldsNothing'
    BY <1>1, <1>4 DEF Shape, QuotaTypeOK, AnsweredHoldsNothing, Reserved
  <1>7. step'[r] = "begin" /\ used'[r] = n
    BY <1>1, <1>4 DEF QuotaTypeOK
  <1>8. Fit(r)'
    BY <1>1, <1>3, <1>4, <1>7 DEF Fit, Deciding, Reserving, Unread
  <1>9. Alone(r)
    BY <1>1, <1>4 DEF Alone, Same, Kept, QuotaTypeOK
  <1>10. ASSUME NEW c \in Codes
         PROVE  \/ Base(c)' + Claim(r, c)' <= Base(c) + Claim(r, c)
                \/ Base(c)' + Claim(r, c)' <= Limit[c]
    <2>1. Base(c)' = Base(c)
      BY <1>4 DEF Base, counted
    <2>2. Base(c) \in Nat /\ Claim(r, c) \in Nat /\ Limit[c] \in Nat
      BY <1>1, NextTypes, LimitsAreNumbers
    <2>3. CodeOf(r)' = h /\ Promise(r, c)' = Promise(r, c)
      BY <1>2, <1>4 DEF CodeOf, Promise
    <2>4. CASE c # h
      <3>1. Claim(r, c)' = Claim(r, c)
        BY <1>1, <1>2, <1>7, <2>3, <2>4 DEF Claim, Deciding, Reserving
      <3> QED BY <2>1, <2>2, <3>1
    <2>5. CASE c = h
      <3>1. PICK q : q = Head(plan[r]).quantity
        OBVIOUS
      <3>2. q \in Nat
        BY <1>1, <3>1, HeadIsItem, LimitsAreNumbers DEF Fit, Reserving
      <3>3. Claim(r, c)' = IF n + q <= Limit[c] THEN q ELSE 0
        BY <1>4, <1>7, <2>3, <2>5, <3>1 DEF Claim, Deciding
      <3>4. Base(c) <= n
        BY <1>1, <1>2, <2>5, BaseType
      <3> QED BY <1>3, <2>1, <2>2, <3>2, <3>3, <3>4
    <2> QED BY <2>4, <2>5
  <1> QED BY <1>5, <1>6, <1>8, <1>9, <1>10 DEF Sound

\* What a request that decides is, and what it may ask for.
LEMMA Decides ==
    ASSUME Shape, NEW r \in Creators, step[r] = "decide"
    PROVE  /\ QuotaTypeOK /\ Fit(r)
           /\ CodeOf(r) \in Codes
           /\ Head(plan[r]).quantity \in 1..Most[CodeOf(r)]
           /\ Key(r) \in Keys
           /\ used[r] \in Nat
           /\ Tail(plan[r]) \in Seq(Item)
           /\ Len(plan[r]) # 1 => Tail(plan[r]) # <<>>
           /\ moving[r] = NoMove => Key(r) = <<r, CodeOf(r)>>
           /\ moving[r] # NoMove =>
                /\ moving[r] \in Movable /\ Key(r) = moving[r]
                /\ CodeOf(r) = MoveCode /\ Head(plan[r]).quantity = 1
                /\ Len(plan[r]) = 1 /\ Tail(plan[r]) = <<>>
  <1>1. QuotaTypeOK /\ Fit(r) /\ plan[r] # <<>> /\ used[r] # Unread
    BY DEF Shape, Fit, Deciding, Reserving
  <1>2. used[r] \in Nat /\ moving[r] \in Movable \union {NoMove}
    BY <1>1 DEF QuotaTypeOK
  <1>3. moving[r] # NoMove =>
                /\ moving[r] \in Movable /\ Key(r) = moving[r]
                /\ CodeOf(r) = MoveCode /\ Head(plan[r]).quantity = 1
                /\ Len(plan[r]) = 1 /\ Tail(plan[r]) = <<>>
    <2> SUFFICES ASSUME moving[r] # NoMove
                 PROVE  /\ moving[r] \in Movable /\ Key(r) = moving[r]
                        /\ CodeOf(r) = MoveCode /\ Head(plan[r]).quantity = 1
                        /\ Len(plan[r]) = 1 /\ Tail(plan[r]) = <<>>
      OBVIOUS
    <2>1. plan[r] = <<[code |-> MoveCode, quantity |-> 1]>>
      BY <1>1 DEF Fit
    <2>2. Head(plan[r]) = [code |-> MoveCode, quantity |-> 1] /\ Len(plan[r]) = 1 /\ Tail(plan[r]) = <<>>
      BY <2>1
    <2> QED BY <1>2, <2>2 DEF Key, CodeOf
  <1>4. moving[r] = NoMove => Key(r) = <<r, CodeOf(r)>>
    BY DEF Key
  <1>5. CodeOf(r) \in Codes
    BY <1>1, HeadIsItem
  <1>6. Key(r) \in Keys
    BY <1>3, <1>4, <1>5, KeyFacts
  <1> QED BY <1>1, <1>2, <1>3, <1>4, <1>5, <1>6, HeadIsItem

LEMMA RefuseSound ==
    ASSUME QuotaInv, NEW r \in Creators, Refuse(r)
    PROVE  Sound(r)
  <1>1. Shape /\ step[r] = "decide"
    BY DEF QuotaInv, Refuse
  <1>2. /\ rows' = Expired(CodeOf(r)) /\ step' = [step EXCEPT ![r] = "release"]
        /\ UNCHANGED <<counted, plan, used, moving, got>>
    BY DEF Refuse, To, CodeOf, locals
  <1>3. rows' \in [Keys -> Row] /\ \A k \in Keys : Kept(k)
    BY <1>1, <1>2, Decides, ExpiredKeeps DEF Kept
  <1> QED BY <1>1, <1>2, <1>3, MovesOn

\* Who may reserve had a claim before; who takes over an old reservation makes none.
LEMMA GoesOn ==
    ASSUME QuotaInv, NEW r \in Creators, step[r] = "decide", NEW how, GoOn(r, how),
           UNCHANGED <<counted, moving>>, rows' \in [Keys -> Row],
           \A k \in Keys \ {Key(r)} : Kept(k),
           \/ /\ how = "checked"
              /\ rows'[Key(r)].quantity = Head(plan[r]).quantity
              /\ used[r] + Head(plan[r]).quantity <= Limit[CodeOf(r)]
           \/ how = "reused" /\ moving[r] # NoMove /\ Kept(Key(r))
    PROVE  Sound(r)
  <1> DEFINE s == IF Len(plan[r]) = 1 THEN "persist" ELSE "count"
  <1>1. Shape /\ QuotaTypeOK /\ Fit(r)
    BY DEF QuotaInv, Shape
  <1>2. PICK h, q, t : h = CodeOf(r) /\ q = Head(plan[r]).quantity /\ t = Tail(plan[r])
    OBVIOUS
  <1>3. /\ h \in Codes /\ q \in 1..Most[h] /\ t \in Seq(Item) /\ Key(r) \in Keys
        /\ s # "persist" => t # <<>>
        /\ moving[r] = NoMove => Key(r) = <<r, h>>
        /\ moving[r] # NoMove =>
             moving[r] \in Movable /\ Key(r) = moving[r] /\ h = MoveCode /\ q = 1 /\ t = <<>> /\ s = "persist"
    BY <1>1, <1>2, Decides
  <1>4. /\ step' = [step EXCEPT ![r] = s] /\ plan' = [plan EXCEPT ![r] = t]
        /\ used' = [used EXCEPT ![r] = Unread] /\ got' = [got EXCEPT ![r] = how]
        /\ moving' = moving /\ UNCHANGED <<resources, arrived, unchecked>>
    BY <1>2 DEF GoOn, To, counted
  <1>5. s \in {"count", "persist"} /\ how \in {"checked", "reused"}
    OBVIOUS
  <1> HIDE DEF s
  <1>6. QuotaTypeOK'
    <2>1. plan' \in [Creators -> Seq(Item)]
      BY <1>1, <1>3, <1>4 DEF QuotaTypeOK
    <2>2. used' \in [Creators -> Nat \union {Unread}]
      BY <1>1, <1>4 DEF QuotaTypeOK
    <2> QED BY <1>1, <1>4, <1>5, <2>1, <2>2 DEF QuotaTypeOK
  <1>7. /\ step'[r] = s /\ plan'[r] = t /\ got'[r] = how /\ moving'[r] = moving[r]
    BY <1>1, <1>4 DEF QuotaTypeOK
  <1>8. AnsweredHoldsNothing'
    <2> SUFFICES ASSUME NEW k \in Keys, rows'[k].status = "pending"
                 PROVE  \E p \in Creators : step'[p] # "idle" /\ k \in Reserved(p)'
      BY DEF AnsweredHoldsNothing
    <2>1. CASE k = Key(r)
      <3>1. k \in Reserved(r)'
        <4>1. CASE moving[r] = NoMove
          BY <1>3, <2>1, <4>1 DEF Reserved, Fresh
        <4>2. CASE moving[r] # NoMove
          BY <1>3, <1>5, <1>7, <2>1, <4>2 DEF Reserved
        <4> QED BY <4>1, <4>2
      <3> QED BY <1>5, <1>7, <3>1
    <2>2. CASE k # Key(r)
      <3>1. PICK p \in Creators : step[p] # "idle" /\ k \in Reserved(p)
        BY <1>1, <2>2 DEF Shape, AnsweredHoldsNothing, Kept
      <3>2. CASE p = r
        BY <1>5, <1>7, <3>1, <3>2 DEF Reserved
      <3>3. CASE p # r
        BY <1>1, <1>4, <3>1, <3>3 DEF Reserved, QuotaTypeOK
      <3> QED BY <3>2, <3>3
    <2> QED BY <2>1, <2>2
  <1>9. \A c \in Codes : <<r, c>> # Key(r) => Kept(<<r, c>>)
    BY KeyFacts
  <1>10. Fit(r)'
    <2>1. moving[r] # NoMove => \A c \in Codes : rows'[<<r, c>>] = NoReservation
      BY <1>1, <1>3, <1>9, KeyFacts DEF Fit, Kept
    <2>2. ASSUME NEW c \in Codes PROVE rows'[<<r, c>>].quantity <= Most[c]
      <3>1. CASE <<r, c>> = Key(r) /\ moving[r] = NoMove
        <4>1. c = h
          BY <1>3, <3>1
        <4>2. rows'[<<r, c>>].quantity = q
          BY <1>2, <3>1
        <4> QED BY <1>3, <4>1, <4>2, LimitsAreNumbers
      <3>2. CASE <<r, c>> # Key(r) \/ moving[r] # NoMove
        <4>1. Kept(<<r, c>>)
          BY <1>3, <1>9, <3>2, KeyFacts
        <4> QED BY <1>1, <4>1 DEF Kept, Fit
      <3> QED BY <3>1, <3>2
    <2> QED BY <1>3, <1>5, <1>7, <2>1, <2>2 DEF Fit, Deciding, Reserving
  <1>11. Alone(r)
    <2>1. ASSUME NEW p \in Creators \ {r}, NEW c \in Codes PROVE Kept(<<p, c>>)
      <3>1. <<p, c>> # Key(r) /\ <<p, c>> \in Keys
        BY <1>3, KeyFacts
      <3> QED BY <3>1
    <2> QED BY <1>1, <1>4, <2>1 DEF Alone, Same, QuotaTypeOK
  <1>12. ASSUME NEW c \in Codes PROVE Base(c)' + Claim(r, c)' <= Base(c) + Claim(r, c)
    <2>1. Base(c)' = Base(c)
      BY <1>4 DEF Base
    <2>2. Base(c) \in Nat /\ Claim(r, c) \in Nat /\ Claim(r, c)' \in Nat
      BY <1>1, <1>6, <1>8, <1>10, <1>11, NextTypes, OtherFits, LimitsAreNumbers DEF Shape, Alone
    <2>3. Claim(r, c)' = Promise(r, c)'
      BY <1>5, <1>7 DEF Claim, Deciding, Reserving
    <2>4. Claim(r, c) = IF h = c THEN IF used[r] + q <= Limit[c] THEN q ELSE 0 ELSE Promise(r, c)
      BY <1>2 DEF Claim, Deciding, Reserving
    <2>5. Claim(r, c)' <= Claim(r, c)
      <3>1. CASE moving[r] = NoMove /\ c = h
        <4>1. how = "checked" /\ rows'[<<r, c>>].quantity = q
          BY <1>2, <1>3, <3>1
        <4>2. used[r] + q <= Limit[c]
          BY <1>2, <3>1, <4>1
        <4>3. Claim(r, c)' = q
          BY <1>7, <2>3, <3>1, <4>1 DEF Promise
        <4>4. Claim(r, c) = q
          BY <2>4, <3>1, <4>2
        <4> QED BY <2>2, <4>3, <4>4
      <3>2. CASE moving[r] = NoMove /\ c # h
        <4>1. Kept(<<r, c>>)
          BY <1>3, <1>9, <3>2
        <4> QED BY <1>7, <2>2, <2>3, <2>4, <3>2, <4>1 DEF Promise, Kept
      <3>3. CASE moving[r] # NoMove /\ c = h
        <4>1. CASE how = "checked"
          <5>1. used[r] + q <= Limit[c]
            BY <1>2, <3>3, <4>1
          <5>2. Claim(r, c) = 1
            BY <1>3, <2>4, <3>3, <5>1
          <5>3. Promise(r, c)' = 1
            BY <1>3, <1>7, <3>3, <4>1 DEF Promise
          <5> QED BY <2>3, <5>2, <5>3
        <4>2. CASE how = "reused"
          <5>1. Promise(r, c)' = 0
            BY <1>7, <3>3, <4>2 DEF Promise
          <5> QED BY <2>2, <2>3, <5>1
        <4> QED BY <1>5, <4>1, <4>2
      <3>4. CASE moving[r] # NoMove /\ c # h
        <4>1. Promise(r, c)' = 0
          BY <1>3, <1>7, <3>4 DEF Promise
        <4> QED BY <2>2, <2>3, <4>1
      <3> QED BY <3>1, <3>2, <3>3, <3>4
    <2> QED BY <2>1, <2>2, <2>5
  <1> QED BY <1>6, <1>8, <1>10, <1>11, <1>12 DEF Sound

LEMMA ReserveSound ==
    ASSUME QuotaInv, NEW r \in Creators, Reserve(r)
    PROVE  Sound(r)
  <1>1. Shape /\ QuotaTypeOK /\ step[r] = "decide"
    BY DEF QuotaInv, Shape, Reserve
  <1>2. PICK h, q, w, x : /\ h = CodeOf(r) /\ q = Head(plan[r]).quantity
                          /\ w = [status |-> "pending", quantity |-> q] /\ x = Expired(h)
    OBVIOUS
  <1>3. h \in Codes /\ q \in 1..Most[h] /\ Key(r) \in Keys /\ used[r] \in Nat
    BY <1>1, <1>2, Decides
  <1>4. /\ Allowed(h, q, used[r]) /\ rows' = [x EXCEPT ![Key(r)] = w]
        /\ GoOn(r, "checked") /\ UNCHANGED <<counted, moving>>
    BY <1>2 DEF Reserve, CodeOf
  <1>5. w \in Row /\ w.quantity = q
    BY <1>2, <1>3, LimitsAreNumbers DEF Row, Statuses
  <1>6. x \in [Keys -> Row] /\ rows' \in [Keys -> Row]
    BY <1>1, <1>2, <1>3, <1>4, <1>5, ExpiredKeeps
  <1>7. ASSUME NEW k \in Keys \ {Key(r)} PROVE Kept(k)
    <2>1. rows'[k] = x[k]
      BY <1>3, <1>4, <1>6
    <2> QED BY <1>1, <1>2, <1>3, <2>1, ExpiredKeeps DEF Kept
  <1>8. rows'[Key(r)].quantity = Head(plan[r]).quantity
    BY <1>2, <1>3, <1>4, <1>5, <1>6
  <1>9. used[r] + Head(plan[r]).quantity <= Limit[CodeOf(r)]
    <2>1. used[r] + PendingSum(h) + q <= Limit[h]
      BY <1>4 DEF Allowed
    <2>2. PendingSum(h) \in Nat /\ q \in Nat /\ Limit[h] \in Nat
      BY <1>1, <1>3, PendingSumType, LimitsAreNumbers
    <2> QED BY <1>2, <1>3, <2>1, <2>2
  <1> QED BY <1>1, <1>4, <1>6, <1>7, <1>8, <1>9, GoesOn

LEMMA ReuseSound ==
    ASSUME QuotaInv, NEW r \in Creators, Reuse(r)
    PROVE  Sound(r)
  <1>1. /\ Shape /\ QuotaTypeOK /\ step[r] = "decide" /\ moving[r] # NoMove
        /\ rows' = Expired(MoveCode) /\ GoOn(r, "reused") /\ UNCHANGED <<counted, moving>>
    BY DEF QuotaInv, Shape, Reuse
  <1>2. rows' \in [Keys -> Row] /\ \A k \in Keys : Kept(k)
    BY <1>1, QuotaAssumption, ExpiredKeeps DEF Kept
  <1>3. Key(r) \in Keys
    BY <1>1, Decides
  <1> QED BY <1>1, <1>2, <1>3, GoesOn

\* What is persisted had been claimed, or is counted as unchecked.
LEMMA PersistSound ==
    ASSUME QuotaInv, NEW r \in Creators, Persist(r)
    PROVE  Sound(r)
  <1>1. Shape /\ QuotaTypeOK /\ Fit(r) /\ step[r] = "persist"
    BY DEF QuotaInv, Shape, Persist
  <1>2. /\ resources' = [c \in Codes |-> resources[c] + rows[<<r, c>>].quantity]
        /\ arrived' = arrived \union ({moving[r]} \ {NoMove})
        /\ unchecked' = unchecked \union (IF got[r] = "reused" THEN {moving[r]} \ arrived ELSE {})
        /\ step' = [step EXCEPT ![r] = "finalise"]
        /\ UNCHANGED <<rows, plan, used, moving, got>>
    BY DEF Persist, To, locals
  <1>3. \A c \in Codes : rows[<<r, c>>].quantity \in Nat
    BY <1>1, KeyFacts DEF QuotaTypeOK, Row
  <1>4. moving[r] \in Movable \union {NoMove} /\ (moving[r] = NoMove => got[r] # "reused")
    BY <1>1 DEF QuotaTypeOK, Fit
  <1>5. QuotaTypeOK'
    <2>1. resources' \in [Codes -> Nat]
      BY <1>1, <1>2, <1>3 DEF QuotaTypeOK
    <2>2. unchecked' \subseteq arrived' /\ arrived' \subseteq Movable
      BY <1>1, <1>2, <1>4 DEF QuotaTypeOK
    <2> QED BY <1>1, <1>2, <2>1, <2>2 DEF QuotaTypeOK
  <1>6. AnsweredHoldsNothing'
    BY <1>1, <1>2 DEF Shape, QuotaTypeOK, AnsweredHoldsNothing, Reserved
  <1>7. step'[r] = "finalise"
    BY <1>1, <1>2 DEF QuotaTypeOK
  <1>8. Fit(r)'
    BY <1>1, <1>2, <1>7 DEF Fit, Deciding, Reserving
  <1>9. Alone(r)
    BY <1>1, <1>2 DEF Alone, Same, Kept, QuotaTypeOK
  <1>10. ASSUME NEW c \in Codes PROVE Base(c)' + Claim(r, c)' <= Base(c) + Claim(r, c)
    <2> DEFINE old == IF c = MoveCode THEN Cardinality(arrived \ unchecked) ELSE 0
               new == IF c = MoveCode THEN Cardinality(arrived' \ unchecked') ELSE 0
    <2>1. PICK n : n = rows[<<r, c>>].quantity
      OBVIOUS
    <2>2. n \in Nat /\ resources[c] \in Nat /\ resources'[c] = resources[c] + n
      BY <1>1, <1>2, <1>3, <2>1 DEF QuotaTypeOK
    <2>3. Claim(r, c)' = 0
      BY <1>7 DEF Claim, Deciding, Reserving
    <2>4. Claim(r, c) = Promise(r, c)
      BY <1>1 DEF Claim, Deciding, Reserving
    <2>5. Cardinality(arrived \ unchecked) \in Nat /\ IsFiniteSet(arrived \ unchecked)
      BY <1>1, ArrivedFinite
    <2>6. Base(c) = resources[c] + old /\ Base(c)' = resources[c] + n + new
      BY <2>2 DEF Base
    <2>7. CASE moving[r] = NoMove
      <3>1. arrived' = arrived /\ unchecked' = unchecked
        BY <1>2, <1>4, <2>7
      <3>2. new = old
        BY <3>1
      <3>3. Claim(r, c) = n /\ old \in Nat
        BY <2>1, <2>4, <2>5, <2>7 DEF Promise
      <3> HIDE DEF old, new
      <3> QED BY <2>2, <2>3, <2>6, <3>2, <3>3
    <2>8. CASE moving[r] # NoMove
      <3>1. n = 0
        BY <1>1, <2>1, <2>8, NoReservationIsRow DEF Fit
      <3>2. got[r] \in {"checked", "reused"}
        BY <1>1, <2>8 DEF Fit, QuotaTypeOK
      <3>3. new <= old + Promise(r, c) /\ new \in Nat /\ old \in Nat /\ Promise(r, c) \in Nat
        <4>1. CASE c # MoveCode
          BY <2>8, <4>1 DEF Promise
        <4>2. CASE c = MoveCode /\ got[r] = "checked"
          <5>1. arrived' \ unchecked' \in SUBSET ((arrived \ unchecked) \union {moving[r]})
            BY <1>2, <4>2
          <5>2. /\ IsFiniteSet((arrived \ unchecked) \union {moving[r]})
                /\ Cardinality((arrived \ unchecked) \union {moving[r]}) \in
                     {Cardinality(arrived \ unchecked), Cardinality(arrived \ unchecked) + 1}
            BY <2>5, FS_AddElement
          <5>3. /\ IsFiniteSet(arrived' \ unchecked')
                /\ Cardinality(arrived' \ unchecked') <= Cardinality((arrived \ unchecked) \union {moving[r]})
            BY <5>1, <5>2, FS_Subset
          <5>4. Cardinality(arrived' \ unchecked') \in Nat
            BY <5>3, FS_CardinalityType
          <5>5. Promise(r, c) = 1
            BY <2>8, <4>2 DEF Promise
          <5> QED BY <2>5, <4>2, <5>2, <5>3, <5>4, <5>5
        <4>3. CASE c = MoveCode /\ got[r] = "reused"
          <5>1. arrived' \ unchecked' \in SUBSET (arrived \ unchecked)
            BY <1>2, <4>3
          <5>2. /\ IsFiniteSet(arrived' \ unchecked')
                /\ Cardinality(arrived' \ unchecked') <= Cardinality(arrived \ unchecked)
            BY <2>5, <5>1, FS_Subset
          <5>3. Cardinality(arrived' \ unchecked') \in Nat
            BY <5>2, FS_CardinalityType
          <5>4. Promise(r, c) = 0
            BY <2>8, <4>3 DEF Promise
          <5> QED BY <2>5, <4>3, <5>2, <5>3, <5>4
        <4> QED BY <3>2, <4>1, <4>2, <4>3
      <3> HIDE DEF old, new
      <3> QED BY <2>2, <2>3, <2>4, <2>6, <3>1, <3>3
    <2> QED BY <2>7, <2>8
  <1> QED BY <1>5, <1>6, <1>8, <1>9, <1>10 DEF Sound

\* A step of the rest of the workspace: requests stay, and nothing is added.
LEMMA RestSound ==
    ASSUME QuotaInv, NEW r \in Creators, UNCHANGED <<step, locals>>,
           resources' \in [Codes -> Nat], \A c \in Codes : resources'[c] <= resources[c],
           unchecked' \subseteq arrived', arrived' \subseteq arrived,
           arrived' \ unchecked' \subseteq arrived \ unchecked,
           rows' \in [Keys -> Row], \A k \in Keys : Kept(k)
    PROVE  Sound(r)
  <1>1. Shape /\ QuotaTypeOK
    BY DEF QuotaInv, Shape
  <1>2. UNCHANGED <<step, plan, used, moving, got>>
    BY DEF locals
  <1>3. QuotaTypeOK'
    BY <1>1, <1>2 DEF QuotaTypeOK
  <1>4. AnsweredHoldsNothing'
    BY <1>1, <1>2 DEF Shape, AnsweredHoldsNothing, Reserved, Kept
  <1>5. \A q \in Creators : Same(q) /\ \A c \in Codes : Kept(<<q, c>>)
    BY <1>2, KeyFacts DEF Same
  <1>6. Fit(r)' /\ \A c \in Codes : Claim(r, c)' = Claim(r, c)
    BY <1>1, <1>5, OtherFits
  <1>7. Alone(r)
    BY <1>5 DEF Alone
  <1>8. ASSUME NEW c \in Codes PROVE Base(c)' + Claim(r, c)' <= Base(c) + Claim(r, c)
    <2>1. Cardinality(arrived \ unchecked) \in Nat /\ IsFiniteSet(arrived \ unchecked)
      BY <1>1, ArrivedFinite
    <2>2. /\ IsFiniteSet(arrived' \ unchecked')
          /\ Cardinality(arrived' \ unchecked') <= Cardinality(arrived \ unchecked)
      BY <2>1, FS_Subset
    <2>3. Cardinality(arrived' \ unchecked') \in Nat
      BY <2>2, FS_CardinalityType
    <2>4. resources[c] \in Nat /\ resources'[c] \in Nat /\ resources'[c] <= resources[c]
      BY <1>1 DEF QuotaTypeOK
    <2>5. Base(c)' <= Base(c) /\ Base(c) \in Nat /\ Base(c)' \in Nat
      BY <2>1, <2>2, <2>3, <2>4 DEF Base
    <2>6. Claim(r, c) \in Nat
      BY <1>1, NextTypes, LimitsAreNumbers
    <2> QED BY <1>6, <2>5, <2>6
  <1> QED BY <1>3, <1>4, <1>6, <1>7, <1>8 DEF Sound

LEMMA RestKeepsInv ==
    ASSUME QuotaInv,
           \/ \E k \in Keys : Lapse(k)
           \/ \E c \in Codes : Remove(c)
           \/ \E d \in Movable, cleaned \in BOOLEAN : MoveOn(d, cleaned)
           \/ UNCHANGED quotaVars
    PROVE  QuotaInv'
  <1>1. PICK r \in Creators : TRUE
    BY QuotaAssumption
  <1>2. QuotaTypeOK /\ \A c \in Codes : resources[c] \in Nat /\ resources[c] <= resources[c]
    BY DEF QuotaInv, Shape, QuotaTypeOK
  <1>3. ASSUME NEW k \in Keys, NEW s \in {"lapsed", "released"},
               rows[k].status # "none", rows' = [rows EXCEPT ![k].status = s]
        PROVE  rows' \in [Keys -> Row] /\ \A j \in Keys : Kept(j)
    <2>1. PICK w, v : w = rows[k] /\ v = [w EXCEPT !.status = s]
      OBVIOUS
    <2>2. w \in Row /\ s \in Statuses /\ w # NoReservation
      BY <1>2, <1>3, <2>1, NoReservationIsRow DEF QuotaTypeOK, Statuses
    <2>3. v \in Row /\ v.status = s /\ v.quantity = w.quantity
      BY <2>1, <2>2, RowUpdate
    <2>4. rows' = [rows EXCEPT ![k] = v]
      BY <1>3, <2>1
    <2>5. rows' \in [Keys -> Row]
      BY <1>2, <2>3, <2>4 DEF QuotaTypeOK
    <2>6. rows'[k] = v /\ \A j \in Keys \ {k} : rows'[j] = rows[j]
      BY <1>2, <2>4 DEF QuotaTypeOK
    <2>7. Kept(k)
      BY <2>1, <2>2, <2>3, <2>6 DEF Kept
    <2>8. \A j \in Keys \ {k} : Kept(j)
      BY <2>6 DEF Kept
    <2> QED BY <2>5, <2>7, <2>8
  <1>4. rows' = rows => rows' \in [Keys -> Row] /\ \A j \in Keys : Kept(j)
    BY <1>2 DEF QuotaTypeOK, Kept
  <1>5. ASSUME NEW k \in Keys, Lapse(k) PROVE QuotaInv'
    <2>1. rows' \in [Keys -> Row] /\ \A j \in Keys : Kept(j)
      BY <1>3, <1>5 DEF Lapse
    <2> QED BY <1>2, <1>5, <2>1, RestSound, SoundSuffices, <1>1 DEF Lapse, QuotaTypeOK, counted
  <1>6. ASSUME NEW c \in Codes, Remove(c) PROVE QuotaInv'
    <2>1. resources' \in [Codes -> Nat] /\ \A e \in Codes : resources'[e] <= resources[e]
      BY <1>2, <1>6 DEF Remove, QuotaTypeOK
    <2> QED BY <1>1, <1>2, <1>4, <1>6, <2>1, RestSound, SoundSuffices DEF Remove, QuotaTypeOK
  <1>7. ASSUME NEW d \in Movable, NEW cleaned \in BOOLEAN, MoveOn(d, cleaned) PROVE QuotaInv'
    <2>1. rows' \in [Keys -> Row] /\ \A j \in Keys : Kept(j)
      BY <1>3, <1>4, <1>7, KeyFacts DEF MoveOn
    <2>2. /\ UNCHANGED <<resources, step, locals>>
          /\ unchecked' \subseteq arrived' /\ arrived' \subseteq arrived
          /\ arrived' \ unchecked' \subseteq arrived \ unchecked
      BY <1>2, <1>7 DEF MoveOn, QuotaTypeOK
    <2> QED BY <1>1, <1>2, <2>1, <2>2, RestSound, SoundSuffices DEF QuotaTypeOK
  <1>8. CASE UNCHANGED quotaVars
    BY <1>1, <1>2, <1>4, <1>8, RestSound, SoundSuffices DEF quotaVars, counted, QuotaTypeOK
  <1> QED BY <1>5, <1>6, <1>7, <1>8

LEMMA RequestKeepsInv ==
    ASSUME QuotaInv, NEW r \in Creators,
           \/ \E p \in Plans : StartCreate(r, p)
           \/ \E d \in Movable : StartMove(r, d)
           \/ Proceed(r) \/ Break(r) \/ Abandon(r) \/ Vanish(r)
    PROVE  QuotaInv'
  <1>1. QuotaTypeOK
    BY DEF QuotaInv, Shape
  <1>2. rows' = rows => rows' \in [Keys -> Row] /\ \A j \in Keys : Kept(j)
    BY <1>1 DEF QuotaTypeOK, Kept
  <1>3. CASE (\E p \in Plans : StartCreate(r, p)) \/ (\E d \in Movable : StartMove(r, d))
    BY <1>3, StartSound, SoundSuffices
  <1>4. CASE BeginReservation(r) \/ LockWorkspace(r) \/ ReadEntitlement(r) \/ TimeOut(r) \/ Break(r)
    <2>1. PICK s \in {"locking", "locked", "decide", "release"} :
            /\ step[r] # "idle" /\ (s = "release" \/ step[r] \in {"begin", "locking", "locked"})
            /\ To(r, s) /\ UNCHANGED <<counted, rows, locals>>
      BY <1>4 DEF BeginReservation, LockWorkspace, ReadEntitlement, TimeOut, Break
    <2>2. UNCHANGED <<plan, used, moving, got>>
      BY <2>1 DEF locals
    <2> QED BY <1>2, <2>1, <2>2, MovesOn, SoundSuffices DEF To
  <1>5. CASE CountUsed(r) \/ Reserve(r) \/ Reuse(r) \/ Refuse(r) \/ Persist(r)
    BY <1>5, CountSound, ReserveSound, ReuseSound, RefuseSound, PersistSound, SoundSuffices
  <1>6. CASE Finalise(r) \/ Release(r)
    <2>1. PICK s \in {"committed", "released"} :
            step[r] # "idle" /\ rows' = Closed(r, s) /\ Answered(r) /\ UNCHANGED counted
      BY <1>6 DEF Finalise, Release
    <2> QED BY <1>1, <2>1, ClosedKeeps, IsAnswered, SoundSuffices
  <1>7. CASE Abandon(r)
    BY <1>2, <1>7, MovesOn, SoundSuffices DEF Abandon, To
  <1>8. CASE Vanish(r)
    <2>1. rows' = [k \in Keys |-> IF k \in Fresh(r) THEN NoReservation ELSE rows[k]]
      BY <1>8 DEF Vanish
    <2>2. rows' \in [Keys -> Row]
      BY <1>1, <2>1, NoReservationIsRow DEF QuotaTypeOK
    <2>3. ASSUME NEW k \in Keys, rows'[k].status = "pending"
          PROVE  rows[k].status = "pending" /\ k \notin Reserved(r)
      <3>1. k \notin Fresh(r) /\ rows[k].status = "pending"
        BY <2>1, <2>3, NoReservationIsRow
      <3> QED BY <1>8, <3>1 DEF Vanish
    <2>4. step[r] # "idle" /\ Answered(r) /\ UNCHANGED counted
      BY <1>8 DEF Vanish
    <2> QED BY <2>1, <2>2, <2>3, <2>4, IsAnswered, SoundSuffices
  <1> QED BY <1>3, <1>4, <1>5, <1>6, <1>7, <1>8 DEF Proceed

-----------------------------------------------------------------------------
(* Theorems                                                                *)

\* The invariant holds at all times, of reserveWorkspaceUsage and of the
\* requests around it.
THEOREM QuotaInvariant == QuotaSpec => []QuotaInv
  <1>1. QuotaInit => QuotaInv
    <2> SUFFICES ASSUME QuotaInit PROVE QuotaInv
      OBVIOUS
    <2>1. QuotaTypeOK /\ AnsweredHoldsNothing
      BY NoReservationIsRow, EmptySeq DEF QuotaInit, QuotaTypeOK, AnsweredHoldsNothing, Unread
    <2>2. ASSUME NEW r \in Creators PROVE Fit(r)
      BY KeyFacts, LimitsAreNumbers, NoReservationIsRow DEF QuotaInit, Fit, Deciding, Reserving
    <2>3. Shape
      BY <2>1, <2>2 DEF Shape
    <2>4. ASSUME NEW c \in Codes
          PROVE  Base(c) + Claims(c) <= Limit[c] + (Cardinality(Creators) - 1) * Most[c]
      <3>1. Base(c) = 0
        BY FS_EmptySet DEF QuotaInit, Base
      <3>2. \A r \in Creators : Claim(r, c) = 0
        BY DEF QuotaInit, Claim, Deciding, Reserving
      <3>3. Units([r \in Creators |-> Claim(r, c)], Creators, Most[c]) = {}
        <4>1. Most[c] \in Nat
          BY LimitsAreNumbers
        <4> QED BY <3>2, <4>1 DEF Units
      <3>4. Claims(c) = 0
        BY <3>3, FS_EmptySet DEF Claims
      <3> QED BY <3>1, <3>4, LimitsAreNumbers
    <2> QED BY <2>3, <2>4 DEF QuotaInv, ClaimsBounded
  <1>2. QuotaInv /\ [QuotaNext]_quotaVars => QuotaInv'
    BY RequestKeepsInv, RestKeepsInv DEF QuotaNext
  <1> QED BY <1>1, <1>2, PTL DEF QuotaSpec

\* Types of the counts, plans and reservations.
THEOREM QuotaTypesCorrect == QuotaSpec => []QuotaTypeOK
  BY QuotaInvariant, PTL DEF QuotaInv, Shape

\* A hard limit is passed by at most what the other requests in progress
\* reserve, whatever the quantities, and by the databases that came back on the
\* reservation of an earlier move, although the count is read before the lock
\* and reservations lapse.
THEOREM OverrunIsBounded == QuotaSpec => []OverrunBounded
  <1>1. QuotaInv => OverrunBounded
    <2> SUFFICES ASSUME QuotaInv, NEW c \in Codes
                 PROVE  Count(c) <= Limit[c] + (Cardinality(Creators) - 1) * Most[c]
                                      + (IF c = MoveCode THEN Cardinality(unchecked) ELSE 0)
      BY DEF OverrunBounded
    <2>1. PICK m, f : m = Most[c] /\ f = [q \in Creators |-> Claim(q, c)]
      OBVIOUS
    <2>2. m \in Nat /\ f \in [Creators -> 0..m]
      BY <2>1, LimitsAreNumbers, NextTypes DEF QuotaInv
    <2>3. PICK r \in Creators : TRUE
      BY QuotaAssumption
    <2>4. Cardinality(Units(f, Creators, m)) \in Nat
      <3>1. /\ Cardinality(Units(f, Creators \ {r}, m)) \in Nat
            /\ Cardinality(Units(f, Creators, m)) = Cardinality(Units(f, Creators \ {r}, m)) + f[r]
        BY <2>2, UnitsSplit
      <3> QED BY <2>2, <3>1
    <2>5. Claims(c) \in Nat
      BY <2>1, <2>4 DEF Claims
    <2>6. PICK b : b = (Cardinality(Creators) - 1) * Most[c]
      OBVIOUS
    <2>7. b \in Nat /\ Limit[c] \in Nat
      BY <2>6, LimitsAreNumbers
    <2>8. Base(c) + Claims(c) <= Limit[c] + b
      BY <2>6 DEF QuotaInv, ClaimsBounded
    <2>9. /\ Base(c) \in Nat
          /\ Count(c) = Base(c) + (IF c = MoveCode THEN Cardinality(unchecked) ELSE 0)
      BY BaseType DEF QuotaInv, Shape
    <2>10. Cardinality(unchecked) \in Nat
      BY ArrivedFinite DEF QuotaInv, Shape
    <2>11. Count(c) <= Limit[c] + b + (IF c = MoveCode THEN Cardinality(unchecked) ELSE 0)
      BY <2>5, <2>7, <2>8, <2>9, <2>10
    <2> QED BY <2>6, <2>11
  <1> QED BY <1>1, QuotaInvariant, PTL

\* Whichever path answers a request, its reservations are committed or
\* released before, also the one it shares with another move of its database.
THEOREM NothingHeldBack == QuotaSpec => []AnsweredHoldsNothing
  BY QuotaInvariant, PTL DEF QuotaInv, Shape
===============================================================================
