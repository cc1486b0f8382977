------------------------- MODULE SeatCountingProofs -------------------------
(***************************************************************************)
(* The arithmetic of seats, for every set of requests and every quantity.  *)
(***************************************************************************)
EXTENDS SeatCounting, FiniteSetTheorems, TLAPS

(* The seats of any set of requests are finitely many. *)
LEMMA SeatsFinite ==
    ASSUME NEW S \in SUBSET Requests
    PROVE  IsFiniteSet(Seats(S)) /\ SeatCount(S) \in Nat
<1>1. IsFiniteSet(S)
  BY SeatAssumption, FS_Subset
<1>2. IsFiniteSet(1..MaxQty)
  BY SeatAssumption, FS_Interval
<1>3. IsFiniteSet(S \X (1..MaxQty))
  BY <1>1, <1>2, FS_Product
<1>4. Seats(S) \in SUBSET (S \X (1..MaxQty))
  BY DEF Seats
<1>5. IsFiniteSet(Seats(S))
  BY <1>3, <1>4, FS_Subset
<1> QED
  BY <1>5, FS_CardinalityType DEF SeatCount

(* No request, no seat. *)
LEMMA SeatCountEmpty == SeatCount({}) = 0
<1>1. Seats({}) = {}
  BY DEF Seats
<1> QED
  BY <1>1, FS_EmptySet DEF SeatCount

(* The seats of disjoint sets of requests add up. *)
LEMMA SeatCountUnion ==
    ASSUME NEW S \in SUBSET Requests, NEW T \in SUBSET Requests, S \cap T = {}
    PROVE  SeatCount(S \cup T) = SeatCount(S) + SeatCount(T)
<1>1. Seats(S \cup T) = Seats(S) \cup Seats(T)
  BY DEF Seats
<1>2. Seats(S) \cap Seats(T) = {}
  BY DEF Seats
<1>3. IsFiniteSet(Seats(S)) /\ IsFiniteSet(Seats(T))
  BY SeatsFinite
<1>4. Cardinality(Seats(S) \cup Seats(T))
        = Cardinality(Seats(S)) + Cardinality(Seats(T)) - Cardinality(Seats(S) \cap Seats(T))
  BY <1>3, FS_Union
<1>5. Cardinality(Seats(S) \cap Seats(T)) = 0
  BY <1>2, FS_EmptySet
<1>6. SeatCount(S \cup T) = SeatCount(S) + SeatCount(T) - 0
  BY <1>1, <1>4, <1>5 DEF SeatCount
<1>7. SeatCount(S) \in Nat /\ SeatCount(T) \in Nat
  BY SeatsFinite
<1> QED
  BY <1>6, <1>7

(* One request has as many seats as it asks for. *)
LEMMA SeatCountOne ==
    ASSUME NEW r \in Requests
    PROVE  SeatCount({r}) = Qty[r]
<1> DEFINE f == [i \in 1..Qty[r] |-> <<r, i>>]
<1>1. Qty[r] \in Nat /\ Qty[r] <= MaxQty /\ MaxQty \in Nat
  BY SeatAssumption
<1>2. \A i \in 1..Qty[r] : <<r, i>> \in Seats({r})
  BY <1>1 DEF Seats
<1>3. \A s \in Seats({r}) : s[2] \in 1..Qty[r] /\ s = <<r, s[2]>>
  BY <1>1 DEF Seats
<1>4. f \in [1..Qty[r] -> Seats({r})]
  BY <1>2
<1>5. \A i, j \in 1..Qty[r] : f[i] = f[j] => i = j
  OBVIOUS
<1>6. \A s \in Seats({r}) : \E i \in 1..Qty[r] : f[i] = s
  BY <1>3
<1>7. f \in Bijection(1..Qty[r], Seats({r}))
  BY <1>4, <1>5, <1>6 DEF Bijection, Injection, Surjection, IsInjective
<1>8. ExistsBijection(1..Qty[r], Seats({r}))
  BY <1>7 DEF ExistsBijection
<1> QED
  BY <1>1, <1>8, FS_CountingElements DEF SeatCount

(* Adding a request adds its quantity. *)
LEMMA SeatCountAdd ==
    ASSUME NEW S \in SUBSET Requests, NEW r \in Requests, r \notin S
    PROVE  SeatCount(S \cup {r}) = SeatCount(S) + Qty[r]
<1>1. S \cap {r} = {}
  OBVIOUS
<1>2. SeatCount(S \cup {r}) = SeatCount(S) + SeatCount({r})
  BY <1>1, SeatCountUnion
<1> QED
  BY <1>2, SeatCountOne

(* Removing a request removes its quantity. *)
LEMMA SeatCountRemove ==
    ASSUME NEW S \in SUBSET Requests, NEW r \in S
    PROVE  SeatCount(S \ {r}) = SeatCount(S) - Qty[r]
<1>1. S = (S \ {r}) \cup {r} /\ r \notin S \ {r} /\ S \ {r} \in SUBSET Requests
  OBVIOUS
<1>2. SeatCount(S) = SeatCount(S \ {r}) + Qty[r]
  BY <1>1, SeatCountAdd, Zenon
<1>3. SeatCount(S) \in Nat /\ SeatCount(S \ {r}) \in Nat /\ Qty[r] \in Nat
  BY <1>1, SeatsFinite, SeatAssumption
<1> QED
  BY <1>2, <1>3

(* A smaller set of requests has no more seats. *)
LEMMA SeatCountMonotone ==
    ASSUME NEW T \in SUBSET Requests, NEW S \in SUBSET T
    PROVE  SeatCount(S) <= SeatCount(T)
<1>1. Seats(S) \in SUBSET Seats(T)
  BY DEF Seats
<1>2. IsFiniteSet(Seats(T))
  BY SeatsFinite
<1> QED
  BY <1>1, <1>2, FS_Subset DEF SeatCount
=============================================================================
