--------------------------- MODULE SignageProofs ---------------------------
(***************************************************************************)
(* Proofs about Signage: its type invariant, that a connected screen shows *)
(* what its row says once nobody is at work on it, that resolveActive-     *)
(* Playlist writes the best assignment, and that a schedule's minute has   *)
(* one dispatch.                                                           *)
(***************************************************************************)
EXTENDS Signage, FiniteSetTheorems, NaturalsInduction, WellFoundedInduction, TLAPS

HandlerOK(d) == d \in {Idle} \cup Handling

\* What a handler of each kind and place still has before it: only a group
\* keeps whom it has to send to, only dispatches have other clients and
\* other winners, and a handler between two winners has no client left.
ShapeOK(d) ==
  d = Idle \/
  /\ d.kind \in {"put", "ranked", "interrupt", "register"} => d.todo = <<>> /\ d.winners = <<>>
  /\ d.at = "reread" => d.kind \in {"put", "ranked"}
  /\ d.at = "connect" => d.kind = "register"
  /\ d.at = "change" => d.kind = "ranked"
  /\ d.at = "dispatch" => d.todo = <<>> /\ d.winners # <<>>
  /\ d.out # <<>> => d.kind = "group" /\ d.at = "write"

\* The clients a handler is still going to write to or to send to
Pending(d) ==
  IF d = Idle THEN {}
  ELSE (IF d.at = "dispatch" THEN {} ELSE {d.c}) \cup Range(d.todo) \cup Range(d.out) \cup TargetsOf(d.winners)

\* The clients whose row a handler has written or read, and not yet sent
Carried(d) ==
  IF d = Idle THEN {}
  ELSE (IF d.at \in {"reread", "connect", "send"} THEN {d.c} ELSE {})
       \cup (IF d.at = "send" /\ d.kind = "group" THEN Range(d.todo) ELSE {})
       \cup Range(d.out)

\* Two handlers at work on one client are known to have overlapped.
NoOverlap ==
  \A g, h \in Slots :
     g # h => Touches(handlers[g]) \cap Touches(handlers[h]) \subseteq clash

\* Unless handlers overlapped on it, a client's row names what its handler
\* carries to it, or nothing, the list having been deleted since.
RowIsCarried ==
  \A h \in Slots : \A c \in Carried(handlers[h]) \ clash :
     row[c].assigned \in {handlers[h].list, None}

\* A screen that does not show what its row says is on somebody's way.
WrongIsPending ==
  \A c \in connected \ clash :
     row[c].assigned # None /\ shown[c] # row[c].assigned
     => \E h \in Slots : c \in Pending(handlers[h])

\* What resolveActivePlaylist has read is still the best when it is written,
\* or cannot be written any more.
TopIsTop ==
  \A h \in Slots :
     LET d == handlers[h]
     IN  Busy(h) /\ d.kind = "ranked" /\ d.at = "write" /\ d.c \notin clash
         => d.list \in Tops(d.c) \/ ~MayWrite(d.list)

\* Nothing fired lies ahead of the clock, and the schedules of a minute in
\* which something was fired are all marked.
FiredIsPast ==
  \A f \in fired :
     /\ f[2] < day \/ (f[2] = day /\ f[3] <= minute)
     /\ f[2] = day /\ f[3] = minute =>
          \A s \in Ids : Starts(s) => lastTriggered[s] = minute

\* What handlers, rows and screens have to do with one another
HandlersInv ==
  /\ handlers \in [Slots -> {Idle} \cup Handling]
  /\ \A h \in Slots : ShapeOK(handlers[h])
  /\ NoOverlap /\ RowIsCarried /\ WrongIsPending /\ TopIsTop

SignInv == TypeOK /\ HandlersInv /\ FiredIsPast /\ OneWinnerPerTarget
-----------------------------------------------------------------------------
(***************************************************************************)
(* Sequences, targets and winners.                                         *)
(***************************************************************************)
LEMMA SmallestOne ==
  ASSUME NEW S \in SUBSET Nat, S # {}
  PROVE  \E i \in S : \A j \in S : i <= j
<1>1. IsWellFoundedOn(OpToRel(<, Nat), Nat)
  BY NatLessThanWellFounded
<1>2. PICK i \in S : \A j \in S : ~ <<j, i>> \in OpToRel(<, Nat)
  BY <1>1, WFMin
<1>3. \A j \in S : ~(j < i)
  BY <1>2, Zenon DEF OpToRel
<1>4. QED
  BY <1>3

LEMMA RangeParts ==
  ASSUME NEW S, NEW s \in Seq(S)
  PROVE  /\ Range(s) \subseteq S
         /\ s # <<>> => /\ Head(s) \in S /\ Tail(s) \in Seq(S)
                        /\ Range(s) = {Head(s)} \cup Range(Tail(s))
         /\ \A e \in S : Append(s, e) \in Seq(S) /\ Append(s, e) # <<>>
                         /\ Range(Append(s, e)) = Range(s) \cup {e}
<1>1. Range(s) \subseteq S
  BY DEF Range
<1>2. ASSUME s # <<>>
      PROVE  Head(s) \in S /\ Tail(s) \in Seq(S) /\ Range(s) = {Head(s)} \cup Range(Tail(s))
  <2>1. Head(s) \in S /\ Tail(s) \in Seq(S) /\ Len(s) > 0 /\ Len(Tail(s)) = Len(s) - 1
    BY <1>2
  <2>2. \A x \in Range(s) : x \in {Head(s)} \cup Range(Tail(s))
    <3>1. TAKE x \in Range(s)
    <3>2. PICK i \in 1..Len(s) : x = s[i]
      BY DEF Range
    <3>3. CASE i = 1
      BY <1>2, <3>2, <3>3
    <3>4. CASE i # 1
      <4>1. i - 1 \in DOMAIN Tail(s) /\ Tail(s)[i - 1] = s[i]
        BY <2>1, <3>2, <3>4, <1>2
      <4>2. QED
        BY <3>2, <4>1 DEF Range
    <3>5. QED
      BY <3>3, <3>4
  <2>3. Head(s) \in Range(s) /\ \A x \in Range(Tail(s)) : x \in Range(s)
    <3>1. Head(s) \in Range(s)
      BY <1>2, <2>1 DEF Range
    <3>2. \A i \in 1..Len(Tail(s)) : i + 1 \in DOMAIN s /\ Tail(s)[i] = s[i + 1]
      BY <1>2, <2>1
    <3>3. QED
      BY <2>1, <3>1, <3>2 DEF Range
  <2>4. QED
    BY <2>1, <2>2, <2>3
<1>3. ASSUME NEW e \in S
      PROVE  /\ Append(s, e) \in Seq(S) /\ Append(s, e) # <<>>
             /\ Range(Append(s, e)) = Range(s) \cup {e}
  <2>1. /\ Append(s, e) \in Seq(S) /\ Len(Append(s, e)) = Len(s) + 1
        /\ \A i \in 1..Len(s) : Append(s, e)[i] = s[i]
        /\ Append(s, e)[Len(s) + 1] = e
    OBVIOUS
  <2>2. QED
    BY <2>1 DEF Range
<1>4. QED
  BY <1>1, <1>2, <1>3

LEMMA FunctionIsSeq ==
  ASSUME NEW S, NEW n \in Nat, NEW s \in [1..n -> S]
  PROVE  s \in Seq(S) /\ Len(s) = n
  OBVIOUS

LEMMA RangeOfNone == Range(<<>>) = {} /\ TargetsOf(<<>>) = {}
  BY DEF Range, TargetsOf

LEMMA TargetsOK ==
  ASSUME NEW s \in Ids
  PROVE  Targets(s) \in Seq(Clients) /\ Targets(s) # <<>>
<1>1. CASE Sched[s].target = "group"
  BY <1>1, SignageAssumption DEF Targets
<1>2. CASE Sched[s].target = "all" /\ Sched[s].target # "group"
  <2> DEFINE n == Cardinality(Clients)
  <2>1. n \in Nat /\ n # 0
    BY SignageAssumption, FS_CardinalityType, FS_EmptySet
  <2>2. ExistsBijection(1..n, Clients)
    BY SignageAssumption, FS_NatBijection, FS_CountingElements, FS_CardinalityType
  <2>3. PICK b : b \in Bijection(1..n, Clients)
    BY <2>2 DEF ExistsBijection
  <2>4. b \in [1..n -> Clients] /\ IsInjective(b)
    BY <2>3 DEF Bijection, Injection, IsInjective
  <2>5. SetToSeq(Clients) \in [1..n -> Clients]
    BY <2>4 DEF SetToSeq
  <2>6. SetToSeq(Clients) \in Seq(Clients) /\ SetToSeq(Clients) # <<>>
    BY <2>1, <2>5
  <2>7. QED
    BY <1>2, <2>6 DEF Targets
<1>3. CASE Sched[s].target \notin {"group", "all"}
  BY <1>3, SignageAssumption DEF Targets, Ids
<1>4. QED
  BY <1>1, <1>2, <1>3

LEMMA OutranksIsOrder ==
  /\ \A s \in Ids : ~Outranks(s, s)
  /\ \A s, t \in Ids : s # t => Outranks(s, t) \/ Outranks(t, s)
  /\ \A s, t, u \in Ids : Outranks(s, t) /\ Outranks(t, u) => Outranks(s, u)
<1>1. Ids \subseteq Nat /\ \A s \in Ids : Sched[s].rank \in Nat
  BY SignageAssumption DEF Ids
<1>2. QED
  BY <1>1 DEF Outranks

\* The schedules that outrank one of a set of them number less than those that
\* outrank one it outranks.
LEMMA AheadGrows ==
  ASSUME NEW W \in SUBSET Ids
  PROVE  /\ IsFiniteSet(W)
         /\ \A s \in W : Cardinality({u \in W : Outranks(u, s)}) \in 0..(Cardinality(W) - 1)
         /\ \A s, t \in W : Outranks(t, s) =>
              Cardinality({u \in W : Outranks(u, t)}) < Cardinality({u \in W : Outranks(u, s)})
<1> DEFINE Ahead(s) == {u \in W : Outranks(u, s)}
<1>1. IsFiniteSet(W)
  <2>1. IsFiniteSet(Ids)
    BY SignageAssumption, FS_Interval DEF Ids
  <2>2. QED
    BY <2>1, FS_Subset
<1>2. \A s \in W : IsFiniteSet(Ahead(s)) /\ Cardinality(Ahead(s)) \in Nat
  BY <1>1, FS_Subset, FS_CardinalityType
<1>3. ASSUME NEW s \in W
      PROVE  Cardinality(Ahead(s)) \in 0..(Cardinality(W) - 1)
  <2>1. Ahead(s) \subseteq W /\ s \notin Ahead(s)
    BY OutranksIsOrder
  <2>2. Cardinality(W) \in Nat /\ Cardinality(Ahead(s)) <= Cardinality(W)
        /\ (Cardinality(Ahead(s)) = Cardinality(W) => Ahead(s) = W)
    BY <1>1, <2>1, FS_Subset, FS_CardinalityType
  <2>3. QED
    BY <1>2, <2>1, <2>2
<1>4. ASSUME NEW s \in W, NEW t \in W, Outranks(t, s)
      PROVE  Cardinality(Ahead(t)) < Cardinality(Ahead(s))
  <2>1. Ahead(t) \subseteq Ahead(s) /\ t \in Ahead(s) /\ t \notin Ahead(t)
    BY <1>4, OutranksIsOrder
  <2>2. /\ Cardinality(Ahead(t)) <= Cardinality(Ahead(s))
        /\ Cardinality(Ahead(t)) = Cardinality(Ahead(s)) => Ahead(t) = Ahead(s)
    BY <1>2, <2>1, FS_Subset
  <2>3. QED
    BY <1>2, <2>1, <2>2
<1>5. QED
  BY <1>1, <1>3, <1>4

\* One of them outranks all others.
LEMMA OneIsFirst ==
  ASSUME NEW due \in SUBSET Ids, due # {}
  PROVE  \E s \in due : \A t \in due \ {s} : Outranks(s, t)
<1> DEFINE number(s) == Cardinality({u \in due : Outranks(u, s)})
           numbers == {number(s) : s \in due}
<1>1. \A s \in due : number(s) \in Nat
  <2>1. Cardinality(due) \in Nat
    BY AheadGrows, FS_CardinalityType
  <2>2. QED
    BY <2>1, AheadGrows
<1>2. \A s, t \in due : Outranks(t, s) => number(t) < number(s)
  BY AheadGrows
<1> HIDE DEF number
<1>3. numbers \in SUBSET Nat /\ numbers # {}
  BY <1>1
<1>4. PICK k \in numbers : \A j \in numbers : k <= j
  BY <1>3, SmallestOne
<1>5. PICK s \in due : k = number(s)
  OBVIOUS
<1>6. \A t \in due : ~Outranks(t, s)
  BY <1>1, <1>2, <1>4, <1>5
<1>7. QED
  BY <1>6, OutranksIsOrder

\* Sorting by counting who is ahead loses nobody's place.
LEMMA SortedByCounting ==
  ASSUME NEW W \in SUBSET Ids, W # {}, NEW n, n = Cardinality(W),
         NEW w, w = [i \in 1..n |-> CHOOSE s \in W : Cardinality({u \in W : Outranks(u, s)}) = i - 1]
  PROVE  w \in Seq(Ids) /\ w # <<>> /\ Range(w) \subseteq W
<1> DEFINE place(s) == Cardinality({u \in W : Outranks(u, s)})
           pos == [s \in W |-> place(s)]
<1>1. IsFiniteSet(W) /\ n \in Nat /\ n # 0
  <2>1. IsFiniteSet(W)
    BY AheadGrows
  <2>2. QED
    BY <2>1, FS_CardinalityType, FS_EmptySet
<1>2. \A s \in W : place(s) \in 0..(n - 1)
  BY AheadGrows
<1>3. \A s, t \in W : Outranks(t, s) => place(t) < place(s)
  BY AheadGrows
<1>4. w = [i \in 1..n |-> CHOOSE s \in W : place(s) = i - 1]
  OBVIOUS
<1> HIDE DEF place
<1>5. pos \in Injection(W, 0..(n - 1))
  <2>1. \A s, t \in W : place(s) = place(t) => s = t
    BY <1>1, <1>2, <1>3, OutranksIsOrder
  <2>2. QED
    BY <1>2, <2>1 DEF Injection, IsInjective
<1>6. \A i \in 0..(n - 1) : \E s \in W : place(s) = i
  <2>1. IsFiniteSet(0..(n - 1)) /\ Cardinality(0..(n - 1)) = n
    <3>1. n - 1 \in Int /\ 0 \in Int /\ 0 <= n - 1 /\ n - 1 - 0 + 1 = n
      BY <1>1
    <3>2. QED
      BY <3>1, FS_Interval
  <2>2. pos \in Surjection(W, 0..(n - 1))
    BY <1>1, <1>5, <2>1, FS_Injection
  <2>3. QED
    BY <2>2 DEF Surjection
<1>7. \A i \in 1..n : w[i] \in W
  <2>1. TAKE i \in 1..n
  <2>2. \E s \in W : place(s) = i - 1
    BY <1>1, <1>6
  <2>3. QED
    BY <1>4, <2>2
<1>8. w \in [1..n -> W]
  BY <1>4, <1>7
<1>9. w \in Seq(W) /\ Len(w) = n
  BY <1>1, <1>8, FunctionIsSeq
<1>10. Range(w) \subseteq W
  BY <1>9, RangeParts
<1>11. w \in Seq(Ids) /\ w # <<>>
  BY <1>1, <1>9
<1>12. QED
  BY <1>10, <1>11

\* The winners are due, there is one if any is due, and one for each target.
LEMMA WinnersOK ==
  ASSUME NEW due \in SUBSET Ids, due # {}
  PROVE  /\ Winners(due) \in Seq(Ids) /\ Winners(due) # <<>>
         /\ Range(Winners(due)) \subseteq due
         /\ \A s, t \in Range(Winners(due)) : Sched[s].target = Sched[t].target => s = t
<1>1. PICK first : first = {s \in due : \A t \in {t \in due : Sched[t].target = Sched[s].target} \ {s} :
                                    Outranks(s, t)}
  OBVIOUS
<1>2. first \in SUBSET Ids /\ first \subseteq due
  BY <1>1
<1>3. first # {}
  BY <1>1, OneIsFirst
<1>4. Winners(due) = [i \in 1..Cardinality(first) |->
         CHOOSE s \in first : Cardinality({u \in first : Outranks(u, s)}) = i - 1]
  BY <1>1 DEF Winners
<1>5. PICK w : w = Winners(due)
  OBVIOUS
<1>6. w \in Seq(Ids) /\ w # <<>> /\ Range(w) \subseteq first
  BY <1>2, <1>3, <1>4, <1>5, SortedByCounting
<1>7. \A s, t \in first : Sched[s].target = Sched[t].target => s = t
  <2>1. \A s, t \in first : s # t /\ Sched[s].target = Sched[t].target =>
          Outranks(s, t) /\ Outranks(t, s)
    BY <1>1
  <2>2. QED
    BY <1>2, <2>1, OutranksIsOrder
<1>8. QED
  BY <1>2, <1>5, <1>6, <1>7

-----------------------------------------------------------------------------
(***************************************************************************)
(* Handlers: one begins, one goes on.                                      *)
(***************************************************************************)
LEMMA PartsOfTouched ==
  ASSUME NEW d
  PROVE  /\ Pending(d) \subseteq Touches(d) /\ Carried(d) \subseteq Touches(d)
         /\ d # Idle => d.c \in Touches(d)
         /\ Touches(Idle) = {} /\ Pending(Idle) = {} /\ Carried(Idle) = {}
  BY DEF Pending, Carried, Touches

LEMMA CarriedAreClients ==
  ASSUME NEW d, HandlerOK(d)
  PROVE  Carried(d) \subseteq Clients
<1>1. CASE d = Idle
  BY <1>1, PartsOfTouched
<1>2. CASE d # Idle
  BY <1>2, RangeParts DEF HandlerOK, Handling, Carried
<1>3. QED
  BY <1>1, <1>2

LEMMA BeginTakesSlot ==
  ASSUME handlers \in [Slots -> {Idle} \cup Handling], NEW new, Begin(new)
  PROVE  \E k \in Slots :
           /\ handlers[k] = Idle /\ handlers' = [handlers EXCEPT ![k] = new]
           /\ clash' = (clash \ Touches(new))
                       \cup (Touches(new) \cap UNION {Touches(handlers[i]) : i \in Slots})
<1> DEFINE free == {i \in Slots : ~Busy(i)}
<1>1. free \in SUBSET Nat /\ free # {}
  BY DEF Begin, Slots
<1>2. \E i \in free : \A j \in free : i <= j
  BY <1>1, SmallestOne
<1>3. PICK k : k = CHOOSE i \in free : \A j \in free : i <= j
  OBVIOUS
<1>4. k \in free
  BY <1>2, <1>3
<1>5. QED
  BY <1>3, <1>4 DEF Begin, Busy

\* A request, an event or an evaluation that begins has everything still before it;
\* what it has read of a row is what the row says.
LEMMA BeginKeeps ==
  ASSUME HandlersInv, NEW new, Begin(new),
         new # Idle, HandlerOK(new), ShapeOK(new),
         Touches(new) \subseteq Pending(new),
         \A c \in Carried(new) : row[c].assigned \in {new.list, None},
         new.kind = "ranked" => new.at # "write",
         UNCHANGED <<row, exists, connected, shown>>,
         \A c \in Clients \ Touches(new) : ranked'[c] = ranked[c]
  PROVE  HandlersInv'
<1>1. PICK k \in Slots :
        /\ handlers[k] = Idle /\ handlers' = [handlers EXCEPT ![k] = new]
        /\ clash' = (clash \ Touches(new))
                    \cup (Touches(new) \cap UNION {Touches(handlers[i]) : i \in Slots})
  BY BeginTakesSlot DEF HandlersInv
<1>2. /\ DOMAIN handlers' = Slots /\ handlers'[k] = new
      /\ \A i \in Slots : i # k => handlers'[i] = handlers[i]
  BY <1>1 DEF HandlersInv
<1>3. handlers' \in [Slots -> {Idle} \cup Handling] /\ \A i \in Slots : ShapeOK(handlers'[i])
  BY <1>1, <1>2 DEF HandlersInv, HandlerOK
<1>4. \A i \in Slots : \A c \in Touches(handlers[i]) : c \notin clash' => c \notin clash /\ c \notin Touches(new)
  BY <1>1
<1>5. \A i \in Slots : i # k =>
        /\ Touches(handlers'[i]) = Touches(handlers[i]) /\ Carried(handlers'[i]) = Carried(handlers[i])
        /\ Pending(handlers'[i]) = Pending(handlers[i])
  BY <1>2
<1>6. Touches(handlers[k]) = {} /\ Pending(handlers[k]) = {} /\ Touches(handlers'[k]) = Touches(new)
      /\ Pending(handlers'[k]) = Pending(new)
  BY <1>1, <1>2, PartsOfTouched
<1>7. NoOverlap'
  <2>1. ASSUME NEW g \in Slots, NEW h \in Slots, g # h,
               NEW c \in Touches(handlers'[g]), c \in Touches(handlers'[h]), c \notin clash'
        PROVE  FALSE
    <3>1. CASE g # k /\ h # k
      <4>1. c \in Touches(handlers[g]) /\ c \in Touches(handlers[h])
        BY <2>1, <3>1, <1>5
      <4>2. QED
        BY <2>1, <4>1, <1>4 DEF HandlersInv, NoOverlap
    <3>2. CASE g = k
      BY <2>1, <3>2, <1>4, <1>5, <1>6
    <3>3. CASE h = k
      BY <2>1, <3>3, <1>4, <1>5, <1>6
    <3>4. QED
      BY <3>1, <3>2, <3>3
  <2>2. QED
    BY <2>1 DEF NoOverlap
<1>8. RowIsCarried'
  <2>1. ASSUME NEW h \in Slots, NEW c \in Carried(handlers'[h]), c \notin clash'
        PROVE  row[c].assigned \in {handlers'[h].list, None}
    <3>1. CASE h = k
      BY <2>1, <3>1, <1>2
    <3>2. CASE h # k
      <4>1. c \in Carried(handlers[h]) /\ c \notin clash
        BY <2>1, <3>2, <1>4, <1>5, PartsOfTouched
      <4>2. QED
        BY <3>2, <4>1, <1>2 DEF HandlersInv, RowIsCarried
    <3>3. QED
      BY <3>1, <3>2
  <2>2. QED
    BY <2>1 DEF RowIsCarried
<1>9. WrongIsPending'
  <2>1. ASSUME NEW c \in connected \ clash', row[c].assigned # None, shown[c] # row[c].assigned
        PROVE  \E h \in Slots : c \in Pending(handlers'[h])
    <3>1. CASE c \in Touches(new)
      BY <3>1, <1>6
    <3>2. CASE c \notin Touches(new)
      <4>1. c \notin clash
        BY <2>1, <3>2, <1>1
      <4>2. PICK h \in Slots : c \in Pending(handlers[h])
        BY <2>1, <4>1 DEF HandlersInv, WrongIsPending
      <4>3. QED
        BY <4>2, <1>5, <1>6
    <3>3. QED
      BY <3>1, <3>2
  <2>2. QED
    BY <2>1 DEF WrongIsPending
<1>10. TopIsTop'
  <2>1. ASSUME NEW h \in Slots, NEW d, d = handlers'[h], d # Idle, d.kind = "ranked",
               d.at = "write", d.c \notin clash'
        PROVE  (d.list \in Tops(d.c))' \/ ~MayWrite(d.list)'
    <3>1. h # k
      BY <2>1, <1>2
    <3>2. d = handlers[h]
      BY <2>1, <3>1, <1>2
    <3>3. d.c \in Touches(d) /\ d.c \in Clients
      BY <2>1, <3>1, <3>2, <1>2, PartsOfTouched DEF HandlersInv, Handling
    <3>4. d.c \notin clash /\ d.c \notin Touches(new)
      BY <2>1, <3>2, <3>3, <1>4
    <3>5. d.list \in Tops(d.c) \/ ~MayWrite(d.list)
      BY <2>1, <3>2, <3>3, <3>4 DEF HandlersInv, TopIsTop, Busy
    <3>6. ranked'[d.c] = ranked[d.c]
      BY <3>3, <3>4
    <3>7. QED
      BY <3>3, <3>5, <3>6 DEF Tops, MayWrite
  <2>2. QED
    BY <2>1 DEF TopIsTop, Busy
<1>11. QED
  BY <1>2, <1>3, <1>7, <1>8, <1>9, <1>10 DEF HandlersInv

\* A handler at work on a client is the only one, or the client is in clash: it suffices
\* to look at what it does to the clients it touches.
LEMMA StepKeeps ==
  ASSUME HandlersInv, NEW h \in Slots, handlers[h] # Idle,
         NEW new, handlers' = [handlers EXCEPT ![h] = new],
         HandlerOK(new), ShapeOK(new),
         Touches(new) \subseteq Touches(handlers[h]), clash \subseteq clash',
         UNCHANGED <<ranked, exists>>,
         \A c \in Clients \ {handlers[h].c} : row'[c] = row[c] /\ shown'[c] = shown[c],
         connected' \subseteq Clients, connected' \subseteq connected \cup {handlers[h].c},
         \A c \in Touches(handlers[h]) \ clash' :
           /\ c \in Carried(new) => row'[c].assigned \in {new.list, None}
           /\ c \in connected' /\ row'[c].assigned # None /\ shown'[c] # row'[c].assigned
              => c \in Pending(new),
         \/ new = Idle \/ new.kind # "ranked" \/ new.at # "write" \/ new.c \in clash'
         \/ new.list \in Tops(new.c)
  PROVE  HandlersInv'
<1>1. PICK d : d = handlers[h]
  OBVIOUS
<1>2. /\ DOMAIN handlers' = Slots /\ handlers'[h] = new
      /\ \A i \in Slots : i # h => handlers'[i] = handlers[i]
  BY DEF HandlersInv
<1>3. handlers' \in [Slots -> {Idle} \cup Handling] /\ \A i \in Slots : ShapeOK(handlers'[i])
  BY <1>2 DEF HandlersInv, HandlerOK
<1>4. d.c \in Touches(d) /\ Touches(d) \subseteq Touches(handlers[h])
  BY <1>1, PartsOfTouched
<1>5. \A g \in Slots : \A c \in Touches(handlers[g]) : g # h /\ c \notin clash' => c \notin Touches(d)
  BY <1>1 DEF HandlersInv, NoOverlap
<1>6. \A g \in Slots : Touches(handlers'[g]) \subseteq Touches(handlers[g])
  BY <1>1, <1>2
<1>7. NoOverlap'
  BY <1>6 DEF HandlersInv, NoOverlap
<1>8. RowIsCarried'
  <2>1. ASSUME NEW g \in Slots, NEW c \in Carried(handlers'[g]), c \notin clash'
        PROVE  row'[c].assigned \in {handlers'[g].list, None}
    <3>1. CASE g = h
      BY <2>1, <3>1, <1>2, PartsOfTouched
    <3>2. CASE g # h
      <4>1. c \in Carried(handlers[g]) /\ c \in Touches(handlers[g])
        BY <2>1, <3>2, <1>2, PartsOfTouched
      <4>2. c \in Clients
        BY <4>1, CarriedAreClients DEF HandlersInv, HandlerOK
      <4>3. row'[c] = row[c]
        BY <2>1, <3>2, <4>1, <4>2, <1>1, <1>4, <1>5
      <4>4. QED
        BY <2>1, <3>2, <4>1, <4>3, <1>2 DEF HandlersInv, RowIsCarried
    <3>3. QED
      BY <3>1, <3>2
  <2>2. QED
    BY <2>1 DEF RowIsCarried
<1>9. WrongIsPending'
  <2>1. ASSUME NEW c \in connected' \ clash', row'[c].assigned # None, shown'[c] # row'[c].assigned
        PROVE  \E g \in Slots : c \in Pending(handlers'[g])
    <3>1. CASE c \in Touches(d)
      BY <2>1, <3>1, <1>1, <1>2
    <3>2. CASE c \notin Touches(d)
      <4>1. c # d.c /\ c \in Clients /\ c \in connected
        BY <2>1, <3>2, <1>1, <1>4
      <4>2. row[c].assigned # None /\ shown[c] # row[c].assigned /\ c \notin clash
        BY <2>1, <4>1, <1>1
      <4>3. PICK g \in Slots : c \in Pending(handlers[g])
        BY <4>1, <4>2 DEF HandlersInv, WrongIsPending
      <4>4. g # h
        BY <3>2, <4>3, <1>1, PartsOfTouched
      <4>5. QED
        BY <4>3, <4>4, <1>2
    <3>3. QED
      BY <3>1, <3>2
  <2>2. QED
    BY <2>1 DEF WrongIsPending
<1>10. TopIsTop'
  <2>1. ASSUME NEW g \in Slots, handlers'[g] # Idle, handlers'[g].kind = "ranked",
               handlers'[g].at = "write", handlers'[g].c \notin clash'
        PROVE  handlers'[g].list \in Tops(handlers'[g].c) \/ ~MayWrite(handlers'[g].list)
    <3>1. CASE g = h
      BY <2>1, <3>1, <1>2
    <3>2. CASE g # h
      BY <2>1, <3>2, <1>2 DEF HandlersInv, TopIsTop, Busy
    <3>3. QED
      BY <3>1, <3>2
  <2>2. \A x : Tops(x)' = Tops(x) /\ MayWrite(x)' = MayWrite(x)
    BY DEF Tops, MayWrite
  <2>3. QED
    BY <2>1, <2>2 DEF TopIsTop, Busy
<1>11. QED
  BY <1>2, <1>3, <1>7, <1>8, <1>9, <1>10 DEF HandlersInv

-----------------------------------------------------------------------------
(***************************************************************************)
(* Requests, registrations and events.                                     *)
(***************************************************************************)
LEMMA TouchedAreClients ==
  ASSUME NEW d, HandlerOK(d)
  PROVE  Touches(d) \subseteq Clients
<1>1. CASE d = Idle
  BY <1>1, PartsOfTouched
<1>2. CASE d # Idle
  <2>1. d.c \in Clients /\ d.todo \in Seq(Clients) /\ d.out \in Seq(Clients) /\ d.winners \in Seq(Ids)
    BY <1>2 DEF HandlerOK, Handling
  <2>2. TargetsOf(d.winners) \subseteq Clients
    BY <2>1, RangeParts, TargetsOK DEF TargetsOf
  <2>3. QED
    BY <1>2, <2>1, <2>2, RangeParts DEF Touches
<1>3. QED
  BY <1>1, <1>2

LEMMA NoneIsSeq ==
  ASSUME NEW S
  PROVE  <<>> \in Seq(S)
  OBVIOUS

LEMMA PastKeeps ==
  ASSUME FiredIsPast, OneWinnerPerTarget, UNCHANGED <<day, minute, lastTriggered, fired>>,
         exists' \subseteq exists
  PROVE  FiredIsPast' /\ OneWinnerPerTarget'
<1>1. \A s \in Ids : Starts(s)' => Starts(s)
  BY DEF Starts
<1>2. QED
  BY <1>1 DEF FiredIsPast, OneWinnerPerTarget

LEMMA RequestKeeps ==
  ASSUME SignInv, Request, NEW new, Begin(new),
         new # Idle, HandlerOK(new), ShapeOK(new),
         Touches(new) \subseteq Pending(new),
         \A c \in Carried(new) : row[c].assigned \in {new.list, None},
         new.kind = "ranked" => new.at # "write",
         UNCHANGED <<row, exists, connected, shown, timers, clock, lastTriggered, fired>>,
         eventLastFired' \subseteq Ids,
         ranked' \in [Clients -> SUBSET [list : exists, rank : Ranks]],
         \A c \in Clients \ Touches(new) : ranked'[c] = ranked[c]
  PROVE  SignInv'
<1>1. HandlersInv'
  BY BeginKeeps DEF SignInv
<1>2. FiredIsPast' /\ OneWinnerPerTarget'
  BY PastKeeps DEF SignInv, clock
<1>3. clash' \subseteq Clients
  BY TouchedAreClients, BeginTakesSlot DEF SignInv, TypeOK, HandlerOK
<1>4. handlers' \in [Slots -> {Idle} \cup Handling]
  BY <1>1 DEF HandlersInv
<1>5. begun' \in 0..MaxBegun
  BY SignageAssumption DEF Request, SignInv, TypeOK
<1>6. TypeOK'
  BY <1>3, <1>4, <1>5 DEF SignInv, TypeOK, clock
<1>7. QED
  BY <1>1, <1>2, <1>6 DEF SignInv

\* A handler that starts with a write has nothing in hand, and all it touches before it.
LEMMA WriterStarts ==
  ASSUME NEW d, HandlerOK(d), d # Idle, d.at = "write", d.out = <<>>
  PROVE  Touches(d) \subseteq Pending(d) /\ Carried(d) = {}
  BY RangeOfNone DEF Touches, Pending, Carried

LEMMA PutKeeps ==
  ASSUME SignInv, NEW c \in Clients, NEW list \in Lists, Put(c, list)
  PROVE  SignInv'
<1>1. PICK d : d = Handler("put", "write", c, list, <<>>, <<>>)
  OBVIOUS
<1>2. /\ HandlerOK(d) /\ d # Idle /\ d.kind = "put" /\ d.at = "write"
      /\ d.todo = <<>> /\ d.out = <<>> /\ d.winners = <<>>
  BY <1>1, NoneIsSeq DEF Handler, HandlerOK, Handling, Idle, Lists
<1>3. ShapeOK(d)
  BY <1>2 DEF ShapeOK
<1>4. Request /\ Begin(d) /\ UNCHANGED <<store, connected, shown, memory, clock, fired>>
  BY <1>1 DEF Put
<1>5. QED
  BY <1>2, <1>3, <1>4, WriterStarts, RequestKeeps DEF store, memory, SignInv, TypeOK

LEMMA InterruptKeeps ==
  ASSUME SignInv, NEW c \in Clients, NEW list \in Playlists, Interrupt(c, list)
  PROVE  SignInv'
<1>1. PICK d : d = Handler("interrupt", "write", c, list, <<>>, <<>>)
  OBVIOUS
<1>2. /\ HandlerOK(d) /\ d # Idle /\ d.kind = "interrupt" /\ d.at = "write"
      /\ d.todo = <<>> /\ d.out = <<>> /\ d.winners = <<>>
  BY <1>1, NoneIsSeq DEF Handler, HandlerOK, Handling, Idle, Lists
<1>3. ShapeOK(d)
  BY <1>2 DEF ShapeOK
<1>4. Request /\ Begin(d) /\ UNCHANGED <<store, connected, shown, memory, clock, fired>>
  BY <1>1 DEF Interrupt
<1>5. QED
  BY <1>2, <1>3, <1>4, WriterStarts, RequestKeeps DEF store, memory, SignInv, TypeOK

LEMMA AssignGroupKeeps ==
  ASSUME SignInv, NEW list \in Playlists, AssignGroup(list)
  PROVE  SignInv'
<1>1. PICK d : d = Handler("group", "write", Head(Group), list, Tail(Group), <<>>)
  OBVIOUS
<1>2. Head(Group) \in Clients /\ Tail(Group) \in Seq(Clients)
  BY SignageAssumption, RangeParts
<1>3. /\ HandlerOK(d) /\ d # Idle /\ d.kind = "group" /\ d.at = "write" /\ d.out = <<>>
  BY <1>1, <1>2, NoneIsSeq DEF Handler, HandlerOK, Handling, Idle, Lists
<1>4. ShapeOK(d)
  BY <1>3 DEF ShapeOK
<1>5. Request /\ Begin(d) /\ UNCHANGED <<store, connected, shown, memory, clock, fired>>
  BY <1>1 DEF AssignGroup
<1>6. QED
  BY <1>3, <1>4, <1>5, WriterStarts, RequestKeeps DEF store, memory, SignInv, TypeOK

LEMMA ReranksKeeps ==
  ASSUME SignInv, NEW c \in Clients, NEW assignments \in SUBSET [list : exists, rank : Ranks],
         Reranks(c, assignments)
  PROVE  SignInv'
<1>1. PICK d : d = Handler("ranked", "change", c, None, <<>>, <<>>)
  OBVIOUS
<1>2. /\ HandlerOK(d) /\ d # Idle /\ d.kind = "ranked" /\ d.at = "change" /\ d.c = c
      /\ d.todo = <<>> /\ d.out = <<>> /\ d.winners = <<>>
  BY <1>1, NoneIsSeq DEF Handler, HandlerOK, Handling, Idle, Lists
<1>3. ShapeOK(d)
  BY <1>2 DEF ShapeOK
<1>4. /\ Request /\ Begin(d) /\ ranked' = [ranked EXCEPT ![c] = assignments]
      /\ UNCHANGED <<row, exists, connected, shown, memory, clock, fired>>
  BY <1>1 DEF Reranks
<1>5. Touches(d) = {c} /\ Pending(d) = {c} /\ Carried(d) = {}
  BY <1>2, RangeOfNone DEF Touches, Pending, Carried
<1>6. ranked \in [Clients -> SUBSET [list : exists, rank : Ranks]]
  BY DEF SignInv, TypeOK
<1>7. QED
  BY <1>2, <1>3, <1>4, <1>5, <1>6, RequestKeeps DEF memory, SignInv, TypeOK

LEMMA RemovalTyped ==
  ASSUME SignInv, NEW c \in Clients, NEW list
  PROVE  removeClientPlaylist(c, list) \in SUBSET [list : exists, rank : Ranks]
<1>1. ranked[c] \in SUBSET [list : exists, rank : Ranks]
  BY DEF SignInv, TypeOK
<1>2. QED
  BY <1>1 DEF removeClientPlaylist

LEMMA RemovalKeeps ==
  ASSUME SignInv, NEW c \in Clients, NEW list \in Playlists, removePlaylistAssignment(c, list)
  PROVE  SignInv'
  BY RemovalTyped, ReranksKeeps DEF removePlaylistAssignment

LEMMA AssignmentsKeep ==
  ASSUME SignInv, NEW c \in Clients, NEW list \in Playlists, NEW rank \in Ranks,
         addPlaylistAssignment(c, list, rank) \/ updatePlaylistPriority(c, list, rank)
  PROVE  SignInv'
<1>1. ranked[c] \in SUBSET [list : exists, rank : Ranks]
  BY DEF SignInv, TypeOK
<1>2. CASE addPlaylistAssignment(c, list, rank)
  <2>1. addClientPlaylist(c, list, rank) \in SUBSET [list : exists, rank : Ranks]
    BY <1>1, <1>2 DEF addPlaylistAssignment, addClientPlaylist
  <2>2. QED
    BY <1>2, <2>1, ReranksKeeps DEF addPlaylistAssignment
<1>3. CASE updatePlaylistPriority(c, list, rank)
  <2>1. list \in exists
    BY <1>1, <1>3 DEF updatePlaylistPriority, AssignedTo
  <2>2. updateClientPlaylistPriority(c, list, rank) \in SUBSET [list : exists, rank : Ranks]
    BY <2>1, RemovalTyped DEF updateClientPlaylistPriority
  <2>3. QED
    BY <1>3, <2>2, ReranksKeeps DEF updatePlaylistPriority
<1>4. QED
  BY <1>2, <1>3

LEMMA RegisterKeeps ==
  ASSUME SignInv, NEW c \in Clients, Register(c)
  PROVE  SignInv'
<1>1. PICK d : d = Handler("register", "connect", c, row[c].assigned, <<>>, <<>>)
  OBVIOUS
<1>2. row[c].assigned \in Lists
  BY DEF SignInv, TypeOK, Lists
<1>3. /\ HandlerOK(d) /\ d # Idle /\ d.kind = "register" /\ d.at = "connect" /\ d.c = c
      /\ d.todo = <<>> /\ d.out = <<>> /\ d.winners = <<>> /\ d.list = row[c].assigned
  BY <1>1, <1>2, NoneIsSeq DEF Handler, HandlerOK, Handling, Idle, Lists
<1>4. ShapeOK(d)
  BY <1>3 DEF ShapeOK
<1>5. Request /\ Begin(d) /\ UNCHANGED <<store, connected, shown, memory, clock, fired>>
  BY <1>1 DEF Register
<1>6. Touches(d) = {c} /\ Pending(d) = {c} /\ Carried(d) = {c}
  BY <1>3, RangeOfNone DEF Touches, Pending, Carried
<1>7. QED
  BY <1>3, <1>4, <1>5, <1>6, RequestKeeps DEF store, memory, SignInv, TypeOK

LEMMA ServeOK ==
  ASSUME NEW s \in Ids, NEW to \in Seq(Clients), to # <<>>, NEW winners \in Seq(Ids),
         NEW d, d = Serve(s, to, winners)
  PROVE  /\ HandlerOK(d) /\ d # Idle /\ ShapeOK(d)
         /\ d.kind \in {"schedinterrupt", "group", "each"} /\ d.at = "write" /\ d.out = <<>>
         /\ {d.c} \cup Range(d.todo) = Range(to) /\ d.winners = winners
<1>1. PICK kind : kind = (IF Sched[s].interrupts THEN "schedinterrupt"
                          ELSE IF Sched[s].target = "group" THEN "group" ELSE "each")
  OBVIOUS
<1>2. kind \in {"schedinterrupt", "group", "each"}
  BY <1>1
<1>3. d = Handler(kind, "write", Head(to), Sched[s].list, Tail(to), winners)
  BY <1>1 DEF Serve
<1>4. Sched[s].list \in Lists
  BY SignageAssumption DEF Ids, Lists
<1>5. Head(to) \in Clients /\ Tail(to) \in Seq(Clients) /\ Range(to) = {Head(to)} \cup Range(Tail(to))
  BY RangeParts
<1>6. /\ HandlerOK(d) /\ d # Idle /\ d.kind = kind /\ d.at = "write" /\ d.c = Head(to)
      /\ d.todo = Tail(to) /\ d.out = <<>> /\ d.winners = winners
  BY <1>2, <1>3, <1>4, <1>5, NoneIsSeq DEF Handler, HandlerOK, Handling, Idle, Lists
<1>7. ShapeOK(d)
  BY <1>2, <1>6 DEF ShapeOK
<1>8. QED
  BY <1>2, <1>5, <1>6, <1>7

LEMMA ServeLast ==
  ASSUME NEW s \in Ids, NEW to \in Seq(Clients), to # <<>>, NEW d, d = Serve(s, to, <<>>)
  PROVE  /\ HandlerOK(d) /\ d # Idle /\ ShapeOK(d) /\ d.at = "write" /\ d.out = <<>>
         /\ d.kind \in {"schedinterrupt", "group", "each"}
<1>1. PICK none \in Seq(Ids) : none = <<>>
  BY NoneIsSeq
<1>2. d = Serve(s, to, none)
  BY <1>1
<1>3. QED
  BY <1>2, ServeOK

LEMMA EventKeeps ==
  ASSUME SignInv, NEW c \in Clients, Event(c)
  PROVE  SignInv'
<1>1. PICK s \in Ids, narrowed \in BOOLEAN :
        /\ Request /\ eventLastFired' = eventLastFired \cup {s}
        /\ Begin(Serve(s, IF narrowed /\ Sched[s].target = "all" THEN <<c>> ELSE Targets(s), <<>>))
        /\ UNCHANGED <<store, connected, shown, lastTriggered, timers, clock, fired>>
  BY DEF Event
<1>2. PICK to : to = IF narrowed /\ Sched[s].target = "all" THEN <<c>> ELSE Targets(s)
  OBVIOUS
<1>3. to \in Seq(Clients) /\ to # <<>>
  BY <1>2, TargetsOK
<1>4. PICK d : d = Serve(s, to, <<>>)
  OBVIOUS
<1>5. /\ HandlerOK(d) /\ d # Idle /\ ShapeOK(d) /\ d.at = "write" /\ d.out = <<>>
      /\ d.kind \in {"schedinterrupt", "group", "each"}
  BY <1>2, <1>3, <1>4, ServeLast
<1>6. Begin(d)
  BY <1>1, <1>2, <1>4
<1>7. eventLastFired' \subseteq Ids
  BY <1>1 DEF SignInv, TypeOK
<1>8. QED
  BY <1>1, <1>5, <1>6, <1>7, WriterStarts, RequestKeeps DEF store, SignInv, TypeOK

-----------------------------------------------------------------------------
(***************************************************************************)
(* The steps of a handler.                                                 *)
(***************************************************************************)
LEMMA HandlerStepKeeps ==
  ASSUME SignInv, NEW h \in Slots, handlers[h] # Idle,
         NEW new, handlers' = [handlers EXCEPT ![h] = new],
         HandlerOK(new), ShapeOK(new),
         Touches(new) \subseteq Touches(handlers[h]),
         clash \subseteq clash', clash' \subseteq clash \cup Touches(handlers[h]),
         UNCHANGED <<ranked, exists, lastTriggered, eventLastFired, clock, begun, fired>>,
         \A c \in Clients \ {handlers[h].c} : row'[c] = row[c] /\ shown'[c] = shown[c],
         row' \in [Clients -> [assigned : exists \cup {None}, from : exists \cup {None}]],
         shown' \in [Clients -> Lists],
         connected' \subseteq connected \cup {handlers[h].c},
         timers' \subseteq timers \cup {handlers[h].c},
         \A c \in Touches(handlers[h]) \ clash' :
           /\ c \in Carried(new) => row'[c].assigned \in {new.list, None}
           /\ c \in connected' /\ row'[c].assigned # None /\ shown'[c] # row'[c].assigned
              => c \in Pending(new),
         \/ new = Idle \/ new.kind # "ranked" \/ new.at # "write" \/ new.c \in clash'
         \/ new.list \in Tops(new.c)
  PROVE  SignInv'
<1>1. Touches(handlers[h]) \subseteq Clients /\ handlers[h].c \in Touches(handlers[h])
  BY TouchedAreClients, PartsOfTouched DEF SignInv, TypeOK, HandlerOK
<1>2. connected' \subseteq Clients /\ clash' \subseteq Clients /\ timers' \subseteq Clients
  BY <1>1 DEF SignInv, TypeOK
<1>3. HandlersInv'
  BY <1>2, StepKeeps DEF SignInv
<1>4. FiredIsPast' /\ OneWinnerPerTarget'
  BY PastKeeps DEF SignInv, clock
<1>5. handlers' \in [Slots -> {Idle} \cup Handling]
  BY <1>3 DEF HandlersInv
<1>6. TypeOK'
  BY <1>2, <1>5 DEF SignInv, TypeOK, clock
<1>7. QED
  BY <1>3, <1>4, <1>6 DEF SignInv

\* The handler goes on and changes no row.
LEMMA OnlyHandlerKeeps ==
  ASSUME SignInv, NEW h \in Slots, handlers[h] # Idle,
         NEW new, handlers' = [handlers EXCEPT ![h] = new],
         HandlerOK(new), ShapeOK(new),
         Touches(new) \subseteq Touches(handlers[h]),
         clash \subseteq clash', clash' \subseteq clash \cup Touches(handlers[h]),
         UNCHANGED <<store, connected, shown, memory, clock, begun, fired>>,
         \A c \in Touches(handlers[h]) \ clash' :
           /\ c \in Carried(new) => row[c].assigned \in {new.list, None}
           /\ c \in connected /\ row[c].assigned # None /\ shown[c] # row[c].assigned
              => c \in Pending(new),
         \/ new = Idle \/ new.kind # "ranked" \/ new.at # "write" \/ new.c \in clash'
         \/ new.list \in Tops(new.c)
  PROVE  SignInv'
<1>1. UNCHANGED <<row, ranked, exists, connected, shown, lastTriggered, eventLastFired, timers, clock, begun, fired>>
  BY DEF store, memory
<1>2. /\ row \in [Clients -> [assigned : exists \cup {None}, from : exists \cup {None}]]
      /\ shown \in [Clients -> Lists]
  BY DEF SignInv, TypeOK
<1>3. QED
  BY <1>1, <1>2, HandlerStepKeeps

LEMMA IdleOK == HandlerOK(Idle) /\ ShapeOK(Idle)
  BY DEF HandlerOK, Handling, ShapeOK

LEMMA HandlerFacts ==
  ASSUME SignInv, NEW h \in Slots, handlers[h] # Idle, NEW d, d = handlers[h]
  PROVE  /\ d \in Handling
         /\ HandlerOK(d) /\ ShapeOK(d) /\ d.c \in Touches(d)
  BY PartsOfTouched DEF SignInv, HandlersInv, HandlerOK, Handling

LEMMA NextClientOK ==
  ASSUME NEW d, d # Idle, HandlerOK(d), ShapeOK(d),
         d.at = "send" \/ (d.at = "write" /\ d.kind = "schedinterrupt"),
         NEW new, new = NextClient(d)
  PROVE  /\ HandlerOK(new) /\ ShapeOK(new)
         /\ Touches(new) \subseteq Touches(d) /\ Touches(d) \ {d.c} \subseteq Pending(new)
         /\ Carried(new) \subseteq Carried(d)
         /\ (new # Idle => new.list = d.list /\ new.kind # "ranked")
<1>1. d \in Handling
  BY DEF HandlerOK, Handling
<1>2. d.out = <<>>
  BY DEF ShapeOK
<1>3. Touches(d) = {d.c} \cup Range(d.todo) \cup TargetsOf(d.winners)
  BY <1>2, RangeOfNone DEF Touches
<1>4. CASE d.todo # <<>>
  <2>1. PICK t \in {"send", "write"} : t = IF d.kind = "group" THEN d.at ELSE "write"
    OBVIOUS
  <2>2. new = [d EXCEPT !.c = Head(d.todo), !.todo = Tail(d.todo), !.at = t]
    BY <1>4, <2>1 DEF NextClient
  <2>3. Head(d.todo) \in Clients /\ Tail(d.todo) \in Seq(Clients)
        /\ Range(d.todo) = {Head(d.todo)} \cup Range(Tail(d.todo))
    BY <1>1, <1>4, RangeParts DEF Handling
  <2>4. new # Idle /\ HandlerOK(new)
    BY <1>1, <2>2, <2>3 DEF HandlerOK, Handling, Idle
  <2>5. /\ new.c = Head(d.todo) /\ new.todo = Tail(d.todo) /\ new.at = t /\ new.kind = d.kind
        /\ new.out = d.out /\ new.winners = d.winners /\ new.list = d.list
    BY <1>1, <2>2
  <2>6. d.kind \in {"group", "each", "schedinterrupt"}
        /\ (t = "send" => d.kind = "group" /\ d.at = "send")
    BY <1>1, <1>4, <2>1 DEF ShapeOK, Handling
  <2>7. ShapeOK(new)
    BY <1>2, <2>5, <2>6 DEF ShapeOK
  <2>8. Touches(new) = Range(d.todo) \cup TargetsOf(d.winners) /\ Pending(new) = Touches(new)
    BY <1>2, <2>3, <2>4, <2>5, RangeOfNone DEF Touches, Pending
  <2>9. Carried(new) \subseteq Carried(d)
    <3>1. CASE t = "send"
      <4>1. Carried(d) = {d.c} \cup Range(d.todo)
        BY <1>2, <2>6, <3>1, RangeOfNone DEF Carried
      <4>2. QED
        BY <1>2, <2>3, <2>4, <2>5, <4>1, RangeOfNone DEF Carried
    <3>2. CASE t = "write"
      BY <1>2, <2>4, <2>5, <3>2, RangeOfNone DEF Carried
    <3>3. QED
      BY <3>1, <3>2
  <2>10. QED
    BY <1>3, <2>4, <2>5, <2>6, <2>7, <2>8, <2>9
<1>5. CASE d.todo = <<>> /\ d.winners # <<>>
  <2>1. new = [d EXCEPT !.at = "dispatch"]
    BY <1>5 DEF NextClient
  <2>2. new # Idle /\ HandlerOK(new)
    BY <1>1, <2>1 DEF HandlerOK, Handling, Idle
  <2>3. /\ new.c = d.c /\ new.todo = <<>> /\ new.at = "dispatch" /\ new.kind = d.kind
        /\ new.out = <<>> /\ new.winners = d.winners /\ new.list = d.list
    BY <1>1, <1>2, <1>5, <2>1
  <2>4. d.kind \in {"group", "each", "schedinterrupt"}
    BY <1>1, <1>5 DEF ShapeOK, Handling
  <2>5. ShapeOK(new)
    BY <1>5, <2>3, <2>4 DEF ShapeOK
  <2>6. /\ Touches(new) = {d.c} \cup TargetsOf(d.winners) /\ Pending(new) = TargetsOf(d.winners)
        /\ Carried(new) = {}
    BY <2>2, <2>3, RangeOfNone DEF Touches, Pending, Carried
  <2>7. QED
    BY <1>3, <1>5, <2>2, <2>3, <2>4, <2>5, <2>6, RangeOfNone
<1>6. CASE d.todo = <<>> /\ d.winners = <<>>
  <2>1. new = Idle
    BY <1>6 DEF NextClient
  <2>2. Touches(d) \subseteq {d.c}
    BY <1>3, <1>6, RangeOfNone
  <2>3. QED
    BY <2>1, <2>2, IdleOK, PartsOfTouched
<1>7. QED
  BY <1>4, <1>5, <1>6

LEMMA ReadTopKeeps ==
  ASSUME SignInv, NEW h \in Slots, ReadTop(h)
  PROVE  SignInv'
<1>1. PICK d : d = handlers[h]
  OBVIOUS
<1>2. d # Idle /\ d.at = "change"
  BY <1>1 DEF ReadTop, Busy
<1>3. /\ d \in Handling
      /\ ShapeOK(d)
  BY <1>1, <1>2, HandlerFacts
<1>4. d.kind = "ranked" /\ d.todo = <<>> /\ d.winners = <<>> /\ d.out = <<>>
  BY <1>2, <1>3 DEF ShapeOK, Handling
<1>5. PICK top \in Tops(d.c) : Continue(h, [d EXCEPT !.at = "write", !.list = top])
  BY <1>1 DEF ReadTop
<1>6. top \in Lists
  BY <1>3 DEF SignInv, TypeOK, Tops, Lists, Handling
<1>7. PICK new : new = [d EXCEPT !.at = "write", !.list = top]
  OBVIOUS
<1>8. HandlerOK(new) /\ new # Idle
  BY <1>3, <1>6, <1>7 DEF HandlerOK, Handling, Idle
<1>9. /\ new.at = "write" /\ new.list = top /\ new.c = d.c /\ new.kind = "ranked"
      /\ new.todo = <<>> /\ new.out = <<>> /\ new.winners = <<>>
  BY <1>3, <1>4, <1>7
<1>10. ShapeOK(new)
  BY <1>9 DEF ShapeOK
<1>11. Touches(new) = {d.c} /\ Touches(d) = {d.c} /\ Pending(new) = {d.c} /\ Carried(new) = {}
  BY <1>2, <1>4, <1>8, <1>9, RangeOfNone DEF Touches, Pending, Carried
<1>12. handlers' = [handlers EXCEPT ![h] = new] /\ clash' = clash
  BY <1>5, <1>7 DEF Continue
<1>13. UNCHANGED <<store, connected, shown, memory, clock, begun, fired>>
  BY DEF ReadTop
<1>14. QED
  BY <1>1, <1>2, <1>8, <1>9, <1>10, <1>11, <1>12, <1>13, OnlyHandlerKeeps

\* A screen that differs from its row is still before the one handler that touches it.
LEMMA WrongIsMine ==
  ASSUME HandlersInv, NEW h \in Slots, NEW c \in Touches(handlers[h]), c \notin clash,
         c \in connected, row[c].assigned # None, shown[c] # row[c].assigned
  PROVE  c \in Pending(handlers[h])
<1>1. PICK g \in Slots : c \in Pending(handlers[g])
  BY DEF HandlersInv, WrongIsPending
<1>2. c \in Touches(handlers[g])
  BY <1>1, PartsOfTouched
<1>3. g = h
  BY <1>2 DEF HandlersInv, NoOverlap
<1>4. QED
  BY <1>1, <1>3

LEMMA ConnectKeeps ==
  ASSUME SignInv, NEW h \in Slots, Connect(h)
  PROVE  SignInv'
<1>1. PICK d : d = handlers[h]
  OBVIOUS
<1>2. d # Idle /\ d.at = "connect"
  BY <1>1 DEF Connect, Busy
<1>3. d \in Handling /\ ShapeOK(d) /\ HandlerOK(d)
  BY <1>1, <1>2, HandlerFacts
<1>4. d.kind = "register" /\ d.todo = <<>> /\ d.winners = <<>> /\ d.out = <<>>
  BY <1>2, <1>3 DEF ShapeOK, Handling
<1>5. Touches(d) = {d.c} /\ Carried(d) = {d.c}
  BY <1>2, <1>4, RangeOfNone DEF Touches, Carried
<1>6. /\ connected' = connected \cup {d.c}
      /\ UNCHANGED <<store, shown, memory, clock, begun, fired>> /\ UNCHANGED clash
      /\ handlers' = [handlers EXCEPT ![h] = IF d.list = None THEN Idle ELSE [d EXCEPT !.at = "send"]]
  BY <1>1 DEF Connect, Continue, Ends
<1>7. /\ UNCHANGED <<row, ranked, exists, shown, lastTriggered, eventLastFired, timers, clock, begun, fired>>
      /\ row \in [Clients -> [assigned : exists \cup {None}, from : exists \cup {None}]]
      /\ shown \in [Clients -> Lists]
  BY <1>6 DEF store, memory, SignInv, TypeOK
<1>8. d.c \notin clash => row[d.c].assigned \in {d.list, None}
  BY <1>1, <1>5 DEF SignInv, HandlersInv, RowIsCarried
<1>9. CASE d.list = None
  BY <1>1, <1>2, <1>5, <1>6, <1>7, <1>8, <1>9, IdleOK, PartsOfTouched, HandlerStepKeeps, ZenonT(60)
<1>10. CASE d.list # None
  <2>1. PICK new : new = [d EXCEPT !.at = "send"]
    OBVIOUS
  <2>2. HandlerOK(new) /\ new # Idle
    BY <1>3, <2>1 DEF HandlerOK, Handling, Idle
  <2>3. /\ new.at = "send" /\ new.list = d.list /\ new.c = d.c /\ new.kind = "register"
        /\ new.todo = <<>> /\ new.out = <<>> /\ new.winners = <<>>
    BY <1>3, <1>4, <2>1 DEF Handling
  <2>4. ShapeOK(new)
    BY <2>3 DEF ShapeOK
  <2>5. Touches(new) = {d.c} /\ Pending(new) = {d.c} /\ Carried(new) = {d.c}
    BY <2>2, <2>3, RangeOfNone DEF Touches, Pending, Carried
  <2>6. handlers' = [handlers EXCEPT ![h] = new]
    BY <1>6, <1>10, <2>1
  <2>7. QED
    BY <1>1, <1>2, <1>5, <1>6, <1>7, <1>8, <2>2, <2>3, <2>4, <2>5, <2>6, HandlerStepKeeps, ZenonT(60)
<1>11. QED
  BY <1>9, <1>10

LEMMA RereadKeeps ==
  ASSUME SignInv, NEW h \in Slots, Reread(h)
  PROVE  SignInv'
<1>1. PICK d : d = handlers[h]
  OBVIOUS
<1>2. d # Idle /\ d.at = "reread"
  BY <1>1 DEF Reread, Busy
<1>3. d \in Handling /\ ShapeOK(d) /\ HandlerOK(d)
  BY <1>1, <1>2, HandlerFacts
<1>4. d.kind \in {"put", "ranked"} /\ d.todo = <<>> /\ d.winners = <<>> /\ d.out = <<>>
  BY <1>2, <1>3 DEF ShapeOK, Handling
<1>5. Touches(d) = {d.c} /\ Carried(d) = {d.c}
  BY <1>2, <1>4, RangeOfNone DEF Touches, Carried
<1>6. PICK now : now = row[d.c].assigned
  OBVIOUS
<1>7. now \in Lists
  BY <1>3, <1>6 DEF SignInv, TypeOK, Lists, Handling
<1>8. /\ UNCHANGED <<store, connected, shown, memory, clock, begun, fired>> /\ UNCHANGED clash
      /\ handlers' = [handlers EXCEPT ![h] =
                        IF d.c \in connected /\ now # None /\ (d.kind = "put" => d.list # None)
                        THEN [d EXCEPT !.at = "send", !.list = now] ELSE Idle]
  BY <1>1, <1>6 DEF Reread, Continue, Ends
<1>9. d.c \notin clash => row[d.c].assigned \in {d.list, None}
  BY <1>1, <1>5 DEF SignInv, HandlersInv, RowIsCarried
<1>10. CASE d.c \in connected /\ now # None /\ (d.kind = "put" => d.list # None)
  <2>1. PICK new : new = [d EXCEPT !.at = "send", !.list = now]
    OBVIOUS
  <2>2. HandlerOK(new) /\ new # Idle
    BY <1>3, <1>7, <2>1 DEF HandlerOK, Handling, Idle
  <2>3. /\ new.at = "send" /\ new.list = now /\ new.c = d.c /\ new.kind = d.kind
        /\ new.todo = <<>> /\ new.out = <<>> /\ new.winners = <<>>
    BY <1>3, <1>4, <2>1 DEF Handling
  <2>4. ShapeOK(new)
    BY <1>4, <2>3 DEF ShapeOK
  <2>5. Touches(new) = {d.c} /\ Pending(new) = {d.c} /\ Carried(new) = {d.c}
    BY <1>4, <2>2, <2>3, RangeOfNone DEF Touches, Pending, Carried
  <2>6. handlers' = [handlers EXCEPT ![h] = new]
    BY <1>8, <1>10, <2>1
  <2>7. QED
    BY <1>1, <1>2, <1>5, <1>6, <1>8, <2>2, <2>3, <2>4, <2>5, <2>6, OnlyHandlerKeeps
<1>11. CASE ~(d.c \in connected /\ now # None /\ (d.kind = "put" => d.list # None))
  <2>1. handlers' = [handlers EXCEPT ![h] = Idle]
    BY <1>8, <1>11
  <2>2. d.c \notin clash /\ d.c \in connected => row[d.c].assigned = None
    BY <1>6, <1>9, <1>11
  <2>3. QED
    BY <1>1, <1>2, <1>5, <1>8, <2>1, <2>2, IdleOK, PartsOfTouched, OnlyHandlerKeeps, ZenonT(60)
<1>12. QED
  BY <1>10, <1>11

LEMMA DispatchKeeps ==
  ASSUME SignInv, NEW h \in Slots, Dispatch(h)
  PROVE  SignInv'
<1>1. PICK d : d = handlers[h]
  OBVIOUS
<1>2. d # Idle /\ d.at = "dispatch"
  BY <1>1 DEF Dispatch, Busy
<1>3. d \in Handling /\ ShapeOK(d) /\ HandlerOK(d)
  BY <1>1, <1>2, HandlerFacts
<1>4. d.todo = <<>> /\ d.winners # <<>> /\ d.out = <<>> /\ d.winners \in Seq(Ids)
  BY <1>2, <1>3 DEF ShapeOK, Handling
<1>5. PICK s : s = Head(d.winners)
  OBVIOUS
<1>6. s \in Ids /\ Tail(d.winners) \in Seq(Ids) /\ Range(d.winners) = {s} \cup Range(Tail(d.winners))
  BY <1>4, <1>5, RangeParts
<1>7. Targets(s) \in Seq(Clients) /\ Targets(s) # <<>>
  BY <1>6, TargetsOK
<1>8. PICK to \in Seq(Clients), rest \in Seq(Ids) :
        to = Targets(s) /\ rest = Tail(d.winners)
  BY <1>6, <1>7
<1>9. PICK new : new = Serve(s, to, rest)
  OBVIOUS
<1>10. /\ HandlerOK(new) /\ new # Idle /\ ShapeOK(new)
      /\ new.kind \in {"schedinterrupt", "group", "each"} /\ new.at = "write" /\ new.out = <<>>
      /\ {new.c} \cup Range(new.todo) = Range(Targets(s)) /\ new.winners = Tail(d.winners)
  <2>1. to # <<>>
    BY <1>7, <1>8
  <2>2. /\ HandlerOK(new) /\ new # Idle /\ ShapeOK(new)
        /\ new.kind \in {"schedinterrupt", "group", "each"} /\ new.at = "write" /\ new.out = <<>>
        /\ {new.c} \cup Range(new.todo) = Range(to) /\ new.winners = rest
    BY <1>6, <1>9, <2>1, ServeOK
  <2>3. QED
    BY <1>8, <2>2
<1>11. TargetsOf(d.winners) = Range(Targets(s)) \cup TargetsOf(new.winners)
  BY <1>6, <1>10 DEF TargetsOf
<1>12. /\ Touches(d) = {d.c} \cup TargetsOf(d.winners) /\ Pending(d) = TargetsOf(d.winners)
       /\ Touches(new) = TargetsOf(d.winners)
  BY <1>2, <1>4, <1>10, <1>11, RangeOfNone DEF Touches, Pending
<1>13. Pending(new) = TargetsOf(d.winners) /\ Carried(new) = {}
  BY <1>10, <1>12, WriterStarts DEF Pending, Touches
<1>14. handlers' = [handlers EXCEPT ![h] = new] /\ clash' = clash
  BY <1>1, <1>5, <1>8, <1>9 DEF Dispatch, Continue
<1>15. UNCHANGED <<store, connected, shown, memory, clock, begun, fired>>
  BY DEF Dispatch
<1>16. \A c \in Touches(d) \ clash : c \in connected /\ row[c].assigned # None /\ shown[c] # row[c].assigned
         => c \in Pending(new)
  BY <1>1, <1>12, <1>13, WrongIsMine DEF SignInv
<1>17. QED
  BY <1>1, <1>2, <1>10, <1>12, <1>13, <1>14, <1>15, <1>16, OnlyHandlerKeeps

\* Once the row is written the handler has the same clients before it, and this one is
\* among those it carries its list to; or it ends, the client not being there.
LEMMA WrittenOK ==
  ASSUME NEW h \in Slots, NEW d \in Handling, d = handlers[h], ShapeOK(d), d # Idle, d.at = "write", Written(h)
  PROVE  \E new :
           /\ handlers' = [handlers EXCEPT ![h] = new] /\ clash' = clash
           /\ HandlerOK(new) /\ ShapeOK(new)
           /\ \/ new = Idle /\ d.c \notin connected /\ Touches(d) = {d.c}
              \/ /\ new # Idle /\ new.list = d.list
                 /\ new.kind = "ranked" => new.at # "write"
                 /\ Touches(new) = Touches(d) /\ Pending(new) = Touches(d)
                 /\ Carried(new) \subseteq Carried(d) \cup {d.c}
<1>1. Touches(d) = {d.c} \cup Range(d.todo) \cup Range(d.out) \cup TargetsOf(d.winners)
      /\ Carried(d) = Range(d.out)
  BY DEF Touches, Carried
<1>2. PICK all : all = Append(d.out, d.c)
  OBVIOUS
<1>3. all \in Seq(Clients) /\ all # <<>> /\ Range(all) = Range(d.out) \cup {d.c}
  BY <1>2, RangeParts DEF Handling
<1>4. CASE d.kind = "group" /\ d.todo # <<>>
  <2>1. PICK new : new = [d EXCEPT !.c = Head(d.todo), !.todo = Tail(d.todo), !.out = all]
    OBVIOUS
  <2>2. handlers' = [handlers EXCEPT ![h] = new] /\ clash' = clash
    BY <1>2, <1>4, <2>1 DEF Written, Continue
  <2>3. Head(d.todo) \in Clients /\ Tail(d.todo) \in Seq(Clients)
        /\ Range(d.todo) = {Head(d.todo)} \cup Range(Tail(d.todo))
    BY <1>4, RangeParts DEF Handling
  <2>4. new # Idle /\ HandlerOK(new)
    BY <1>3, <2>1, <2>3 DEF HandlerOK, Handling, Idle
  <2>5. /\ new.c = Head(d.todo) /\ new.todo = Tail(d.todo) /\ new.out = all /\ new.list = d.list
        /\ new.kind = "group" /\ new.at = "write" /\ new.winners = d.winners
    BY <1>4, <2>1 DEF Handling
  <2>6. ShapeOK(new)
    BY <2>5 DEF ShapeOK
  <2>7. Touches(new) = Touches(d) /\ Pending(new) = Touches(d) /\ Carried(new) = Range(d.out) \cup {d.c}
    BY <1>1, <1>3, <2>3, <2>4, <2>5 DEF Touches, Pending, Carried
  <2>8. QED
    BY <1>1, <2>2, <2>4, <2>5, <2>6, <2>7
<1>5. CASE d.kind = "group" /\ d.todo = <<>>
  <2>1. PICK new : new = [d EXCEPT !.c = Head(all), !.todo = Tail(all), !.out = <<>>, !.at = "send"]
    OBVIOUS
  <2>2. handlers' = [handlers EXCEPT ![h] = new] /\ clash' = clash
    BY <1>2, <1>5, <2>1 DEF Written, Continue
  <2>3. Head(all) \in Clients /\ Tail(all) \in Seq(Clients)
        /\ Range(all) = {Head(all)} \cup Range(Tail(all))
    BY <1>3, RangeParts
  <2>4. new # Idle /\ HandlerOK(new)
    BY <2>1, <2>3, NoneIsSeq DEF HandlerOK, Handling, Idle
  <2>5. /\ new.c = Head(all) /\ new.todo = Tail(all) /\ new.out = <<>> /\ new.list = d.list
        /\ new.kind = "group" /\ new.at = "send" /\ new.winners = d.winners
    BY <1>5, <2>1 DEF Handling
  <2>6. ShapeOK(new)
    BY <2>5 DEF ShapeOK
  <2>7. Touches(new) = Touches(d) /\ Pending(new) = Touches(d) /\ Carried(new) = Range(d.out) \cup {d.c}
    BY <1>1, <1>3, <1>5, <2>3, <2>4, <2>5, RangeOfNone DEF Touches, Pending, Carried
  <2>8. QED
    BY <1>1, <2>2, <2>4, <2>5, <2>6, <2>7
<1>6. CASE d.kind = "ranked" /\ d.c \notin connected
  <2>1. handlers' = [handlers EXCEPT ![h] = Idle] /\ clash' = clash
    BY <1>6 DEF Written, Continue, Ends
  <2>2. d.todo = <<>> /\ d.out = <<>> /\ d.winners = <<>>
    BY <1>6 DEF ShapeOK
  <2>3. QED
    BY <1>1, <1>6, <2>1, <2>2, IdleOK, RangeOfNone
<1>7. CASE d.kind # "group" /\ ~(d.kind = "ranked" /\ d.c \notin connected)
  <2>1. PICK at \in {"reread", "send"} :
          at = IF d.kind \in {"put", "ranked"} THEN "reread" ELSE "send"
    OBVIOUS
  <2>2. PICK new : new = [d EXCEPT !.at = at]
    OBVIOUS
  <2>3. handlers' = [handlers EXCEPT ![h] = new] /\ clash' = clash
    <3>1. CASE d.kind \in {"put", "ranked"}
      BY <1>7, <2>1, <2>2, <3>1 DEF Written, Continue
    <3>2. CASE d.kind \notin {"put", "ranked"}
      BY <1>7, <2>1, <2>2, <3>2 DEF Written, Continue
    <3>3. QED
      BY <3>1, <3>2
  <2>4. new # Idle /\ HandlerOK(new)
    BY <2>1, <2>2 DEF HandlerOK, Handling, Idle
  <2>5. /\ new.c = d.c /\ new.todo = d.todo /\ new.out = d.out /\ new.list = d.list
        /\ new.kind = d.kind /\ new.at = at /\ new.winners = d.winners
    BY <2>2 DEF Handling
  <2>6. d.out = <<>>
    BY <1>7 DEF ShapeOK
  <2>7. ShapeOK(new)
    BY <2>1, <2>5, <2>6 DEF ShapeOK
  <2>8. Touches(new) = Touches(d) /\ Pending(new) = Touches(d) /\ Carried(new) = {d.c}
    BY <1>1, <1>7, <2>1, <2>4, <2>5, <2>6, RangeOfNone DEF Touches, Pending, Carried
  <2>9. QED
    BY <2>1, <2>3, <2>4, <2>5, <2>7, <2>8
<1>8. QED
  BY <1>4, <1>5, <1>6, <1>7

LEMMA WriteRowKeeps ==
  ASSUME SignInv, NEW h \in Slots, WriteRow(h)
  PROVE  SignInv'
<1>1. PICK d : d = handlers[h]
  OBVIOUS
<1>2. /\ d # Idle /\ d.at = "write" /\ d.list \in exists \cup {None}
      /\ row' = [row EXCEPT ![d.c].assigned = d.list] /\ Written(h)
      /\ UNCHANGED <<ranked, exists, connected, shown, memory, clock, begun, fired>>
  BY <1>1 DEF WriteRow, Busy, MayWrite, UpdateClient
<1>3. d \in Handling /\ ShapeOK(d) /\ HandlerOK(d) /\ d.c \in Clients
  BY <1>1, <1>2, HandlerFacts DEF Handling
<1>4. PICK new :
        /\ handlers' = [handlers EXCEPT ![h] = new] /\ clash' = clash
        /\ HandlerOK(new) /\ ShapeOK(new)
        /\ \/ new = Idle /\ d.c \notin connected /\ Touches(d) = {d.c}
           \/ /\ new # Idle /\ new.list = d.list
              /\ new.kind = "ranked" => new.at # "write"
              /\ Touches(new) = Touches(d) /\ Pending(new) = Touches(d)
              /\ Carried(new) \subseteq Carried(d) \cup {d.c}
  BY <1>1, <1>2, <1>3, WrittenOK
<1>5. row \in [Clients -> [assigned : exists \cup {None}, from : exists \cup {None}]]
      /\ shown \in [Clients -> Lists]
  BY DEF SignInv, TypeOK
<1>6. /\ row' \in [Clients -> [assigned : exists \cup {None}, from : exists \cup {None}]]
      /\ row'[d.c].assigned = d.list /\ \A c \in Clients : c # d.c => row'[c] = row[c]
  BY <1>2, <1>3, <1>5
<1>7. \A c \in Carried(d) \ clash : row[c].assigned \in {d.list, None}
  BY <1>1 DEF SignInv, HandlersInv, RowIsCarried
<1>8. Carried(d) \subseteq Clients
  BY <1>3, CarriedAreClients
<1>9. UNCHANGED <<ranked, exists, connected, shown, lastTriggered, eventLastFired, timers, clock, begun, fired>>
  BY <1>2 DEF memory
<1>10. CASE new = Idle /\ d.c \notin connected /\ Touches(d) = {d.c}
  BY <1>1, <1>2, <1>4, <1>5, <1>6, <1>9, <1>10, IdleOK, PartsOfTouched, HandlerStepKeeps, ZenonT(60)
<1>11. CASE /\ new # Idle /\ new.list = d.list /\ (new.kind = "ranked" => new.at # "write")
            /\ Touches(new) = Touches(d) /\ Pending(new) = Touches(d)
            /\ Carried(new) \subseteq Carried(d) \cup {d.c}
  <2>1. \A c \in Touches(d) \ clash : c \in Carried(new) => row'[c].assigned \in {new.list, None}
    BY <1>6, <1>7, <1>8, <1>11
  <2>2. QED
    BY <1>1, <1>2, <1>4, <1>5, <1>6, <1>9, <1>11, <2>1, HandlerStepKeeps, ZenonT(60)
<1>12. QED
  BY <1>4, <1>10, <1>11

\* A handler that may have sent to its client, or that gave it up, goes on to the next one.
LEMMA WriteRefusedKeeps ==
  ASSUME SignInv, NEW h \in Slots, WriteRefused(h)
  PROVE  SignInv'
<1>1. PICK d : d = handlers[h]
  OBVIOUS
<1>2. d # Idle /\ d.at = "write" /\ UNCHANGED <<store, connected, shown, memory, clock, begun, fired>>
  BY <1>1 DEF WriteRefused, Busy
<1>3. d \in Handling /\ ShapeOK(d) /\ HandlerOK(d) /\ d.c \in Touches(d)
  BY <1>1, <1>2, HandlerFacts
<1>4. CASE d.kind = "schedinterrupt"
  <2>1. PICK new : new = NextClient(d)
    OBVIOUS
  <2>2. handlers' = [handlers EXCEPT ![h] = new] /\ clash' = clash \cup {d.c}
    BY <1>1, <1>4, <2>1 DEF WriteRefused
  <2>3. /\ HandlerOK(new) /\ ShapeOK(new)
        /\ Touches(new) \subseteq Touches(d) /\ Touches(d) \ {d.c} \subseteq Pending(new)
        /\ Carried(new) \subseteq Carried(d) /\ (new # Idle => new.list = d.list /\ new.kind # "ranked")
    BY <1>2, <1>3, <1>4, <2>1, NextClientOK
  <2>4. Carried(Idle) = {}
    BY PartsOfTouched
  <2>5. \A c \in Touches(d) \ clash' : c \in Carried(new) => row[c].assigned \in {new.list, None}
    BY <1>1, <2>2, <2>3, <2>4 DEF SignInv, HandlersInv, RowIsCarried
  <2>6. QED
    BY <1>1, <1>2, <1>3, <2>2, <2>3, <2>5, OnlyHandlerKeeps
<1>5. CASE d.kind # "schedinterrupt"
  <2>1. handlers' = [handlers EXCEPT ![h] = Idle] /\ clash' = clash \cup Touches(d)
    BY <1>1, <1>5 DEF WriteRefused, Fails
  <2>2. QED
    BY <1>1, <1>2, <2>1, IdleOK, PartsOfTouched, OnlyHandlerKeeps
<1>6. QED
  BY <1>4, <1>5

\* What a handler carries to a client whose row names a list is that list, and the list is there.
LEMMA DeliveredIsAssigned ==
  ASSUME SignInv, NEW h \in Slots, NEW d \in Handling, d = handlers[h], d # Idle, d.at = "send",
         Deliver(d.c, d.list)
  PROVE  /\ shown' \in [Clients -> Lists] /\ \A c \in Clients : c # d.c => shown'[c] = shown[c]
         /\ d.c \notin clash /\ d.c \in connected /\ row[d.c].assigned # None
              => shown'[d.c] = row[d.c].assigned
<1>1. /\ shown \in [Clients -> Lists] /\ d.c \in Clients /\ d.list \in Lists
      /\ row[d.c].assigned \in exists \cup {None}
  BY DEF SignInv, TypeOK, Handling
<1>2. /\ shown' \in [Clients -> Lists] /\ \A c \in Clients : c # d.c => shown'[c] = shown[c]
      /\ d.c \in connected /\ d.list \in exists => shown'[d.c] = d.list
  <2>1. CASE d.c \in connected /\ d.list \in exists
    BY <1>1, <2>1 DEF Deliver
  <2>2. CASE ~(d.c \in connected /\ d.list \in exists)
    BY <1>1, <2>2 DEF Deliver
  <2>3. QED
    BY <2>1, <2>2
<1>3. d.c \in Carried(d)
  BY DEF Carried
<1>4. d.c \notin clash => row[d.c].assigned \in {d.list, None}
  BY <1>3 DEF SignInv, HandlersInv, RowIsCarried
<1>5. QED
  BY <1>1, <1>2, <1>4

LEMMA SendListKeeps ==
  ASSUME SignInv, NEW h \in Slots, SendList(h)
  PROVE  SignInv'
<1>1. PICK d : d = handlers[h]
  OBVIOUS
<1>2. PICK new : new = NextClient(d)
  OBVIOUS
<1>3. /\ d # Idle /\ d.at = "send" /\ Deliver(d.c, d.list)
      /\ handlers' = [handlers EXCEPT ![h] = new] /\ clash' = clash
      /\ timers' \subseteq timers \cup {d.c}
      /\ UNCHANGED <<row, ranked, exists, connected, lastTriggered, eventLastFired, clock, begun, fired>>
  BY <1>1, <1>2 DEF SendList, Busy, Continue, scheduleAutoResume, store
<1>4. d \in Handling /\ ShapeOK(d) /\ HandlerOK(d) /\ d.c \in Touches(d)
  BY <1>1, <1>3, HandlerFacts
<1>5. /\ shown' \in [Clients -> Lists] /\ \A c \in Clients : c # d.c => shown'[c] = shown[c]
      /\ d.c \notin clash /\ d.c \in connected /\ row[d.c].assigned # None
           => shown'[d.c] = row[d.c].assigned
  BY <1>1, <1>3, <1>4, DeliveredIsAssigned
<1>6. /\ HandlerOK(new) /\ ShapeOK(new)
      /\ Touches(new) \subseteq Touches(d) /\ Touches(d) \ {d.c} \subseteq Pending(new)
      /\ Carried(new) \subseteq Carried(d) /\ (new # Idle => new.list = d.list /\ new.kind # "ranked")
  BY <1>2, <1>3, <1>4, NextClientOK
<1>7. Carried(Idle) = {}
  BY PartsOfTouched
<1>8. \A c \in Touches(d) \ clash : c \in Carried(new) => row[c].assigned \in {new.list, None}
  BY <1>1, <1>6, <1>7 DEF SignInv, HandlersInv, RowIsCarried
<1>9. row \in [Clients -> [assigned : exists \cup {None}, from : exists \cup {None}]]
  BY DEF SignInv, TypeOK
<1>10. QED
  BY <1>1, <1>3, <1>4, <1>5, <1>6, <1>8, <1>9, HandlerStepKeeps

LEMMA SendInterruptKeeps ==
  ASSUME SignInv, NEW h \in Slots, sendPlaylistInterrupt(h)
  PROVE  SignInv'
<1>1. PICK d : d = handlers[h]
  OBVIOUS
<1>2. /\ d # Idle /\ d.at = "send" /\ d.kind = "interrupt" /\ Deliver(d.c, d.list)
      /\ handlers' = [handlers EXCEPT ![h] = Idle] /\ clash' = clash
      /\ UNCHANGED <<row, ranked, exists, connected, lastTriggered, eventLastFired, timers, clock, begun, fired>>
  BY <1>1 DEF sendPlaylistInterrupt, Busy, Continue, Ends, store, memory
<1>3. d \in Handling /\ ShapeOK(d) /\ HandlerOK(d)
  BY <1>1, <1>2, HandlerFacts
<1>4. /\ shown' \in [Clients -> Lists] /\ \A c \in Clients : c # d.c => shown'[c] = shown[c]
      /\ d.c \notin clash /\ d.c \in connected /\ row[d.c].assigned # None
           => shown'[d.c] = row[d.c].assigned
  BY <1>1, <1>2, <1>3, DeliveredIsAssigned
<1>5. Touches(d) = {d.c}
  BY <1>2, <1>3, RangeOfNone DEF ShapeOK, Touches, Handling
<1>6. row \in [Clients -> [assigned : exists \cup {None}, from : exists \cup {None}]]
  BY DEF SignInv, TypeOK
<1>7. QED
  BY <1>1, <1>2, <1>4, <1>5, <1>6, IdleOK, PartsOfTouched, HandlerStepKeeps

-----------------------------------------------------------------------------
(***************************************************************************)
(* Ticks, timers, deletions and restarts.                                  *)
(***************************************************************************)
LEMMA DisconnectKeeps ==
  ASSUME SignInv, NEW c \in Clients, Disconnect(c)
  PROVE  SignInv'
<1>1. /\ connected' = connected \ {c} /\ Request
      /\ UNCHANGED <<row, ranked, exists, shown, handlers, lastTriggered, eventLastFired, timers, clock, clash, fired>>
  BY DEF Disconnect, store, memory
<1>2. NoOverlap' /\ RowIsCarried' /\ WrongIsPending'
  BY <1>1 DEF SignInv, HandlersInv, NoOverlap, RowIsCarried, WrongIsPending
<1>3. TopIsTop'
  BY <1>1 DEF SignInv, HandlersInv, TopIsTop, Busy, Tops, MayWrite
<1>4. HandlersInv'
  BY <1>1, <1>2, <1>3 DEF SignInv, HandlersInv
<1>5. FiredIsPast' /\ OneWinnerPerTarget'
  BY <1>1, PastKeeps DEF SignInv, clock
<1>6. begun' \in 0..MaxBegun
  BY <1>1, SignageAssumption DEF Request, SignInv, TypeOK
<1>7. TypeOK'
  BY <1>1, <1>6 DEF SignInv, TypeOK, clock
<1>8. QED
  BY <1>4, <1>5, <1>7 DEF SignInv

\* What leaves rows, screens and handlers alone leaves what ties them.
LEMMA QuietKeeps ==
  ASSUME HandlersInv, UNCHANGED <<store, connected, shown, handlers, clash>>
  PROVE  HandlersInv'
<1>1. UNCHANGED <<row, ranked, exists, connected, shown, handlers, clash>>
  BY DEF store
<1>2. NoOverlap' /\ RowIsCarried' /\ WrongIsPending'
  BY <1>1 DEF HandlersInv, NoOverlap, RowIsCarried, WrongIsPending
<1>3. TopIsTop'
  BY <1>1 DEF HandlersInv, TopIsTop, Busy, Tops, MayWrite
<1>4. QED
  BY <1>1, <1>2, <1>3 DEF HandlersInv

LEMMA MemoryKeeps ==
  ASSUME SignInv, UNCHANGED <<store, connected, shown, handlers, lastTriggered, clock, clash, fired>>,
         eventLastFired' \subseteq Ids, timers' \subseteq Clients, Request \/ begun' = begun
  PROVE  SignInv'
<1>1. HandlersInv'
  BY QuietKeeps DEF SignInv
<1>2. FiredIsPast' /\ OneWinnerPerTarget'
  BY PastKeeps DEF SignInv, store, clock
<1>3. begun' \in 0..MaxBegun
  BY SignageAssumption DEF Request, SignInv, TypeOK
<1>4. TypeOK'
  BY <1>3 DEF SignInv, TypeOK, store, clock
<1>5. QED
  BY <1>1, <1>2, <1>4 DEF SignInv

LEMMA WindowPassesKeeps ==
  ASSUME SignInv, WindowPasses
  PROVE  SignInv'
<1>1. timers \subseteq Clients
  BY DEF SignInv, TypeOK
<1>2. QED
  BY <1>1, MemoryKeeps DEF WindowPasses

LEMMA AutoResumeKeeps ==
  ASSUME SignInv, NEW c \in Clients, AutoResume(c)
  PROVE  SignInv'
<1>1. timers \subseteq Clients /\ eventLastFired \subseteq Ids
  BY DEF SignInv, TypeOK
<1>2. QED
  BY <1>1, MemoryKeeps DEF AutoResume

\* Time only goes forward, so in the new minute nothing has been fired yet.
LEMMA PassKeeps ==
  ASSUME SignInv, Pass
  PROVE  SignInv'
<1>1. /\ UNCHANGED <<store, connected, shown, handlers, memory, clash, fired>> /\ Request
      /\ \/ minute + 1 \in Minutes /\ minute' = minute + 1 /\ day' = day
         \/ day < MaxDay /\ day' = day + 1 /\ minute' = CHOOSE m \in Minutes : \A n \in Minutes : m <= n
  BY DEF Pass
<1>2. HandlersInv'
  BY <1>1, QuietKeeps DEF SignInv
<1>3. \E m \in Minutes : \A n \in Minutes : m <= n
  BY SignageAssumption, SmallestOne
<1>4. minute \in Nat /\ day \in Nat /\ minute' \in Minutes /\ day' \in 0..MaxDay
      /\ (day' = day + 1 \/ (day' = day /\ minute' = minute + 1))
  BY <1>1, <1>3, SignageAssumption DEF SignInv, TypeOK
<1>5. \A f \in fired : f[2] \in Nat /\ f[3] \in Nat
  BY SignageAssumption DEF SignInv, TypeOK
<1>6. \A f \in fired : f[2] < day' \/ (f[2] = day' /\ f[3] < minute')
  BY <1>4, <1>5 DEF SignInv, FiredIsPast
<1>7. FiredIsPast'
  <2>1. fired' = fired
    BY <1>1
  <2>2. minute' \in Nat /\ day' \in Nat
    BY <1>4, SignageAssumption
  <2>3. \A f \in fired : f[2] < day' \/ (f[2] = day' /\ f[3] <= minute')
    BY <1>5, <1>6, <2>2
  <2>4. \A f \in fired : ~(f[2] = day' /\ f[3] = minute')
    BY <1>5, <1>6, <2>2
  <2>5. QED
    BY <2>1, <2>3, <2>4 DEF FiredIsPast
<1>8. OneWinnerPerTarget'
  BY <1>1 DEF SignInv, OneWinnerPerTarget
<1>9. begun' \in 0..MaxBegun
  BY <1>1, SignageAssumption DEF Request, SignInv, TypeOK
<1>10. TypeOK'
  BY <1>1, <1>4, <1>9 DEF SignInv, TypeOK, store, memory
<1>11. QED
  BY <1>2, <1>7, <1>8, <1>10 DEF SignInv

\* evaluateSchedules: nothing had been fired in this minute, or nothing would be due.
LEMMA EvaluateFires ==
  ASSUME SignInv, Evaluate
  PROVE  \E winners \in Seq(Ids) :
           /\ winners # <<>> /\ Range(winners) \subseteq Ids
           /\ Begin(Handler("each", "dispatch", Head(Targets(Head(winners))), None, <<>>, winners))
           /\ fired' = fired \cup {<<s, day, minute>> : s \in Range(winners)}
           /\ \A s, t \in Range(winners) : Sched[s].target = Sched[t].target => s = t
           /\ \A s \in Ids : Starts(s) => lastTriggered'[s] = minute
           /\ lastTriggered' \in [Ids -> Minutes \cup {None}]
           /\ \A f \in fired : ~(f[2] = day /\ f[3] = minute)
<1>1. PICK due : due = Triggering
  OBVIOUS
<1>2. due \in SUBSET Ids /\ due # {}
  BY <1>1 DEF Evaluate, Triggering
<1>3. PICK winners : winners = Winners(due)
  OBVIOUS
<1>4. /\ winners \in Seq(Ids) /\ winners # <<>> /\ Range(winners) \subseteq due
      /\ \A s, t \in Range(winners) : Sched[s].target = Sched[t].target => s = t
  BY <1>2, <1>3, WinnersOK
<1>5. /\ Begin(Handler("each", "dispatch", Head(Targets(Head(winners))), None, <<>>, winners))
      /\ fired' = fired \cup {<<s, day, minute>> : s \in Range(winners)}
      /\ lastTriggered' = [s \in Ids |-> IF s \in due THEN minute ELSE lastTriggered[s]]
  BY <1>1, <1>3 DEF Evaluate
<1>6. \A s \in Ids : Starts(s) => lastTriggered'[s] = minute
  BY <1>1, <1>5 DEF Triggering
<1>7. lastTriggered' \in [Ids -> Minutes \cup {None}]
  BY <1>5 DEF SignInv, TypeOK
<1>8. \A f \in fired : ~(f[2] = day /\ f[3] = minute)
  BY <1>1, <1>2 DEF SignInv, FiredIsPast, Triggering
<1>9. QED
  BY <1>2, <1>4, <1>5, <1>6, <1>7, <1>8

LEMMA EvaluateKeeps ==
  ASSUME SignInv, Evaluate
  PROVE  SignInv'
<1>1. PICK winners \in Seq(Ids) :
        /\ winners # <<>> /\ Range(winners) \subseteq Ids
        /\ Begin(Handler("each", "dispatch", Head(Targets(Head(winners))), None, <<>>, winners))
        /\ fired' = fired \cup {<<s, day, minute>> : s \in Range(winners)}
        /\ \A s, t \in Range(winners) : Sched[s].target = Sched[t].target => s = t
        /\ \A s \in Ids : Starts(s) => lastTriggered'[s] = minute
        /\ lastTriggered' \in [Ids -> Minutes \cup {None}]
        /\ \A f \in fired : ~(f[2] = day /\ f[3] = minute)
  BY EvaluateFires
<1>2. /\ UNCHANGED <<row, ranked, exists, connected, shown, eventLastFired, timers, day, minute>>
      /\ Request
  BY DEF Evaluate, store, clock
<1>3. PICK s : s = Head(winners)
  OBVIOUS
<1>4. s \in Ids /\ s \in Range(winners)
  BY <1>1, <1>3, RangeParts
<1>5. Targets(s) \in Seq(Clients) /\ Targets(s) # <<>>
  BY <1>4, TargetsOK
<1>6. PICK c : c = Head(Targets(s))
  OBVIOUS
<1>7. c \in Clients /\ c \in Range(Targets(s))
  BY <1>5, <1>6, RangeParts
<1>8. c \in TargetsOf(winners)
  BY <1>4, <1>7 DEF TargetsOf
<1>9. PICK d : d = Handler("each", "dispatch", c, None, <<>>, winners)
  OBVIOUS
<1>10. /\ HandlerOK(d) /\ d # Idle /\ d.kind = "each" /\ d.at = "dispatch" /\ d.c = c
       /\ d.todo = <<>> /\ d.out = <<>> /\ d.winners = winners
  BY <1>7, <1>9, NoneIsSeq DEF Handler, HandlerOK, Handling, Idle, Lists
<1>11. ShapeOK(d)
  BY <1>1, <1>10 DEF ShapeOK
<1>12. Touches(d) = TargetsOf(winners) /\ Pending(d) = TargetsOf(winners) /\ Carried(d) = {}
  BY <1>8, <1>10, RangeOfNone DEF Touches, Pending, Carried
<1>13. Begin(d)
  BY <1>1, <1>3, <1>6, <1>9
<1>14. HandlersInv'
  BY <1>2, <1>10, <1>11, <1>12, <1>13, BeginKeeps DEF SignInv
<1>15. \A f \in fired' :
         \/ f \in fired /\ ~(f[2] = day /\ f[3] = minute)
         \/ \E t \in Range(winners) : f = <<t, day, minute>>
  BY <1>1
<1>16. minute \in Nat /\ day \in Nat
  BY SignageAssumption DEF SignInv, TypeOK
<1>17. FiredIsPast'
  <2>1. \A t \in Ids : Starts(t)' => lastTriggered'[t] = minute
    BY <1>1, <1>2 DEF Starts
  <2>2. \A f \in fired' : f[2] < day \/ (f[2] = day /\ f[3] <= minute)
    BY <1>15, <1>16 DEF SignInv, FiredIsPast
  <2>3. QED
    BY <1>2, <2>1, <2>2 DEF FiredIsPast
<1>18. OneWinnerPerTarget'
  <2>1. SUFFICES ASSUME NEW f \in fired', NEW g \in fired',
                        f[2] = g[2], f[3] = g[3], Sched[f[1]].target = Sched[g[1]].target
                 PROVE  f = g
    BY DEF OneWinnerPerTarget
  <2>2. CASE f \in fired /\ g \in fired
    BY <2>1, <2>2 DEF SignInv, OneWinnerPerTarget
  <2>3. CASE \E t \in Range(winners) : f = <<t, day, minute>>
    <3>1. PICK t \in Range(winners) : f = <<t, day, minute>>
      BY <2>3
    <3>2. g[2] = day /\ g[3] = minute
      BY <2>1, <3>1
    <3>3. PICK u \in Range(winners) : g = <<u, day, minute>>
      BY <1>15, <3>2
    <3>4. Sched[t].target = Sched[u].target
      BY <2>1, <3>1, <3>3
    <3>5. QED
      BY <1>1, <3>1, <3>3, <3>4
  <2>4. CASE \E t \in Range(winners) : g = <<t, day, minute>>
    <3>1. PICK t \in Range(winners) : g = <<t, day, minute>>
      BY <2>4
    <3>2. f[2] = day /\ f[3] = minute
      BY <2>1, <3>1
    <3>3. PICK u \in Range(winners) : f = <<u, day, minute>>
      BY <1>15, <3>2
    <3>4. Sched[t].target = Sched[u].target
      BY <2>1, <3>1, <3>3
    <3>5. QED
      BY <1>1, <3>1, <3>3, <3>4
  <2>5. QED
    BY <1>15, <2>2, <2>3, <2>4
<1>19. clash' \subseteq Clients
  BY <1>10, <1>13, TouchedAreClients, BeginTakesSlot DEF SignInv, TypeOK
<1>20. fired' \subseteq Ids \X (0..MaxDay) \X Minutes
  BY <1>1 DEF SignInv, TypeOK
<1>21. begun' \in 0..MaxBegun /\ handlers' \in [Slots -> {Idle} \cup Handling]
  BY <1>2, <1>14, SignageAssumption DEF Request, SignInv, TypeOK, HandlersInv
<1>22. TypeOK'
  BY <1>1, <1>2, <1>19, <1>20, <1>21 DEF SignInv, TypeOK
<1>23. QED
  BY <1>14, <1>17, <1>18, <1>22 DEF SignInv

LEMMA DeletePlaylistKeeps ==
  ASSUME SignInv, NEW list \in Playlists, DeletePlaylist(list)
  PROVE  SignInv'
<1>1. /\ exists' = exists \ {list} /\ list # None /\ Request
      /\ row' = [c \in Clients |->
                   [assigned |-> IF row[c].assigned = list THEN None ELSE row[c].assigned,
                    from |-> IF row[c].from = list THEN None ELSE row[c].from]]
      /\ ranked' = [c \in Clients |-> {r \in ranked[c] : r.list # list}]
      /\ UNCHANGED <<connected, shown, handlers, memory, clock, clash, fired>>
  BY SignageAssumption DEF DeletePlaylist
<1>2. /\ row \in [Clients -> [assigned : exists \cup {None}, from : exists \cup {None}]]
      /\ ranked \in [Clients -> SUBSET [list : exists, rank : Ranks]]
  BY DEF SignInv, TypeOK
<1>3. \A c \in Clients : row'[c].assigned = (IF row[c].assigned = list THEN None ELSE row[c].assigned)
  BY <1>1
<1>4. /\ row' \in [Clients -> [assigned : exists' \cup {None}, from : exists' \cup {None}]]
      /\ ranked' \in [Clients -> SUBSET [list : exists', rank : Ranks]]
  <2>1. \A c \in Clients : /\ row[c].assigned \in exists \cup {None}
                           /\ row[c].from \in exists \cup {None}
    BY <1>2
  <2>2. row' \in [Clients -> [assigned : exists' \cup {None}, from : exists' \cup {None}]]
    BY <1>1, <2>1
  <2>3. \A c \in Clients : \A r \in ranked[c] : r \in [list : exists, rank : Ranks]
    BY <1>2
  <2>4. \A c \in Clients : \A r \in ranked'[c] : r \in [list : exists', rank : Ranks]
    BY <1>1, <2>3
  <2>5. QED
    BY <1>1, <2>2, <2>4
<1>5. NoOverlap'
  BY <1>1 DEF SignInv, HandlersInv, NoOverlap
<1>6. RowIsCarried'
  <2>1. ASSUME NEW h \in Slots, NEW c \in Carried(handlers[h]), c \notin clash
        PROVE  row'[c].assigned \in {handlers[h].list, None}
    <3>1. row[c].assigned \in {handlers[h].list, None}
      BY <2>1 DEF SignInv, HandlersInv, RowIsCarried
    <3>2. c \in Clients
      BY <2>1, CarriedAreClients DEF SignInv, TypeOK, HandlerOK
    <3>3. QED
      BY <1>3, <3>1, <3>2
  <2>2. QED
    BY <1>1, <2>1 DEF RowIsCarried
<1>7. WrongIsPending'
  <2>1. connected \subseteq Clients
    BY DEF SignInv, TypeOK
  <2>2. \A c \in connected : row'[c].assigned # None => row'[c].assigned = row[c].assigned
    BY <1>3, <2>1
  <2>3. QED
    BY <1>1, <2>2 DEF SignInv, HandlersInv, WrongIsPending
<1>8. TopIsTop'
  <2>1. ASSUME NEW h \in Slots, NEW d, d = handlers[h], d # Idle, d.kind = "ranked",
               d.at = "write", d.c \notin clash
        PROVE  (d.list \in Tops(d.c))' \/ ~MayWrite(d.list)'
    <3>1. d.c \in Clients
      BY <2>1 DEF SignInv, TypeOK, Handling
    <3>2. d.list \in Tops(d.c) \/ ~MayWrite(d.list)
      BY <2>1 DEF SignInv, HandlersInv, TopIsTop, Busy
    <3>3. ranked'[d.c] = {r \in ranked[d.c] : r.list # list}
      BY <1>1, <3>1
    <3>4. CASE ~MayWrite(d.list) \/ d.list = list
      BY <1>1, <3>4 DEF MayWrite
    <3>5. CASE d.list \in Tops(d.c) /\ d.list # list /\ ranked[d.c] = {}
      BY <3>3, <3>5 DEF Tops
    <3>6. CASE d.list \in Tops(d.c) /\ d.list # list /\ ranked[d.c] # {}
      <4>1. PICK r \in ranked[d.c] : r.list = d.list /\ \A y \in ranked[d.c] : y.rank <= r.rank
        BY <3>6 DEF Tops
      <4>2. r \in ranked'[d.c] /\ \A y \in ranked'[d.c] : y.rank <= r.rank
        BY <3>3, <3>6, <4>1
      <4>3. (d.list \in Tops(d.c))'
        BY <4>1, <4>2 DEF Tops
      <4>4. QED
        BY <4>3
    <3>7. QED
      BY <3>2, <3>4, <3>5, <3>6
  <2>2. QED
    BY <1>1, <2>1 DEF TopIsTop, Busy
<1>9. HandlersInv'
  BY <1>1, <1>5, <1>6, <1>7, <1>8 DEF SignInv, HandlersInv
<1>10. FiredIsPast' /\ OneWinnerPerTarget'
  BY <1>1, PastKeeps DEF SignInv, clock, memory
<1>11. begun' \in 0..MaxBegun
  BY <1>1, SignageAssumption DEF Request, SignInv, TypeOK
<1>12. TypeOK'
  BY <1>1, <1>4, <1>11 DEF SignInv, TypeOK, memory, clock
<1>13. QED
  BY <1>9, <1>10, <1>12 DEF SignInv

\* Nobody connected and nobody at work: nothing can differ or overlap.
LEMMA NobodyAtWork ==
  ASSUME connected \subseteq Clients, handlers = [h \in Slots |-> Idle],
         \A c \in connected : row[c].assigned = None
  PROVE  HandlersInv
<1>1. \A h \in Slots : handlers[h] = Idle /\ ShapeOK(handlers[h])
  BY DEF ShapeOK
<1>2. NoOverlap /\ RowIsCarried /\ TopIsTop
  BY <1>1, PartsOfTouched DEF NoOverlap, RowIsCarried, TopIsTop, Busy
<1>3. WrongIsPending
  BY DEF WrongIsPending
<1>4. QED
  BY <1>1, <1>2, <1>3 DEF HandlersInv

LEMMA RestartKeeps ==
  ASSUME SignInv, Restart
  PROVE  SignInv'
<1>1. /\ connected' = {} /\ handlers' = [h \in Slots |-> Idle] /\ fired' = {} /\ timers' = {}
      /\ eventLastFired' = {} /\ lastTriggered' = [s \in Ids |-> None]
      /\ UNCHANGED <<row, ranked, exists, shown, day, minute, clash>> /\ Request
  BY DEF Restart, store, clock
<1>2. HandlersInv'
  <2>1. \A h \in Slots : handlers'[h] = Idle /\ ShapeOK(handlers'[h])
    BY <1>1 DEF ShapeOK
  <2>2. NoOverlap' /\ RowIsCarried' /\ TopIsTop'
    BY <2>1, PartsOfTouched DEF NoOverlap, RowIsCarried, TopIsTop, Busy
  <2>3. WrongIsPending'
    BY <1>1 DEF WrongIsPending
  <2>4. QED
    BY <1>1, <2>1, <2>2, <2>3 DEF HandlersInv
<1>3. FiredIsPast' /\ OneWinnerPerTarget'
  BY <1>1 DEF FiredIsPast, OneWinnerPerTarget
<1>4. begun' \in 0..MaxBegun
  BY <1>1, SignageAssumption DEF Request, SignInv, TypeOK
<1>5. TypeOK'
  BY <1>1, <1>4 DEF SignInv, TypeOK
<1>6. QED
  BY <1>2, <1>3, <1>5 DEF SignInv

LEMMA SignStarts == Init => SignInv
<1> SUFFICES ASSUME Init PROVE SignInv
  OBVIOUS
<1>1. HandlersInv
  BY NobodyAtWork DEF Init
<1>2. FiredIsPast /\ OneWinnerPerTarget
  BY DEF Init, FiredIsPast, OneWinnerPerTarget
<1>3. \E m \in Minutes : \A n \in Minutes : m <= n
  BY SignageAssumption, SmallestOne
<1>4. minute \in Minutes
  BY <1>3 DEF Init
<1>5. TypeOK
  BY <1>4, SignageAssumption DEF Init, TypeOK, Lists
<1>6. QED
  BY <1>1, <1>2, <1>5 DEF SignInv

LEMMA SignSteps == SignInv /\ [Next]_vars => SignInv'
<1> SUFFICES ASSUME SignInv, [Next]_vars PROVE SignInv'
  OBVIOUS
<1>1. CASE UNCHANGED vars
  <2>1. UNCHANGED <<store, connected, shown, handlers, lastTriggered, eventLastFired, timers, clock, begun, clash, fired>>
    BY <1>1 DEF vars, memory
  <2>2. timers \subseteq Clients /\ eventLastFired \subseteq Ids
    BY DEF SignInv, TypeOK
  <2>3. QED
    BY <2>1, <2>2, MemoryKeeps
<1>2. ASSUME NEW h \in Slots, Step(h)
      PROVE  SignInv'
  BY <1>2, ReadTopKeeps, ConnectKeeps, WriteRowKeeps, WriteRefusedKeeps, RereadKeeps, SendListKeeps,
     SendInterruptKeeps, DispatchKeeps DEF Step
<1>3. ASSUME NEW c \in Clients, \E list \in Lists : Put(c, list)
      PROVE  SignInv'
  BY <1>3, PutKeeps
<1>4. ASSUME NEW c \in Clients, \E list \in Playlists : Interrupt(c, list)
      PROVE  SignInv'
  BY <1>4, InterruptKeeps
<1>5. ASSUME NEW c \in Clients, NEW list \in Playlists, NEW rank \in Ranks,
             addPlaylistAssignment(c, list, rank) \/ updatePlaylistPriority(c, list, rank)
      PROVE  SignInv'
  BY <1>5, AssignmentsKeep
<1>6. ASSUME NEW c \in Clients, NEW list \in Playlists, removePlaylistAssignment(c, list)
      PROVE  SignInv'
  BY <1>6, RemovalKeeps
<1>7. ASSUME NEW c \in Clients, Register(c) \/ Disconnect(c) \/ Event(c) \/ AutoResume(c)
      PROVE  SignInv'
  BY <1>7, RegisterKeeps, DisconnectKeeps, EventKeeps, AutoResumeKeeps
<1>8. ASSUME NEW list \in Playlists, AssignGroup(list) \/ DeletePlaylist(list)
      PROVE  SignInv'
  BY <1>8, AssignGroupKeeps, DeletePlaylistKeeps
<1>9. CASE Evaluate \/ WindowPasses \/ Pass \/ Restart
  BY <1>9, EvaluateKeeps, WindowPassesKeeps, PassKeeps, RestartKeeps
<1>10. QED
  BY <1>1, <1>2, <1>3, <1>4, <1>5, <1>6, <1>7, <1>8, <1>9 DEF Next

-----------------------------------------------------------------------------
(***************************************************************************)
(* What the runs check.                                                    *)
(***************************************************************************)
LEMMA SignInvariant == Spec => []SignInv
<1>1. Init => SignInv
  BY SignStarts
<1>2. SignInv /\ [Next]_vars => SignInv'
  BY SignSteps
<1>3. QED
  BY <1>1, <1>2, PTL DEF Spec

\* A screen nobody is at work on is not before anybody.
LEMMA ShowsWhatIsAssigned == SignInv => TypeOK /\ ShownIsAssigned
<1> SUFFICES ASSUME SignInv PROVE ShownIsAssigned
  BY DEF SignInv
<1>1. SUFFICES ASSUME NEW c \in connected \ clash, row[c].assigned # None, ~Handled(c),
                      shown[c] # row[c].assigned
               PROVE  FALSE
  BY DEF ShownIsAssigned
<1>2. PICK h \in Slots : c \in Pending(handlers[h])
  BY <1>1 DEF SignInv, HandlersInv, WrongIsPending
<1>3. c \in Touches(handlers[h])
  BY <1>2, PartsOfTouched
<1>4. QED
  BY <1>1, <1>3 DEF Handled

\* A handler's step is no other handler's.
LEMMA OthersRest ==
  ASSUME SignInv, NEW g \in Slots, Step(g), NEW h \in Slots, h # g
  PROVE  handlers'[h] = handlers[h]
<1>1. \E new : handlers' = [handlers EXCEPT ![g] = new]
  BY DEF Step, ReadTop, Connect, WriteRow, Written, WriteRefused, Fails, Reread, SendList,
     sendPlaylistInterrupt, Dispatch, Continue, Ends
<1>2. QED
  BY <1>1 DEF SignInv, TypeOK

\* What a row is given by resolveActivePlaylist is the best there is.
LEMMA WritesTheTop ==
  ASSUME SignInv, Next, NEW h \in Slots, NEW d, d = handlers[h], d # Idle, d.kind = "ranked",
         d.at = "write", d.c \notin clash', handlers'[h] # d, begun' = begun
  PROVE  row'[d.c].assigned \in Tops(d.c)
<1>1. ~Request
  BY DEF Request, SignInv, TypeOK
<1>2. \A c \in Clients : AutoResume(c) => FALSE
  BY DEF AutoResume
<1>3. PICK g \in Slots : Step(g)
  BY <1>1, <1>2 DEF Next, Put, Interrupt, addPlaylistAssignment, updatePlaylistPriority,
     removePlaylistAssignment, Reranks, Register, Disconnect, Event, AssignGroup, DeletePlaylist,
     Evaluate, WindowPasses, Pass, Restart
<1>4. g = h
  BY <1>3, OthersRest
<1>5. WriteRow(h) \/ WriteRefused(h)
  BY <1>3, <1>4 DEF Step, ReadTop, Connect, Reread, SendList, sendPlaylistInterrupt, Dispatch
<1>6. d.c \in Touches(d)
  BY PartsOfTouched
<1>7. CASE WriteRow(h)
  <2>1. /\ MayWrite(d.list) /\ row' = [row EXCEPT ![d.c].assigned = d.list] /\ Written(h)
    BY <1>7 DEF WriteRow, UpdateClient
  <2>2. d \in Handling /\ ShapeOK(d) /\ d.c \in Clients
    BY HandlerFacts DEF Handling
  <2>3. clash' = clash
    BY <2>1, <2>2, WrittenOK
  <2>4. d.list \in Tops(d.c)
    BY <2>1, <2>3 DEF SignInv, HandlersInv, TopIsTop, Busy
  <2>5. row \in [Clients -> [assigned : exists \cup {None}, from : exists \cup {None}]]
    BY DEF SignInv, TypeOK
  <2>6. row'[d.c].assigned = d.list
    BY <2>1, <2>2, <2>5
  <2>7. QED
    BY <2>4, <2>6
<1>8. CASE WriteRefused(h)
  BY <1>6, <1>8 DEF WriteRefused, Fails
<1>9. QED
  BY <1>5, <1>7, <1>8

\* Every variable keeps its shape; a connected screen whose row names a list shows it once
\* nobody is at work on the screen; the row that resolveActivePlaylist writes is the best
\* assignment: unless handlers overlapped on the client (ClientService, dispatchSchedule,
\* handleRegister, sendPlaylistToClient).
THEOREM ScreensAgree == Spec => ScreensFollow
<1>1. SignInv /\ [Next]_vars =>
        [\A h \in Slots :
           LET d == handlers[h]
           IN  Busy(h) /\ d.kind = "ranked" /\ d.at = "write" /\ d.c \notin clash'
               /\ handlers'[h] # d /\ begun' = begun
               => row'[d.c].assigned \in Tops(d.c)]_vars
  BY WritesTheTop DEF Busy
<1>2. QED
  BY <1>1, SignInvariant, ShowsWhatIsAssigned, PTL DEF Spec, ScreensFollow, ActiveIsTop

\* Only an evaluation begins a handler that has winners before it, and nothing has been
\* fired in its minute.
LEMMA FiresAtMostOnce ==
  ASSUME SignInv, Next, NEW h \in Slots, ~Busy(h), handlers'[h] # Idle,
         NEW s \in Range(handlers'[h].winners)
  PROVE  <<s, day, minute>> \notin fired
<1>1. handlers[h] = Idle
  BY DEF Busy
<1>2. handlers' # handlers
  BY <1>1
<1>3. \A g \in Slots : ~Step(g)
  <2>1. ASSUME NEW g \in Slots, Step(g)
        PROVE  FALSE
    <3>1. h # g
      BY <2>1, <1>1 DEF Step, Busy, ReadTop, Connect, WriteRow, WriteRefused, Reread, SendList,
         sendPlaylistInterrupt, Dispatch
    <3>2. QED
      BY <2>1, <3>1, <1>1, OthersRest
  <2>2. QED
    BY <2>1
<1>4. ASSUME NEW new, Begin(new)
      PROVE  handlers'[h] = new
  <2>1. PICK k \in Slots : handlers' = [handlers EXCEPT ![k] = new]
    BY <1>4, BeginTakesSlot DEF SignInv, TypeOK
  <2>2. QED
    BY <1>1, <2>1 DEF SignInv, TypeOK
<1>5. Range(<<>>) = {}
  BY RangeOfNone
<1>6. ASSUME NEW kind, NEW at, NEW c, NEW list, NEW todo, Begin(Handler(kind, at, c, list, todo, <<>>))
      PROVE  FALSE
  <2>1. handlers'[h] = Handler(kind, at, c, list, todo, <<>>)
    BY <1>4, <1>6
  <2>2. handlers'[h].winners = <<>>
    BY <2>1 DEF Handler
  <2>3. QED
    BY <1>5, <2>2
<1>7. Evaluate
  <2>1. \A c \in Clients :
          /\ \A list : ~Put(c, list) /\ ~Interrupt(c, list) /\ ~removePlaylistAssignment(c, list)
          /\ \A list, rank : ~addPlaylistAssignment(c, list, rank) /\ ~updatePlaylistPriority(c, list, rank)
          /\ ~Register(c) /\ ~Disconnect(c) /\ ~Event(c) /\ ~AutoResume(c)
    BY <1>2, <1>6 DEF Put, Interrupt, removePlaylistAssignment, addPlaylistAssignment,
       updatePlaylistPriority, Reranks, Register, Disconnect, Event, Serve, AutoResume
  <2>2. \A list : ~AssignGroup(list) /\ ~DeletePlaylist(list)
    BY <1>2, <1>6 DEF AssignGroup, DeletePlaylist
  <2>3. ~WindowPasses /\ ~Pass
    BY <1>2 DEF WindowPasses, Pass
  <2>4. ~Restart
    BY DEF Restart
  <2>5. QED
    BY <1>3, <2>1, <2>2, <2>3, <2>4 DEF Next
<1>8. \A f \in fired : ~(f[2] = day /\ f[3] = minute)
  BY <1>7, EvaluateFires
<1>9. QED
  BY <1>8

\* Of the schedules of one target that start in one minute evaluateSchedules dispatches one,
\* however often it runs in that minute.
THEOREM DispatchedOnce == Spec => FiresOnce
<1>1. SignInv /\ [Next]_vars => [OneWinnerPerTarget']_vars
  BY SignSteps DEF SignInv
<1>2. SignInv /\ [Next]_vars =>
        [\A h \in Slots : ~Busy(h) /\ handlers'[h] # Idle
           => \A s \in Range(handlers'[h].winners) : <<s, day, minute>> \notin fired]_vars
  BY FiresAtMostOnce
<1>3. QED
  BY <1>1, <1>2, SignInvariant, PTL DEF Spec, FiresOnce, FiresOncePerMinute
=============================================================================
