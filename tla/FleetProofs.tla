----------------------------- MODULE FleetProofs -----------------------------
(***************************************************************************)
(* What an operator is told, proved for every number of requests, rules    *)
(* and screens: an event that has come to its end has one true entry for   *)
(* each of its rules, and a fetch of a log that waits has its entry.  And  *)
(* what screens are told: whoever a change of a schedule or of a group     *)
(* concerns has been sent what applies to it when the request is answered. *)
(***************************************************************************)
EXTENDS Fleet, ConnectionRegistry, FiniteSetTheorems, FunctionTheorems, TLAPS

\* On SQL Server createNotificationHistory does not find the row it has made: it
\* enters what was sent as sent and then as failed, and ends the event.
NotOnSqlServer == \A s \in Studied : s[1] = "notifications" => s[2] # "mssql"

(***************************************************************************)
(* The invariant                                                           *)
(***************************************************************************)
\* requests that are about the notifications and the fetches of logs
Kinds == {"event", "unrule", "logs"}
Of(h, kinds) == Open(h) /\ req[h].op \in kinds

ARequest(r) == DOMAIN r = {"op", "at", "on", "arg", "list", "k", "was", "alone", "sound"}
PlaceOf ==
  [event |-> {"rules", "channel", "sent", "failed", "schedules"}, unrule |-> {"history", "row"},
   logs |-> {"channel"}]
RequestsOK ==
  /\ req = [h \in Handlers |-> req[h]] /\ \A h \in Handlers : ARequest(req[h])
  /\ begun \in Nat
  /\ \E s \in Studied : part = s[1] /\ backend = s[2]
  /\ \A h \in Handlers : Of(h, Kinds) => req[h].at \in PlaceOf[req[h].op]

\* fetches
FetchesOK ==
  /\ \A h \in Handlers : Of(h, {"logs"}) => req[h].on \in 1..begun
  /\ \A g, h \in Handlers : Of(g, {"logs"}) /\ Of(h, {"logs"}) /\ req[g].on = req[h].on => g = h

\* rows
RowsOK ==
  /\ nextEvent \in Nat \ {0} /\ nextRule \in Nat \ {0}
  /\ rules \subseteq 1..(nextRule - 1)
  /\ listed \subseteq (1..(nextEvent - 1)) \X (1..(nextRule - 1))
  /\ \A x \in outcome : x[1] \in 1..(nextEvent - 1)
  /\ \A e \in history : e.event \in 1..(nextEvent - 1)

Its(n) == {r \in 1..(nextRule - 1) : <<n, r>> \in listed}
ToldOf(n, r) == {e.status : e \in {x \in history : x.event = n /\ x.rule = r}}
DidOf(n, r) == {s \in {"sent", "failed"} : <<n, r, s>> \in outcome}

\* nothing was done yet for this rule, or all was
Untold(n, r) == ToldOf(n, r) = {} /\ DidOf(n, r) = {}
Settled(n, r) ==
  \/ ToldOf(n, r) = DidOf(n, r) /\ (ToldOf(n, r) # {} \/ ~(Its(n) \subseteq rules))
  \/ \E h \in Handlers : IsDeleting(h, r)

\* an event in the hands of its handler
Rest(h) == {req[h].list[i] : i \in DOMAIN req[h].list}
ListOK(h) ==
  LET list == req[h].list IN
  /\ list \in Seq(Its(req[h].on)) /\ list # <<>>
  /\ \A i, j \in DOMAIN list : i # j => list[i] # list[j]
InHand(h) ==
  LET n == req[h].on  list == req[h].list IN
  /\ n \in 1..(nextEvent - 1)
  /\ req[h].at = "rules" => \A r \in 1..(nextRule - 1) : <<n, r>> \notin listed
  /\ req[h].at = "rules" => \A r : Untold(n, r)
  /\ req[h].at \in {"channel", "sent", "failed"} => ListOK(h)
  /\ req[h].at = "channel" => Untold(n, list[1])
  /\ req[h].at \in {"sent", "failed"} => ToldOf(n, list[1]) = {}
  /\ req[h].at = "sent" => DidOf(n, list[1]) = {"sent"}
  /\ req[h].at = "failed" => DidOf(n, list[1]) = {"failed"} \/ list[1] \notin rules
  /\ req[h].at \in {"channel", "sent", "failed"} =>
       /\ \A i \in 2..Len(list) : Untold(n, list[i])
       /\ \A r \in (Its(n) \cap rules) \ Rest(h) : Settled(n, r)
  /\ req[h].at = "schedules" => \A r \in Its(n) \cap rules : Settled(n, r)
EventsOK ==
  /\ part # "notifications" => \A h \in Handlers : ~Of(h, {"event"})
  /\ \A h \in Handlers : Of(h, {"event"}) => InHand(h)
  /\ \A g, h \in Handlers : Of(g, {"event"}) /\ Of(h, {"event"}) /\ req[g].on = req[h].on => g = h

Finished(n) ==
  /\ \A r \in Its(n) \cap rules : Settled(n, r)
  /\ n \in passed \/ ~(Its(n) \subseteq rules)

IInv == RequestsOK /\ RowsOK /\ FetchesOK /\ EntriesMatch /\ EventsOK /\ EveryRuleTold

(***************************************************************************)
(* Steps of requests                                                       *)
(***************************************************************************)
\* what the steps of a request do to the others, and to itself
LEMMA GoOnOK ==
  ASSUME RequestsOK, NEW h \in Handlers, NEW r, ARequest(r), GoOn(h, r), part' = part,
         r.op \in Kinds /\ r.at \notin Answered => r.at \in PlaceOf[r.op]
  PROVE  /\ RequestsOK' /\ begun' = begun
         /\ \A g \in Handlers \ {h} : req'[g] = req[g]
         /\ r.at \notin Answered => req'[h] = r
         /\ r.at \in Answered => ~Open(h)'
<1> DEFINE new == IF r.at \in Answered THEN [NoRequest EXCEPT !.op = r.op, !.at = r.at] ELSE r
<1>1. /\ req' = [req EXCEPT ![h] = new] /\ UNCHANGED <<backend, begun>>
      /\ req = [g \in Handlers |-> req[g]]
  BY DEF GoOn, RequestsOK
<1> HIDE DEF new
<1>2. req'[h] = new
      /\ (\A g \in Handlers \ {h} : req'[g] = req[g]) /\ req' = [g \in Handlers |-> req'[g]]
  BY <1>1
<1>3. ARequest(new) /\ new.op = r.op /\ new.at = r.at
  BY DEF new, ARequest, NoRequest
<1>4. \A g \in Handlers : ARequest(req'[g])
  BY <1>2, <1>3 DEF RequestsOK
<1>5. \A g \in Handlers : Of(g, Kinds)' => req'[g].at \in PlaceOf[req'[g].op]
  BY <1>2, <1>3 DEF RequestsOK, Of, Open
<1>6. RequestsOK'
  BY <1>1, <1>2, <1>4, <1>5 DEF RequestsOK
<1> QED
  BY <1>1, <1>2, <1>3, <1>6 DEF new, Open

LEMMA BeginOK ==
  ASSUME RequestsOK, NEW h \in Handlers, NEW op, NEW at, NEW on, NEW arg, NEW sound,
         Begin(h, op, at, on, arg, sound), part' = part,
         op \in Kinds /\ at \notin Answered => at \in PlaceOf[op]
  PROVE  /\ RequestsOK' /\ begun' = begun + 1 /\ ~Open(h)
         /\ req'[h].op = op /\ req'[h].at = at /\ req'[h].on = on /\ req'[h].arg = arg
         /\ \A g \in Handlers \ {h} :
              /\ req'[g].op = req[g].op /\ req'[g].at = req[g].at /\ req'[g].on = req[g].on
              /\ req'[g].arg = req[g].arg /\ req'[g].list = req[g].list
<1> DEFINE only == Others(h) = {}
<1> DEFINE new == [NoRequest EXCEPT !.op = op, !.at = at, !.on = on, !.arg = arg,
                                    !.sound = sound, !.alone = only]
<1>1. /\ req' = [g \in Handlers |-> IF g = h THEN new
                                     ELSE IF g \in Others(h) THEN [req[g] EXCEPT !.alone = FALSE] ELSE req[g]]
      /\ begun' = begun + 1 /\ backend' = backend /\ ~Open(h)
  BY DEF Begin, MayBegin
<1> HIDE DEF only
<1>2. ARequest(new) /\ new.op = op /\ new.at = at /\ new.on = on /\ new.arg = arg
  BY DEF ARequest, NoRequest
<1> HIDE DEF new
<1>3. req' = [g \in Handlers |-> req'[g]] /\ req'[h] = new
  BY <1>1
<1>4. ASSUME NEW g \in Handlers \ {h}
      PROVE  /\ ARequest(req'[g])
             /\ req'[g].op = req[g].op /\ req'[g].at = req[g].at /\ req'[g].on = req[g].on
             /\ req'[g].arg = req[g].arg /\ req'[g].list = req[g].list
  <2>1. ARequest(req[g])
    BY DEF RequestsOK
  <2>2. req'[g] = [req[g] EXCEPT !.alone = FALSE] \/ req'[g] = req[g]
    BY <1>1
  <2> QED
    BY <2>1, <2>2 DEF ARequest
<1>5. \A g \in Handlers : Of(g, Kinds)' => req'[g].at \in PlaceOf[req'[g].op]
  BY <1>2, <1>3, <1>4 DEF RequestsOK, Of, Open
<1>6. RequestsOK'
  BY <1>1, <1>2, <1>3, <1>4, <1>5 DEF RequestsOK
<1> QED
  BY <1>1, <1>2, <1>3, <1>4, <1>6

(***************************************************************************)
(* Events                                                                  *)
(***************************************************************************)
\* nothing is done to an event but what is due
Quiet(n) ==
  /\ Its(n)' = Its(n)
  /\ \A r : <<n, r>> \in listed' => <<n, r>> \in listed
  /\ \A r \in Its(n) : r \in rules' => r \in rules
  /\ \A r : DidOf(n, r)' = DidOf(n, r) /\ (ToldOf(n, r) = {} => ToldOf(n, r)' = {})
  /\ \A r \in Its(n) : r \in rules' /\ Settled(n, r) => Settled(n, r)'
  /\ n \in passed => n \in passed'

Holds(g) ==
  /\ Of(g, {"event"})' <=> Of(g, {"event"})
  /\ Of(g, {"event"}) => req'[g].at = req[g].at /\ req'[g].on = req[g].on /\ req'[g].list = req[g].list

LEMMA InHandQuiet ==
  ASSUME RowsOK, NEW g \in Handlers, NEW n, n = req[g].on, InHand(g), Quiet(n),
         req'[g].at = req[g].at, req'[g].on = req[g].on, req'[g].list = req[g].list,
         nextEvent' \in {nextEvent, nextEvent + 1}
  PROVE  InHand(g)'
<1>1. n \in 1..(nextEvent' - 1)
  BY DEF InHand, RowsOK
<1>2. \A r : Untold(n, r) => Untold(n, r)'
  BY DEF Untold, Quiet
<1>3. \A r : <<n, r>> \in listed' => r \in Its(n)'
  BY DEF Quiet, Its, RowsOK
<1>4. ListOK(g) => ListOK(g)'
  BY DEF ListOK, Quiet
<1>5. Rest(g)' = Rest(g)
  BY DEF Rest
<1>6. \A r : Its(n)' = Its(n) /\ (r \in Its(n) /\ r \in rules' => r \in rules)
             /\ (r \in Its(n) /\ r \in rules' /\ Settled(n, r) => Settled(n, r)')
             /\ DidOf(n, r)' = DidOf(n, r) /\ (ToldOf(n, r) = {} => ToldOf(n, r)' = {})
             /\ (<<n, r>> \in listed' => <<n, r>> \in listed /\ r \in 1..(nextRule - 1))
  BY DEF Quiet, RowsOK
<1>7. req[g].at \in {"channel", "sent", "failed"} => req[g].list[1] \in Its(n)
  BY DEF InHand, ListOK
<1>8. ASSUME req[g].at = "rules"
      PROVE  InHand(g)'
  BY <1>1, <1>2, <1>6, <1>8 DEF InHand
<1>9. ASSUME req[g].at \in {"channel", "sent", "failed"}
      PROVE  InHand(g)'
  <2>1. /\ ListOK(g)'
        /\ \A i \in 2..Len(req[g].list) : Untold(n, req[g].list[i])'
        /\ \A r \in (Its(n)' \cap rules') \ Rest(g)' : Settled(n, r)'
    BY <1>2, <1>4, <1>5, <1>6, <1>9 DEF InHand
  <2>2. /\ req[g].at = "channel" => Untold(n, req[g].list[1])'
        /\ req[g].at \in {"sent", "failed"} => ToldOf(n, req[g].list[1])' = {}
        /\ req[g].at = "sent" => DidOf(n, req[g].list[1])' = {"sent"}
        /\ req[g].at = "failed" => DidOf(n, req[g].list[1])' = {"failed"} \/ req[g].list[1] \notin rules'
    BY <1>2, <1>6, <1>7, <1>9 DEF InHand
  <2> QED
    BY <1>1, <1>9, <2>1, <2>2 DEF InHand
<1>10. ASSUME req[g].at \notin {"rules", "channel", "sent", "failed"}
       PROVE  InHand(g)'
  BY <1>1, <1>6, <1>10 DEF InHand
<1> QED
  BY <1>8, <1>9, <1>10

LEMMA FinishedQuiet ==
  ASSUME NEW n, Finished(n), Quiet(n)
  PROVE  Finished(n)'
BY DEF Finished, Quiet

\* a step of one request that is about event n, or about none if n is 0
LEMMA EventsStep ==
  ASSUME IInv, RowsOK', NEW h \in Handlers, NEW n \in 0..nextEvent,
         part' = part, nextEvent' \in {nextEvent, nextEvent + 1},
         nextEvent' = nextEvent + 1 => n = nextEvent,
         \A g \in Handlers \ {h} : Holds(g),
         \A m \in 1..(nextEvent - 1) : m # n => Quiet(m),
         Of(h, {"event"}) => req[h].on = n,
         n # 0 => part = "notifications" /\ (Of(h, {"event"}) \/ n = nextEvent),
         Of(h, {"event"})' => part = "notifications" /\ n # 0 /\ req'[h].on = n /\ InHand(h)',
         n # 0 /\ n < nextEvent' /\ ~Of(h, {"event"})' => Finished(n)'
  PROVE  EventsOK' /\ EveryRuleTold'
<1>1. ASSUME NEW g \in Handlers \ {h}, Of(g, {"event"})'
      PROVE  Of(g, {"event"}) /\ req'[g].on = req[g].on /\ req[g].on \in 1..(nextEvent - 1)
      /\ req[g].on # n
  <2>1. Of(g, {"event"}) /\ req'[g].on = req[g].on
    BY <1>1 DEF Holds
  <2>2. InHand(g) /\ req[g].on \in 1..(nextEvent - 1)
    BY <2>1 DEF IInv, EventsOK, InHand
  <2>3. nextEvent \in Nat
    BY DEF IInv, RowsOK
  <2> QED
    BY <2>1, <2>2, <2>3 DEF IInv, EventsOK
<1>2. ASSUME NEW g \in Handlers, Of(g, {"event"})'
      PROVE  InHand(g)'
  <2>1. CASE g = h
    BY <1>2, <2>1
  <2>2. CASE g # h
    <3>1. PICK m : m = req[g].on
      OBVIOUS
    <3>2. Of(g, {"event"}) /\ m \in 1..(nextEvent - 1) /\ m # n
      BY <1>1, <1>2, <2>2, <3>1
    <3>3. InHand(g) /\ Quiet(m) /\ RowsOK
      BY <3>2 DEF IInv, EventsOK
    <3>4. req'[g].at = req[g].at /\ req'[g].on = req[g].on /\ req'[g].list = req[g].list
      BY <2>2, <3>2 DEF Holds
    <3> QED
      BY <3>1, <3>3, <3>4, InHandQuiet
  <2> QED
    BY <2>1, <2>2
<1>3. ASSUME NEW f \in Handlers, NEW g \in Handlers, Of(f, {"event"})', Of(g, {"event"})',
             req'[f].on = req'[g].on
      PROVE  f = g
  <2>1. CASE f = h \/ g = h
    BY <1>1, <1>3, <2>1
  <2>2. CASE f # h /\ g # h
    BY <1>1, <1>3, <2>2 DEF IInv, EventsOK
  <2> QED
    BY <2>1, <2>2
<1>4. part' # "notifications" => \A g \in Handlers : ~Of(g, {"event"})'
  BY <1>1 DEF IInv, EventsOK
<1>5. EventsOK'
  BY <1>2, <1>3, <1>4 DEF EventsOK
<1>6. ASSUME NEW m \in 1..(nextEvent' - 1), \A g \in Handlers : ~Concerns(g, m)'
      PROVE  Finished(m)'
  <2>1. nextEvent \in Nat /\ m \in Nat
    BY DEF IInv, RowsOK
  <2>2. CASE m = n
    <3>1. ~Of(h, {"event"})'
      BY <1>6, <2>2 DEF Of, Concerns
    <3> QED
      BY <2>1, <2>2, <3>1
  <2>3. CASE m # n
    <3>a. m \in 1..(nextEvent - 1)
      <4>1. CASE nextEvent' = nextEvent
        BY <4>1
      <4>2. CASE nextEvent' = nextEvent + 1
        <5>1. m # nextEvent /\ m \in 1..nextEvent
          BY <2>1, <2>3, <4>2
        <5> QED
          BY <2>1, <5>1
      <4> QED
        BY <4>1, <4>2
    <3>1. m \in 1..(nextEvent - 1) /\ Quiet(m)
      BY <2>3, <3>a
    <3>2. \A g \in Handlers : ~Concerns(g, m)
      <4>1. SUFFICES ASSUME NEW g \in Handlers, Concerns(g, m)
                     PROVE  FALSE
        OBVIOUS
      <4>2. Of(g, {"event"}) /\ req[g].on = m
        BY <4>1 DEF Concerns, Of
      <4>3. g # h
        BY <2>3, <4>2
      <4>4. Of(g, {"event"})' /\ req'[g].on = m
        BY <4>2, <4>3 DEF Holds
      <4> QED
        BY <1>6, <4>4 DEF Concerns, Of
    <3>3. Finished(m)
      BY <3>1, <3>2 DEF IInv, EveryRuleTold, Finished, Settled, Its, ToldOf, DidOf
    <3> QED
      BY <3>1, <3>3, FinishedQuiet
  <2> QED
    BY <2>2, <2>3
<1>7. EveryRuleTold'
  BY <1>6 DEF EveryRuleTold, Finished, Settled, Its, ToldOf, DidOf
<1> QED
  BY <1>5, <1>7

\* deletions go on while others work
Deletes(g) == Of(g, {"unrule"}) => Of(g, {"unrule"})' /\ req'[g].on = req[g].on

\* a step that leaves the rows about an event alone
LEMMA RowsQuiet ==
  ASSUME NEW n, Its(n)' = Its(n), \A r : <<n, r>> \in listed' => <<n, r>> \in listed,
         \A r : ToldOf(n, r)' = ToldOf(n, r) /\ DidOf(n, r)' = DidOf(n, r),
         \A r \in Its(n) : r \in rules' => r \in rules,
         n \in passed => n \in passed',
         \A r \in Its(n) : r \in rules' =>
           ((\E g \in Handlers : IsDeleting(g, r)) => \E g \in Handlers : IsDeleting(g, r)')
  PROVE  Quiet(n)
<1>1. ASSUME NEW r \in Its(n), r \in rules', Settled(n, r)
      PROVE  Settled(n, r)'
  BY <1>1 DEF Settled
<1> QED
  BY <1>1 DEF Quiet

\* rows of other events
LEMMA OtherRows ==
  ASSUME NEW n, NEW m, m # n, RowsOK,
         listed' = listed \/ \E S : listed' = listed \cup ({n} \X S),
         outcome' = outcome \/ \E r, s : outcome' = outcome \cup {<<n, r, s>>},
         history' = history \/ \E e : e.event = n /\ history' = history \cup {e},
         nextRule' = nextRule
  PROVE  /\ Its(m)' = Its(m) /\ (\A r : <<m, r>> \in listed' => <<m, r>> \in listed)
         /\ \A r : ToldOf(m, r)' = ToldOf(m, r) /\ DidOf(m, r)' = DidOf(m, r)
<1>1. \A r : <<m, r>> \in listed' <=> <<m, r>> \in listed
  OBVIOUS
<1>2. \A r, s : <<m, r, s>> \in outcome' <=> <<m, r, s>> \in outcome
  OBVIOUS
<1>3. \A r : {x \in history : x.event = m /\ x.rule = r}' = {x \in history : x.event = m /\ x.rule = r}
  OBVIOUS
<1>4. Its(m)' = Its(m)
  BY <1>1 DEF Its
<1>5. \A r : DidOf(m, r)' = DidOf(m, r)
  BY <1>2 DEF DidOf
<1>6. \A r : ToldOf(m, r)' = ToldOf(m, r)
  BY <1>3 DEF ToldOf
<1> QED
  BY <1>1, <1>4, <1>5, <1>6

LEMMA EventsBeside ==
  ASSUME IInv, UNCHANGED <<notificationVars, part>>, \A g \in Handlers : Holds(g) /\ Deletes(g)
  PROVE  RowsOK' /\ EventsOK' /\ EveryRuleTold'
<1>1. RowsOK'
  BY DEF notificationVars, RowsOK, IInv
<1>2. ASSUME NEW m \in 1..(nextEvent - 1)
      PROVE  Quiet(m)
  <2>1. Its(m)' = Its(m) /\ \A r : ToldOf(m, r)' = ToldOf(m, r) /\ DidOf(m, r)' = DidOf(m, r)
    BY DEF notificationVars, Its, ToldOf, DidOf
  <2>2. \A r : (\E g \in Handlers : IsDeleting(g, r)) => \E g \in Handlers : IsDeleting(g, r)'
    BY DEF Deletes, Of, IsDeleting
  <2> QED
    BY <2>1, <2>2, RowsQuiet DEF notificationVars
<1>3. ASSUME NEW g \in Handlers, Of(g, {"event"})'
      PROVE  InHand(g)' /\ Of(g, {"event"}) /\ req'[g].on = req[g].on
  <2>1. PICK m : m = req[g].on
    OBVIOUS
  <2>2. Of(g, {"event"}) /\ req'[g].at = req[g].at /\ req'[g].on = req[g].on
        /\ req'[g].list = req[g].list
    BY <1>3 DEF Holds
  <2>3. InHand(g) /\ m \in 1..(nextEvent - 1) /\ RowsOK
    BY <2>1, <2>2 DEF IInv, EventsOK, InHand
  <2>4. Quiet(m) /\ nextEvent' \in {nextEvent, nextEvent + 1}
    BY <1>2, <2>3 DEF notificationVars
  <2> QED
    BY <2>1, <2>2, <2>3, <2>4, InHandQuiet
<1>4. EventsOK'
  BY <1>3 DEF IInv, EventsOK
<1>5. ASSUME NEW m \in 1..(nextEvent' - 1), \A g \in Handlers : ~Concerns(g, m)'
      PROVE  Finished(m)'
  <2>1. m \in 1..(nextEvent - 1)
    BY DEF notificationVars
  <2>2. \A g \in Handlers : ~Concerns(g, m)
    BY <1>5 DEF Concerns, Of, Holds
  <2>3. Finished(m)
    BY <2>1, <2>2 DEF IInv, EveryRuleTold, Finished, Settled, Its, ToldOf, DidOf
  <2> QED
    BY <1>2, <2>1, <2>3, FinishedQuiet
<1>6. EveryRuleTold'
  BY <1>5 DEF EveryRuleTold, Finished, Settled, Its, ToldOf, DidOf
<1> QED
  BY <1>1, <1>4, <1>6

LEMMA FetchesKept ==
  ASSUME RequestsOK, FetchesOK, EntriesMatch, begun' \in {begun, begun + 1}, pending' = pending,
         \A g \in Handlers : /\ Of(g, {"logs"})' <=> Of(g, {"logs"})
                             /\ Of(g, {"logs"}) => req'[g].on = req[g].on /\ req'[g].arg = req[g].arg
  PROVE  FetchesOK' /\ EntriesMatch'
<1> DEFINE Waiting == {g \in Handlers : Open(g) /\ req[g].op = "logs"}
<1>1. Waiting' = Waiting /\ \A g \in Waiting : req'[g].on = req[g].on /\ req'[g].arg = req[g].arg
  BY DEF Of
<1> HIDE DEF Waiting
<1>2. EntriesMatch'
  <2>1. pending = {[id |-> req[g].on, clientId |-> req[g].arg[1]] : g \in Waiting}
    BY DEF EntriesMatch, Waiting
  <2>2. pending' = {[id |-> req'[g].on, clientId |-> req'[g].arg[1]] : g \in Waiting'}
    BY <1>1, <2>1
  <2> QED
    BY <2>2 DEF EntriesMatch, Waiting
<1>3. FetchesOK'
  BY DEF FetchesOK, RequestsOK
<1> QED
  BY <1>2, <1>3

(***************************************************************************)
(* Requests of other kinds                                                 *)
(***************************************************************************)
LEMMA OtherStep ==
  ASSUME IInv, NEW h \in Handlers, NEW r, GoOn(h, r), ARequest(r), r.op = req[h].op, r.op \notin Kinds,
         UNCHANGED <<notificationVars, pending, part>>
  PROVE  IInv'
<1>1. /\ RequestsOK' /\ begun' = begun
      /\ \A g \in Handlers \ {h} : req'[g] = req[g]
      /\ r.at \notin Answered => req'[h] = r
      /\ r.at \in Answered => ~Open(h)'
  BY GoOnOK DEF IInv
<1>2. ~Of(h, Kinds) /\ ~Of(h, Kinds)'
  BY <1>1 DEF Of, Open
<1>3. \A g \in Handlers \ {h} : \A S : Of(g, S)' <=> Of(g, S)
  BY <1>1 DEF Of, Open
<1>4. \A g \in Handlers : Holds(g) /\ Deletes(g)
  BY <1>1, <1>2, <1>3 DEF Of, Holds, Deletes, Kinds
<1>5. RowsOK' /\ EventsOK' /\ EveryRuleTold'
  BY <1>4, EventsBeside
<1>6. \A g \in Handlers : /\ Of(g, {"logs"})' <=> Of(g, {"logs"})
                          /\ Of(g, {"logs"}) => req'[g].on = req[g].on /\ req'[g].arg = req[g].arg
  BY <1>1, <1>2, <1>3 DEF Of, Kinds
<1>7. FetchesOK' /\ EntriesMatch'
  BY <1>1, <1>6, FetchesKept DEF IInv
<1> QED
  BY <1>1, <1>5, <1>7 DEF IInv

LEMMA OtherBegin ==
  ASSUME IInv, NEW h \in Handlers, NEW op, NEW at, NEW on, NEW arg, NEW sound,
         Begin(h, op, at, on, arg, sound), op \notin Kinds \/ at \in Answered,
         UNCHANGED <<notificationVars, pending, part>>
  PROVE  IInv'
<1>1. /\ RequestsOK' /\ begun' = begun + 1 /\ ~Open(h)
      /\ req'[h].op = op /\ req'[h].at = at /\ req'[h].on = on /\ req'[h].arg = arg
      /\ \A g \in Handlers \ {h} :
           /\ req'[g].op = req[g].op /\ req'[g].at = req[g].at /\ req'[g].on = req[g].on
           /\ req'[g].arg = req[g].arg /\ req'[g].list = req[g].list
  BY BeginOK DEF IInv
<1>2. ~Of(h, Kinds) /\ ~Of(h, Kinds)'
  BY <1>1 DEF Of, Open
<1>3. \A g \in Handlers \ {h} : \A S : Of(g, S)' <=> Of(g, S)
  BY <1>1 DEF Of, Open
<1>4. \A g \in Handlers : Holds(g) /\ Deletes(g)
  BY <1>1, <1>2, <1>3 DEF Of, Holds, Deletes, Kinds
<1>5. RowsOK' /\ EventsOK' /\ EveryRuleTold'
  BY <1>4, EventsBeside
<1>6. \A g \in Handlers : /\ Of(g, {"logs"})' <=> Of(g, {"logs"})
                          /\ Of(g, {"logs"}) => req'[g].on = req[g].on /\ req'[g].arg = req[g].arg
  BY <1>1, <1>2, <1>3 DEF Of, Kinds
<1>7. FetchesOK' /\ EntriesMatch'
  BY <1>1, <1>6, FetchesKept DEF IInv
<1> QED
  BY <1>1, <1>5, <1>7 DEF IInv

LEMMA NoStep ==
  ASSUME IInv, UNCHANGED <<requestVars, notificationVars, pending, part>>
  PROVE  IInv'
<1>1. RequestsOK'
  BY DEF IInv, RequestsOK, requestVars, Of, Open
<1>2. \A g \in Handlers : Holds(g) /\ Deletes(g)
  BY DEF requestVars, Holds, Deletes, Of, Open
<1>3. RowsOK' /\ EventsOK' /\ EveryRuleTold'
  BY <1>2, EventsBeside
<1>4. \A g \in Handlers : /\ Of(g, {"logs"})' <=> Of(g, {"logs"})
                          /\ req'[g].on = req[g].on /\ req'[g].arg = req[g].arg
  BY DEF requestVars, Of, Open
<1>5. FetchesOK' /\ EntriesMatch'
  BY <1>4, FetchesKept DEF IInv, requestVars
<1> QED
  BY <1>1, <1>3, <1>5 DEF IInv

LEMMA DefinitionSteps ==
  ASSUME IInv, NEW h \in Handlers, StepDefinitions(h), UNCHANGED <<notificationVars, pending, part>>
  PROVE  IInv'
<1>1. ARequest(req[h]) /\ (req[h].op \in Kinds => req[h].at \notin {"push", "clients"})
  BY DEF IInv, RequestsOK, Of, Open, Answered, Kinds, PlaceOf
<1>2. ASSUME NEW at, GoTo(h, at), req[h].op \notin Kinds
      PROVE  IInv'
  <2>1. GoOn(h, [req[h] EXCEPT !.at = at])
    BY <1>2 DEF GoTo
  <2>2. ARequest([req[h] EXCEPT !.at = at]) /\ [req[h] EXCEPT !.at = at].op = req[h].op
    BY <1>1 DEF ARequest
  <2> QED
    BY <1>2, <2>1, <2>2, OtherStep
<1>3. ASSUME NEW at, NEW list, GoOn(h, [req[h] EXCEPT !.list = list, !.at = at]), req[h].op \notin Kinds
      PROVE  IInv'
  <2>1. LET r == [req[h] EXCEPT !.list = list, !.at = at] IN ARequest(r) /\ r.op = req[h].op
    BY <1>1 DEF ARequest
  <2> QED
    BY <1>3, <2>1, OtherStep
<1>4. CASE Pushed(h)
  <2>1. req[h].op \notin Kinds
    BY <1>1, <1>4 DEF Pushed, At
  <2>2. PICK at : GoOn(h, [req[h] EXCEPT !.at = at])
    BY <1>4 DEF Pushed
  <2> QED
    BY <1>2, <2>1, <2>2 DEF GoTo
<1>5. CASE PushToAffected(h)
  <2>1. req[h].op \notin Kinds
    BY <1>1, <1>5 DEF PushToAffected, At
  <2>2. GoOn(h, [req[h] EXCEPT !.list = Tail(@), !.at = "push"])
    BY <1>5 DEF PushToAffected
  <2> QED
    BY <1>3, <2>1, <2>2
<1>6. CASE CheckTargets(h)
  BY <1>2, <1>6 DEF CheckTargets, Creates, At, Kinds
<1>7. CASE InsertSchedule(h)
  <2>1. req[h].op \notin Kinds
    BY <1>7 DEF InsertSchedule, Creates, At, Kinds
  <2>2. \/ GoTo(h, "error")
        \/ \E list, at : GoOn(h, [req[h] EXCEPT !.list = list, !.at = at])
    BY <1>7 DEF InsertSchedule
  <2> QED
    BY <1>2, <1>3, <2>1, <2>2
<1>8. CASE Previous(h)
  <2>1. req[h].op \notin Kinds
    BY <1>8 DEF Previous, At, Kinds
  <2>2. \/ GoTo(h, "error")
        \/ \E list, at : GoOn(h, [req[h] EXCEPT !.list = list, !.at = at])
    BY <1>8 DEF Previous
  <2> QED
    BY <1>2, <1>3, <2>1, <2>2
<1>9. CASE WriteSchedule(h)
  <2>1. req[h].op \notin Kinds
    BY <1>9 DEF WriteSchedule, At, Kinds
  <2>2. GoTo(h, "error") \/ GoTo(h, "reread")
    BY <1>9 DEF WriteSchedule
  <2> QED
    BY <1>2, <2>1, <2>2
<1>10. CASE Reread(h)
  <2>1. req[h].op \notin Kinds
    BY <1>10 DEF Reread, At, Kinds
  <2>2. \/ GoTo(h, "error")
        \/ \E s : GoOn(h, [req[h] EXCEPT !.list = Append(@, s), !.at = "clients"])
    BY <1>10 DEF Reread
  <2> QED
    BY <1>2, <1>3, <2>1, <2>2
<1>11. CASE DeleteScheduleRow(h) \/ mongoDeleteMembers(h) \/ DeletePlaylistRow(h)
  BY <1>2, <1>11 DEF DeleteScheduleRow, mongoDeleteMembers, DeletePlaylistRow, At, Kinds
<1>12. CASE CheckMember(h)
  BY <1>2, <1>12 DEF CheckMember, At, Kinds
<1>13. CASE addClientToGroup(h)
  <2>1. req[h].op \notin Kinds
    BY <1>13 DEF addClientToGroup, At, Kinds
  <2>2. GoTo(h, "error") \/ GoTo(h, "push")
    BY <1>13 DEF addClientToGroup
  <2> QED
    BY <1>2, <2>1, <2>2
<1>14. CASE removeClientFromGroup(h)
  BY <1>2, <1>14 DEF removeClientFromGroup, At, Kinds
<1>15. CASE getTemplateById(h)
  BY <1>2, <1>15 DEF getTemplateById, At, Kinds
<1>16. CASE createScheduleTemplate(h) \/ deleteScheduleTemplate(h)
  BY <1>2, <1>16 DEF createScheduleTemplate, deleteScheduleTemplate, At, Kinds
<1>17. CASE DeleteGroupRow(h)
  <2>1. req[h].op \notin Kinds
    BY <1>17 DEF DeleteGroupRow, At, Kinds
  <2>2. GoTo(h, "error") \/ GoTo(h, "ok")
    BY <1>17 DEF DeleteGroupRow
  <2> QED
    BY <1>2, <2>1, <2>2
<1> QED
  BY <1>4, <1>5, <1>6, <1>7, <1>8, <1>9, <1>10, <1>11, <1>12, <1>13, <1>14, <1>15, <1>16, <1>17 DEF
     StepDefinitions

LEMMA DefinitionBegins ==
  ASSUME IInv, NEW h \in Handlers, BeginDefinitions(h), UNCHANGED <<notificationVars, pending, part>>
  PROVE  IInv'
<1>1. \E op \in {"create", "instantiate", "discard", "template", "change", "cancel", "join",
                "leave", "disband", "drop", "register"} :
        \E at, on, arg, sound : Begin(h, op, at, on, arg, sound)
  <2>1. CASE createTemplate(h) \/ \E t \in {"builtin", "own"} : deleteTemplate(h, t)
    BY <2>1 DEF createTemplate, deleteTemplate, Templating
  <2>2. CASE \E pl \in Playlist : instantiate(h, "own", pl, Everyone)
    BY <2>2 DEF instantiate, Templating
  <2>3. CASE \E pl \in Playlist, to \in Targets : createSchedule(h, pl, to)
    BY <2>3 DEF createSchedule
  <2>4. CASE \E s \in schedules : deleteSchedule(h, s) \/ \E to \in Targets : updateSchedule(h, s, to, 1)
    BY <2>4 DEF deleteSchedule, updateSchedule, Change
  <2>5. CASE \E g \in Group : \/ deleteGroup(h, g)
                           \/ \E c \in Screen : addMember(h, g, c) \/ removeMember(h, g, c)
    BY <2>5 DEF deleteGroup, addMember, removeMember
  <2>6. CASE \E pl \in Playlist : deletePlaylist(h, pl)
    BY <2>6 DEF deletePlaylist
  <2>7. CASE \E c \in Screen : handleRegister(h, c)
    BY <2>7 DEF handleRegister
  <2> QED
    BY <2>1, <2>2, <2>3, <2>4, <2>5, <2>6, <2>7 DEF BeginDefinitions
<1> QED
  BY <1>1, OtherBegin DEF Kinds

(***************************************************************************)
(* Fetches                                                                 *)
(***************************************************************************)
LEMMA FetchBegins ==
  ASSUME IInv, NEW h \in Handlers, BeginFetch(h), UNCHANGED <<notificationVars, part>>
  PROVE  IInv'
<1>1. ASSUME NEW c \in Players, fetchLogs(h, c)
      PROVE  IInv'
  <2>1. /\ Begin(h, "logs", "channel", begun + 1, <<c>>, TRUE)
        /\ pending' = pending \cup {[id |-> begun + 1, clientId |-> c]}
    BY <1>1 DEF fetchLogs
  <2>2. /\ RequestsOK' /\ begun' = begun + 1 /\ ~Open(h)
        /\ req'[h].op = "logs" /\ req'[h].at = "channel" /\ req'[h].on = begun + 1
        /\ req'[h].arg = <<c>>
        /\ \A g \in Handlers \ {h} :
             /\ req'[g].op = req[g].op /\ req'[g].at = req[g].at /\ req'[g].on = req[g].on
             /\ req'[g].arg = req[g].arg /\ req'[g].list = req[g].list
    <3>1. "channel" \in PlaceOf["logs"] /\ part' = part /\ RequestsOK
      BY DEF PlaceOf, IInv
    <3>2. PICK id, arg : id = begun + 1 /\ arg = <<c>>
      OBVIOUS
    <3>3. Begin(h, "logs", "channel", id, arg, TRUE)
      BY <2>1, <3>2
    <3>4. /\ RequestsOK' /\ begun' = begun + 1 /\ ~Open(h)
          /\ req'[h].op = "logs" /\ req'[h].at = "channel" /\ req'[h].on = id /\ req'[h].arg = arg
          /\ \A g \in Handlers \ {h} :
               /\ req'[g].op = req[g].op /\ req'[g].at = req[g].at /\ req'[g].on = req[g].on
               /\ req'[g].arg = req[g].arg /\ req'[g].list = req[g].list
      BY <3>1, <3>3, BeginOK
    <3> QED
      BY <3>2, <3>4
  <2>3. \A g \in Handlers \ {h} : \A S : Of(g, S)' <=> Of(g, S)
    BY <2>2 DEF Of, Open
  <2>4. /\ Of(h, {"logs"})' /\ ~Of(h, {"event"})' /\ ~Of(h, {"unrule"})'
        /\ \A S : ~Of(h, S)
    BY <2>2 DEF Of, Open, Answered
  <2>5. \A g \in Handlers : Holds(g) /\ Deletes(g)
    BY <2>2, <2>3, <2>4 DEF Holds, Deletes
  <2>6. RowsOK' /\ EventsOK' /\ EveryRuleTold'
    BY <1>1, <2>5, EventsBeside
  <2>7. FetchesOK'
    BY <2>2, <2>3, <2>4 DEF FetchesOK, IInv, RequestsOK
  <2> DEFINE Waiting == {g \in Handlers : Of(g, {"logs"})}
  <2>8. Waiting' = Waiting \cup {h} /\ h \notin Waiting
    BY <2>3, <2>4
  <2>9. \A g \in Waiting : req'[g].on = req[g].on /\ req'[g].arg = req[g].arg
    BY <2>2, <2>8
  <2>10. pending = {[id |-> req[g].on, clientId |-> req[g].arg[1]] : g \in Waiting}
    BY DEF EntriesMatch, IInv, Of
  <2>11. req'[h].arg[1] = c /\ req'[h].on = begun + 1
    BY <2>2
  <2> HIDE DEF Waiting
  <2>12. pending' = {[id |-> req'[g].on, clientId |-> req'[g].arg[1]] : g \in Waiting'}
    BY <2>1, <2>8, <2>9, <2>10, <2>11
  <2>13. EntriesMatch'
    BY <2>12 DEF Waiting, EntriesMatch, Of
  <2> QED
    BY <2>2, <2>6, <2>7, <2>13 DEF IInv
<1>2. ASSUME NEW c \in Players, Unreached(h, c)
      PROVE  IInv'
  BY <1>2, OtherBegin DEF Unreached, Answered, fetchVars
<1> QED
  BY <1>1, <1>2 DEF BeginFetch

\* a fetch is answered, and its entry goes
LEMMA FetchEnds ==
  ASSUME IInv, NEW h \in Handlers, NEW at \in Answered, GoTo(h, at), Of(h, {"logs"}),
         pending' = {p \in pending : p.id # req[h].on}, UNCHANGED <<notificationVars, part>>
  PROVE  IInv'
<1> DEFINE r == [req[h] EXCEPT !.at = at]
<1>1. GoOn(h, r) /\ ARequest(r) /\ r.op = "logs" /\ r.at = at
  BY DEF GoTo, IInv, RequestsOK, ARequest, Of
<1>2. /\ RequestsOK' /\ begun' = begun
      /\ \A g \in Handlers \ {h} : req'[g] = req[g]
      /\ ~Open(h)'
  BY <1>1, GoOnOK DEF IInv
<1>3. \A g \in Handlers \ {h} : \A S : Of(g, S)' <=> Of(g, S)
  BY <1>2 DEF Of, Open
<1>4. ~Of(h, {"event"}) /\ ~Of(h, {"unrule"}) /\ \A S : ~Of(h, S)'
  BY <1>2 DEF Of, Open
<1>5. \A g \in Handlers : Holds(g) /\ Deletes(g)
  BY <1>2, <1>3, <1>4 DEF Holds, Deletes
<1>6. RowsOK' /\ EventsOK' /\ EveryRuleTold'
  BY <1>5, EventsBeside
<1>7. FetchesOK'
  BY <1>2, <1>3, <1>4 DEF FetchesOK, IInv
<1> DEFINE Waiting == {g \in Handlers : Of(g, {"logs"})}
<1>8. Waiting' = Waiting \ {h} /\ h \in Waiting
  BY <1>3, <1>4
<1>9. \A g \in Waiting \ {h} : req'[g].on = req[g].on /\ req'[g].arg = req[g].arg /\ req[g].on # req[h].on
  BY <1>2, <1>8 DEF IInv, FetchesOK
<1>10. pending = {[id |-> req[g].on, clientId |-> req[g].arg[1]] : g \in Waiting}
  BY DEF EntriesMatch, IInv, Of
<1> HIDE DEF Waiting
<1>11. pending' = {[id |-> req'[g].on, clientId |-> req'[g].arg[1]] : g \in Waiting'}
  BY <1>8, <1>9, <1>10
<1>12. EntriesMatch'
  BY <1>11 DEF Waiting, EntriesMatch, Of
<1> QED
  BY <1>2, <1>6, <1>7, <1>12 DEF IInv

LEMMA FetchSteps ==
  ASSUME IInv, NEW h \in Handlers, StepFetch(h), UNCHANGED <<notificationVars, part>>
  PROVE  IInv'
<1>1. Of(h, {"logs"})
  BY DEF StepFetch, FetchTimeout, At, Of, Open, Answered
<1> QED
  BY <1>1, FetchEnds DEF StepFetch, FetchTimeout, Answered

LEMMA ScreenSteps ==
  ASSUME IInv, AtTheScreens, UNCHANGED <<notificationVars, part>>
  PROVE  IInv'
<1>1. ASSUME UNCHANGED <<requestVars, pending>>
      PROVE  IInv'
  BY <1>1, NoStep
<1>2. ASSUME NEW u \in uploads, uploadLogs(u)
      PROVE  IInv'
  <2> DEFINE its == {p \in pending : p.id = u.id /\ p.clientId = u.from}
  <2>1. CASE its = {}
    <3>1. UNCHANGED requestVars /\ pending' = pending
      BY <1>2, <2>1 DEF uploadLogs
    <3> QED
      BY <1>1, <3>1
  <2>2. CASE its # {}
    <3>1. PICK h \in Handlers : req[h].on = u.id /\ At(h, "logs", "channel") /\ GoTo(h, "ok")
      BY <1>2, <2>2 DEF uploadLogs
    <3>2. Of(h, {"logs"})
      BY <3>1 DEF At, Of, Open, Answered
    <3>3. \A p, q \in pending : p.id = q.id => p = q
      BY DEF IInv, EntriesMatch, FetchesOK, Of
    <3>4. its = {p \in pending : p.id = req[h].on}
      BY <2>2, <3>1, <3>3
    <3>5. pending' = {p \in pending : p.id # req[h].on}
      BY <1>2, <3>4 DEF uploadLogs
    <3> QED
      BY <3>1, <3>2, <3>5, FetchEnds DEF Answered
  <2> QED
    BY <2>1, <2>2
<1>3. ASSUME NEW c \in Players, handle_fetch_logs(c) \/ ScreenGoes(c) \/ ScreenComes(c)
      PROVE  IInv'
  BY <1>1, <1>3 DEF handle_fetch_logs, ScreenGoes, ScreenComes
<1>4. ASSUME NEW u \in uploads, UploadFails(u)
      PROVE  IInv'
  BY <1>1, <1>4 DEF UploadFails
<1> QED
  BY <1>2, <1>3, <1>4 DEF AtTheScreens

(***************************************************************************)
(* The steps of an event                                                   *)
(***************************************************************************)
LEMMA EventGoes ==
  ASSUME IInv, RowsOK', NEW h \in Handlers, NEW r, GoOn(h, r), ARequest(r), r.op = "event",
         Of(h, {"event"}),
         r.at \in Answered \cup PlaceOf["event"], NEW n, n = req[h].on, r.on = n,
         UNCHANGED <<pending, part, nextEvent, nextRule, rules>>, \A m : m \in passed => m \in passed',
         listed' = listed \/ \E S : listed' = listed \cup ({n} \X S),
         outcome' = outcome \/ \E x, s : outcome' = outcome \cup {<<n, x, s>>},
         history' = history \/ \E e : e.event = n /\ history' = history \cup {e},
         r.at \notin Answered => InHand(h)',
         r.at \in Answered => Finished(n)'
  PROVE  IInv'
<1>1. /\ RequestsOK' /\ begun' = begun
      /\ \A g \in Handlers \ {h} : req'[g] = req[g]
      /\ r.at \notin Answered => req'[h] = r
      /\ r.at \in Answered => ~Open(h)'
  BY GoOnOK DEF IInv
<1>2. \A g \in Handlers \ {h} : \A S : Of(g, S)' <=> Of(g, S)
  BY <1>1 DEF Of, Open
<1>3. ~Of(h, {"logs"}) /\ ~Of(h, {"logs"})' /\ ~Of(h, {"unrule"}) /\ ~Of(h, {"unrule"})'
  BY <1>1 DEF Of, Open
<1>4. /\ \A g \in Handlers \ {h} : Holds(g) /\ Deletes(g)
      /\ Deletes(h)
  BY <1>1, <1>2, <1>3 DEF Holds, Deletes
<1>5. part = "notifications" /\ InHand(h) /\ RowsOK /\ n \in 1..(nextEvent - 1)
  BY DEF IInv, EventsOK, InHand
<1>6. ASSUME NEW m \in 1..(nextEvent - 1), m # n
      PROVE  Quiet(m)
  <2>1. /\ Its(m)' = Its(m) /\ (\A x : <<m, x>> \in listed' => <<m, x>> \in listed)
        /\ \A x : ToldOf(m, x)' = ToldOf(m, x) /\ DidOf(m, x)' = DidOf(m, x)
    BY <1>5, <1>6, OtherRows
  <2>2. \A x : (\E g \in Handlers : IsDeleting(g, x)) => \E g \in Handlers : IsDeleting(g, x)'
    BY <1>4 DEF Deletes, Of, IsDeleting
  <2> QED
    BY <2>1, <2>2, RowsQuiet
<1>7. Of(h, {"event"})' => req'[h].on = n /\ InHand(h)'
  BY <1>1 DEF Of, Open
<1>8. ~Of(h, {"event"})' => Finished(n)'
  BY <1>1 DEF Of, Open
<1>9. n \in 0..nextEvent /\ n # 0
  BY <1>5 DEF RowsOK
<1>10. EventsOK' /\ EveryRuleTold'
  BY <1>4, <1>5, <1>6, <1>7, <1>8, <1>9, EventsStep DEF RowsOK
<1>11. FetchesOK' /\ EntriesMatch'
  BY <1>1, <1>2, <1>3, FetchesKept DEF IInv
<1> QED
  BY <1>1, <1>10, <1>11 DEF IInv

LEMMA EventStep ==
  ASSUME RequestsOK, NEW h \in Handlers, NEW r, GoOn(h, r), ARequest(r), r.op = "event",
         req[h].op = "event",
         r.at \in PlaceOf["event"], part' = part
  PROVE  /\ req'[h] = r /\ r.at \notin Answered /\ r.at \in Answered \cup PlaceOf["event"]
         /\ \A x : (\E g \in Handlers : IsDeleting(g, x)) => \E g \in Handlers : IsDeleting(g, x)'
<1>1. r.at \notin Answered
  BY DEF PlaceOf, Answered
<1>2. req'[h] = r /\ \A g \in Handlers \ {h} : req'[g] = req[g]
  BY <1>1, GoOnOK
<1>3. ASSUME NEW x, NEW g \in Handlers, IsDeleting(g, x)
      PROVE  IsDeleting(g, x)'
  <2>1. g # h
    BY <1>3 DEF IsDeleting
  <2> QED
    BY <1>2, <1>3, <2>1 DEF IsDeleting, Open
<1> QED
  BY <1>1, <1>2, <1>3

LEMMA FireEvent ==
  ASSUME IInv, NEW h \in Handlers, fireEvent(h), part = "notifications", UNCHANGED <<fetchVars, part>>
  PROVE  IInv'
<1>1. Begin(h, "event", "rules", nextEvent, <<>>, TRUE) /\ nextEvent' = nextEvent + 1
      /\ UNCHANGED <<rules, nextRule, history, listed, outcome, passed>>
  BY DEF fireEvent
<1>2. /\ RequestsOK' /\ begun' = begun + 1 /\ ~Open(h)
      /\ req'[h].op = "event" /\ req'[h].at = "rules" /\ req'[h].on = nextEvent /\ req'[h].arg = <<>>
      /\ \A g \in Handlers \ {h} :
           /\ req'[g].op = req[g].op /\ req'[g].at = req[g].at /\ req'[g].on = req[g].on
           /\ req'[g].arg = req[g].arg /\ req'[g].list = req[g].list
  <2>1. "rules" \in PlaceOf["event"] /\ part' = part /\ RequestsOK
    BY DEF PlaceOf, IInv
  <2> QED
    BY <1>1, <2>1, BeginOK
<1>3. \A g \in Handlers \ {h} : \A S : Of(g, S)' <=> Of(g, S)
  BY <1>2 DEF Of, Open
<1>4. (\A S : ~Of(h, S)) /\ ~Of(h, {"logs"})' /\ ~Of(h, {"unrule"})' /\ Of(h, {"event"})'
  BY <1>2 DEF Of, Open, Answered
<1>5. /\ \A g \in Handlers \ {h} : Holds(g) /\ Deletes(g)
      /\ Deletes(h)
  BY <1>2, <1>3, <1>4 DEF Holds, Deletes
<1>6. RowsOK /\ nextEvent \in Nat \ {0}
  BY DEF IInv, RowsOK
<1>7. RowsOK'
  <2>1. 1..(nextEvent - 1) \subseteq 1..(nextEvent' - 1)
    BY <1>1, <1>6
  <2>2. listed' \subseteq (1..(nextEvent' - 1)) \X (1..(nextRule' - 1))
    BY <1>1, <1>6, <2>1 DEF RowsOK
  <2>3. (\A x \in outcome' : x[1] \in 1..(nextEvent' - 1)) /\ \A e \in history' : e.event \in 1..(nextEvent' - 1)
    BY <1>1, <1>6, <2>1 DEF RowsOK
  <2> QED
    BY <1>1, <1>6, <2>2, <2>3 DEF RowsOK
<1>8. ASSUME NEW m \in 1..(nextEvent - 1)
      PROVE  Quiet(m)
  <2>1. Its(m)' = Its(m) /\ \A x : ToldOf(m, x)' = ToldOf(m, x) /\ DidOf(m, x)' = DidOf(m, x)
    BY <1>1 DEF Its, ToldOf, DidOf
  <2>2. \A x : (\E g \in Handlers : IsDeleting(g, x)) => \E g \in Handlers : IsDeleting(g, x)'
    BY <1>5 DEF Deletes, Of, IsDeleting
  <2> QED
    BY <1>1, <2>1, <2>2, RowsQuiet
<1>9. InHand(h)'
  <2>1. \A r : <<nextEvent, r>> \notin listed'
    BY <1>1, <1>6 DEF RowsOK
  <2>2. \A r, s : <<nextEvent, r, s>> \notin outcome'
    BY <1>1, <1>6 DEF RowsOK
  <2>3. \A r : {x \in history' : x.event = nextEvent /\ x.rule = r} = {}
    BY <1>1, <1>6 DEF RowsOK
  <2>4. PICK m : m = nextEvent
    OBVIOUS
  <2>5. \A r : Untold(m, r)'
    BY <2>2, <2>3, <2>4 DEF Untold, ToldOf, DidOf
  <2>6. m \in 1..(nextEvent' - 1) /\ req'[h].on = m /\ req'[h].at = "rules"
    BY <1>1, <1>2, <1>6, <1>7, <2>4 DEF RowsOK
  <2> QED
    BY <2>1, <2>4, <2>5, <2>6 DEF InHand
<1>10. PICK m : m = nextEvent
  OBVIOUS
<1>11. EventsOK' /\ EveryRuleTold'
  BY <1>1, <1>2, <1>4, <1>5, <1>6, <1>7, <1>8, <1>9, <1>10, EventsStep
<1>12. FetchesOK' /\ EntriesMatch'
  BY <1>2, <1>3, <1>4, FetchesKept DEF IInv, fetchVars
<1> QED
  BY <1>2, <1>7, <1>11, <1>12 DEF IInv

\* the rules of an event, in whatever order they come
LEMMA AnyOrder ==
  ASSUME NEW S, IsFiniteSet(S), NEW list \in SetToSeqs(S)
  PROVE  /\ list \in Seq(S) /\ (S # {} => list # <<>>)
         /\ \A i, j \in DOMAIN list : i # j => list[i] # list[j]
         /\ {list[i] : i \in DOMAIN list} = S
<1> DEFINE n == Cardinality(S)
<1>1. n \in Nat
  BY FS_CardinalityType
<1>2. list \in [1..n -> S] /\ \A i, j \in 1..n : i # j => list[i] # list[j]
  BY DEF SetToSeqs
<1>3. IsFiniteSet(1..n) /\ Cardinality(1..n) = n
  BY <1>1, FS_Interval
<1>4. list \in Injection(1..n, S)
  BY <1>2 DEF Injection, IsInjective
<1>5. list \in Surjection(1..n, S)
  BY <1>3, <1>4, FS_Injection
<1>6. {list[i] : i \in 1..n} = S
  BY <1>2, <1>5 DEF Surjection
<1>7. S # {} => list # <<>>
  <2>1. DOMAIN list = 1..n
    BY <1>2
  <2>2. ASSUME list = <<>>
        PROVE  S = {}
    <3>1. \A i \in 1..n : FALSE
      BY <2>1, <2>2
    <3> QED
      BY <1>6, <3>1
  <2> QED
    BY <2>2
<1> QED
  BY <1>1, <1>2, <1>6, <1>7

LEMMA GetRules ==
  ASSUME IInv, NEW h \in Handlers, getEnabledRulesForEvent(h), UNCHANGED <<fetchVars, part>>
  PROVE  IInv'
<1>1. PICK n : n = req[h].on
  OBVIOUS
<1>2. PICK list \in SetToSeqs(rules) :
        GoOn(h, [req[h] EXCEPT !.list = list, !.at = IF rules = {} THEN "schedules" ELSE "channel"])
  BY DEF getEnabledRulesForEvent
<1> DEFINE r == [req[h] EXCEPT !.list = list, !.at = IF rules = {} THEN "schedules" ELSE "channel"]
<1>3. /\ listed' = listed \cup ({n} \X rules) /\ req[h].op = "event" /\ req[h].at = "rules"
      /\ UNCHANGED <<rules, nextRule, history, outcome, passed, nextEvent>>
  BY <1>1 DEF getEnabledRulesForEvent, At
<1>4. Of(h, {"event"}) /\ RowsOK /\ InHand(h) /\ RequestsOK
  BY <1>3 DEF Of, Open, Answered, IInv, EventsOK
<1>5. /\ ARequest(r) /\ r.op = "event" /\ r.on = n /\ r.list = list
      /\ r.at = IF rules = {} THEN "schedules" ELSE "channel"
  BY <1>1, <1>3, <1>4 DEF RequestsOK, ARequest
<1>a. GoOn(h, r)
  BY <1>2
<1> HIDE DEF r
<1>b. r.at \in PlaceOf["event"]
  BY <1>5 DEF PlaceOf
<1>6. req'[h] = r /\ r.at \notin Answered /\ r.at \in Answered \cup PlaceOf["event"]
  BY <1>3, <1>4, <1>5, <1>a, <1>b, EventStep
<1>7. /\ n \in 1..(nextEvent - 1)
      /\ (\A x \in 1..(nextRule - 1) : <<n, x>> \notin listed) /\ \A x : Untold(n, x)
  BY <1>1, <1>3, <1>4 DEF InHand
<1>8. IsFiniteSet(rules)
  <2>1. rules \in SUBSET (1..(nextRule - 1)) /\ nextRule - 1 \in Int
    BY <1>4 DEF RowsOK
  <2>2. IsFiniteSet(1..(nextRule - 1))
    BY <2>1, FS_Interval
  <2> QED
    BY <2>1, <2>2, FS_Subset
<1>9. RowsOK'
  BY <1>3, <1>4, <1>7 DEF RowsOK
<1>10. Its(n)' = rules
  BY <1>3, <1>4, <1>7 DEF Its, RowsOK
<1>11. \A x : Untold(n, x)'
  BY <1>3, <1>7 DEF Untold, ToldOf, DidOf
<1>12. InHand(h)'
  <2>1. CASE rules = {}
    BY <1>3, <1>5, <1>6, <1>7, <1>10, <2>1 DEF InHand
  <2>2. CASE rules # {}
    <3>1. /\ list \in Seq(rules) /\ list # <<>>
          /\ \A i, j \in DOMAIN list : i # j => list[i] # list[j]
          /\ {list[i] : i \in DOMAIN list} = rules
      BY <1>8, <2>2, AnyOrder
    <3>2. ListOK(h)'
      BY <1>5, <1>6, <1>10, <3>1 DEF ListOK
    <3>3. (Its(n)' \cap rules') \ Rest(h)' = {}
      BY <1>5, <1>6, <1>10, <3>1 DEF Rest
    <3> QED
      BY <1>3, <1>5, <1>6, <1>7, <1>10, <1>11, <2>2, <3>2, <3>3 DEF InHand
  <2> QED
    BY <2>1, <2>2
<1> QED
  BY <1>1, <1>3, <1>4, <1>5, <1>6, <1>9, <1>12, <1>a, EventGoes DEF fetchVars

LEMMA Dispatch ==
  ASSUME IInv, NEW h \in Handlers, dispatch(h), UNCHANGED <<fetchVars, part>>
  PROVE  IInv'
<1>1. PICK n : n = req[h].on
  OBVIOUS
<1>2. PICK status \in {"sent", "failed"} :
        /\ outcome' = outcome \cup {<<n, Head(req[h].list), status>>}
        /\ GoOn(h, [req[h] EXCEPT !.at = status])
  BY <1>1 DEF dispatch, GoTo
<1> DEFINE r == [req[h] EXCEPT !.at = status]
<1>3. /\ req[h].op = "event" /\ req[h].at = "channel"
      /\ UNCHANGED <<rules, nextRule, history, listed, passed, nextEvent>>
  BY DEF dispatch, At
<1>4. Of(h, {"event"}) /\ RowsOK /\ InHand(h) /\ RequestsOK
  BY <1>3 DEF Of, Open, Answered, IInv, EventsOK
<1>5. ARequest(r) /\ r.op = "event" /\ r.on = n /\ r.list = req[h].list /\ r.at = status
  BY <1>1, <1>3, <1>4 DEF RequestsOK, ARequest
<1>a. GoOn(h, r)
  BY <1>2
<1> HIDE DEF r
<1>b. r.at \in PlaceOf["event"]
  BY <1>2, <1>5 DEF PlaceOf
<1>6. /\ req'[h] = r /\ r.at \notin Answered /\ r.at \in Answered \cup PlaceOf["event"]
      /\ \A x : (\E g \in Handlers : IsDeleting(g, x)) => \E g \in Handlers : IsDeleting(g, x)'
  BY <1>3, <1>4, <1>5, <1>a, <1>b, EventStep
<1>7. n \in 1..(nextEvent - 1) /\ ListOK(h)
  BY <1>1, <1>3, <1>4 DEF InHand
<1>8. RowsOK'
  BY <1>2, <1>3, <1>4, <1>7 DEF RowsOK
<1>9. PICK list : list = req[h].list
  OBVIOUS
<1>10. /\ list \in Seq(Its(n)) /\ list # <<>> /\ Head(list) = list[1]
       /\ \A i, j \in DOMAIN list : i # j => list[i] # list[j]
  BY <1>1, <1>7, <1>9 DEF ListOK
<1>11. Its(n)' = Its(n) /\ \A x : ToldOf(n, x)' = ToldOf(n, x)
  BY <1>3 DEF Its, ToldOf
<1>12. \A x : x # list[1] => DidOf(n, x)' = DidOf(n, x)
  BY <1>2, <1>9, <1>10 DEF DidOf
<1>13. DidOf(n, list[1])' = {status}
  <2>1. DidOf(n, list[1]) = {}
    BY <1>1, <1>3, <1>4, <1>9 DEF InHand, Untold
  <2> QED
    BY <1>2, <1>9, <1>10, <2>1 DEF DidOf
<1>15. \A x : x # list[1] /\ Settled(n, x) => Settled(n, x)'
  BY <1>3, <1>6, <1>11, <1>12 DEF Settled
<1>16. \A x : x # list[1] /\ Untold(n, x) => Untold(n, x)'
  BY <1>11, <1>12 DEF Untold
<1>17. InHand(h)'
  <2>1. ListOK(h)' /\ Rest(h)' = Rest(h) /\ list[1] \in Rest(h)
    BY <1>1, <1>5, <1>6, <1>7, <1>9, <1>10, <1>11 DEF ListOK, Rest
  <2>2. \A i \in 2..Len(list) : Untold(n, list[i])'
    BY <1>1, <1>3, <1>4, <1>9, <1>10, <1>16 DEF InHand
  <2>3. \A x \in (Its(n)' \cap rules') \ Rest(h)' : Settled(n, x)'
    BY <1>1, <1>3, <1>4, <1>11, <1>15, <2>1 DEF InHand
  <2>4. ToldOf(n, list[1])' = {}
    BY <1>1, <1>3, <1>4, <1>9, <1>11 DEF InHand, Untold
  <2> QED
    BY <1>2, <1>3, <1>5, <1>6, <1>7, <1>9, <1>13, <2>1, <2>2, <2>3, <2>4 DEF InHand
<1> QED
  BY <1>1, <1>2, <1>3, <1>4, <1>5, <1>6, <1>8, <1>17, <1>a, EventGoes DEF fetchVars

LEMMA TailOf ==
  ASSUME NEW S, NEW list \in Seq(S), list # <<>>, Len(list) # 1
  PROVE  /\ Len(list) \in Nat /\ Len(list) > 1 /\ DOMAIN list = 1..Len(list)
         /\ Tail(list) \in Seq(S) /\ Tail(list) # <<>>
         /\ Len(Tail(list)) = Len(list) - 1 /\ DOMAIN Tail(list) = 1..(Len(list) - 1)
         /\ \A i \in 1..(Len(list) - 1) : Tail(list)[i] = list[i + 1]
<1>1. Len(list) \in Nat /\ Len(list) > 0 /\ DOMAIN list = 1..Len(list)
  OBVIOUS
<1>2. Len(list) > 1
  BY <1>1
<1>3. Tail(list) \in Seq(S) /\ Len(Tail(list)) = Len(list) - 1
  BY <1>1
<1>4. \A i \in 1..(Len(list) - 1) : Tail(list)[i] = list[i + 1]
  BY <1>1
<1>5. DOMAIN Tail(list) = 1..(Len(list) - 1)
  BY <1>3
<1>6. Tail(list) # <<>>
  <2>1. SUFFICES ASSUME Tail(list) = <<>>
                 PROVE  FALSE
    OBVIOUS
  <2>2. \A i \in 1..(Len(list) - 1) : FALSE
    <3>1. PICK t : t = Tail(list)
      OBVIOUS
    <3>2. PICK n : n = Len(list) - 1
      OBVIOUS
    <3>3. DOMAIN t = 1..n /\ t = <<>>
      BY <1>5, <2>1, <3>1, <3>2
    <3>4. \A i \in 1..n : FALSE
      BY ONLY <3>3
    <3> QED
      BY <3>2, <3>4
  <2>3. 1 \in 1..(Len(list) - 1)
    BY <1>1, <1>2
  <2> QED
    BY <2>2, <2>3
<1> QED
  BY <1>1, <1>2, <1>3, <1>4, <1>5, <1>6

LEMMA CreateHistory ==
  ASSUME IInv, NotOnSqlServer, NEW h \in Handlers, NEW status \in {"sent", "failed"},
         createNotificationHistory(h, status), UNCHANGED <<fetchVars, part>>
  PROVE  IInv'
<1>1. PICK n : n = req[h].on
  OBVIOUS
<1>2. PICK list : list = req[h].list
  OBVIOUS
<1>3. req[h].op = "event" /\ req[h].at = status
      /\ UNCHANGED <<rules, nextRule, listed, outcome, passed, nextEvent>>
  BY DEF createNotificationHistory, At, spoken
<1>4. Of(h, {"event"}) /\ RowsOK /\ InHand(h) /\ RequestsOK
  BY <1>3 DEF Of, Open, Answered, IInv, EventsOK
<1>5. backend # "mssql"
  BY <1>4 DEF NotOnSqlServer, IInv, EventsOK, RequestsOK
<1>6. n \in 1..(nextEvent - 1) /\ ListOK(h)
  BY <1>1, <1>3, <1>4 DEF InHand
<1>7. /\ list \in Seq(Its(n)) /\ list # <<>> /\ Head(list) = list[1] /\ list[1] \in Its(n)
      /\ \A i, j \in DOMAIN list : i # j => list[i] # list[j]
  BY <1>1, <1>2, <1>6 DEF ListOK
<1>8. /\ ToldOf(n, list[1]) = {}
      /\ status = "sent" => DidOf(n, list[1]) = {"sent"}
      /\ status = "failed" => DidOf(n, list[1]) = {"failed"} \/ list[1] \notin rules
      /\ \A i \in 2..Len(list) : Untold(n, list[i])
      /\ \A x \in (Its(n) \cap rules) \ Rest(h) : Settled(n, x)
  BY <1>1, <1>2, <1>3, <1>4 DEF InHand
<1>9. Its(n)' = Its(n) /\ \A x : DidOf(n, x)' = DidOf(n, x)
  BY <1>3 DEF Its, DidOf
<1>10. Rest(h) = {list[i] : i \in DOMAIN list}
  BY <1>2 DEF Rest
<1>11. CASE IsSql /\ list[1] \notin rules
  <2> DEFINE r == [req[h] EXCEPT !.at = IF status = "sent" THEN "failed" ELSE "error"]
  <2>1. history' = history /\ GoOn(h, r)
    BY <1>2, <1>7, <1>11 DEF createNotificationHistory
  <2>2. ARequest(r) /\ r.op = "event" /\ r.on = n /\ r.list = list
        /\ r.at = IF status = "sent" THEN "failed" ELSE "error"
    BY <1>1, <1>2, <1>3, <1>4 DEF RequestsOK, ARequest
  <2> HIDE DEF r
  <2>3. RowsOK'
    BY <1>3, <1>4, <2>1 DEF RowsOK
  <2>4. \A x : ToldOf(n, x)' = ToldOf(n, x)
    BY <2>1 DEF ToldOf
  <2>5. CASE status = "sent"
    <3>1. r.at \in PlaceOf["event"]
      BY <2>2, <2>5 DEF PlaceOf
    <3>2. /\ req'[h] = r /\ r.at \notin Answered /\ r.at \in Answered \cup PlaceOf["event"]
          /\ \A x : (\E g \in Handlers : IsDeleting(g, x)) => \E g \in Handlers : IsDeleting(g, x)'
      BY <1>3, <1>4, <2>1, <2>2, <3>1, EventStep
    <3>3. \A x : (Untold(n, x) => Untold(n, x)') /\ (Settled(n, x) => Settled(n, x)')
      BY <1>3, <1>9, <2>4, <3>2 DEF Untold, Settled
    <3>4. ListOK(h)' /\ Rest(h)' = Rest(h)
      BY <1>1, <1>2, <1>6, <1>9, <2>2, <3>2 DEF ListOK, Rest
    <3>5. InHand(h)'
      BY <1>3, <1>6, <1>8, <1>9, <1>11, <2>2, <2>4, <2>5, <3>2, <3>3, <3>4 DEF InHand
    <3> QED
      BY <1>1, <1>3, <1>4, <2>1, <2>2, <2>3, <3>2, <3>5, EventGoes DEF fetchVars
  <2>6. CASE status = "failed"
    <3>1. r.at \in Answered /\ r.at \in Answered \cup PlaceOf["event"]
      BY <2>2, <2>6 DEF Answered
    <3>2. \A g \in Handlers \ {h} : req'[g] = req[g]
      BY <1>4, <2>1, <2>2, <3>1, GoOnOK
    <3>3. \A x : (\E g \in Handlers : IsDeleting(g, x)) => \E g \in Handlers : IsDeleting(g, x)'
      BY <1>3, <3>2 DEF IsDeleting, Open
    <3>4. ~(Its(n)' \subseteq rules')
      BY <1>3, <1>7, <1>9, <1>11
    <3>5. ASSUME NEW x \in Its(n)' \cap rules'
          PROVE  Settled(n, x)'
      <4>1. x \in Its(n) \cap rules /\ x # list[1]
        BY <1>3, <1>9, <1>11
      <4>2. CASE x \in Rest(h)
        <5>1. PICK i \in DOMAIN list : x = list[i]
          BY <1>10, <4>2
        <5>2. i \in 2..Len(list)
          BY <1>7, <4>1, <5>1
        <5>3. ToldOf(n, x)' = {} /\ DidOf(n, x)' = {}
          BY <1>8, <1>9, <2>4, <5>1, <5>2 DEF Untold
        <5> QED
          BY <3>4, <5>3 DEF Settled
      <4>3. CASE x \notin Rest(h)
        <5>1. Settled(n, x)
          BY <1>8, <4>1, <4>3
        <5> QED
          BY <1>3, <1>9, <2>4, <3>3, <5>1 DEF Settled
      <4> QED
        BY <4>2, <4>3
    <3>6. Finished(n)'
      BY <3>4, <3>5 DEF Finished
    <3> QED
      BY <1>1, <1>3, <1>4, <2>1, <2>2, <2>3, <3>1, <3>6, EventGoes DEF fetchVars
  <2> QED
    BY <2>5, <2>6
<1>12. CASE ~(IsSql /\ list[1] \notin rules)
  <2> DEFINE r == NextRule(req[h])
  <2> DEFINE e == [event |-> n, rule |-> list[1], status |-> status]
  <2>1. history' = history \cup {e} /\ GoOn(h, r)
    BY <1>1, <1>2, <1>5, <1>7, <1>12 DEF createNotificationHistory, HistoryEntry
  <2>2. /\ ARequest(r) /\ r.op = "event" /\ r.on = n /\ r.list = Tail(list)
        /\ r.at = IF Len(list) = 1 THEN "schedules" ELSE "channel"
    BY <1>1, <1>2, <1>3, <1>4 DEF RequestsOK, ARequest, NextRule
  <2>3. e.event = n /\ e.rule = list[1] /\ e.status = status
    OBVIOUS
  <2> HIDE DEF r, e
  <2>4. RowsOK'
    BY <1>3, <1>4, <1>6, <2>1, <2>3 DEF RowsOK
  <2>5. r.at \in PlaceOf["event"]
    BY <2>2 DEF PlaceOf
  <2>6. /\ req'[h] = r /\ r.at \notin Answered /\ r.at \in Answered \cup PlaceOf["event"]
        /\ \A x : (\E g \in Handlers : IsDeleting(g, x)) => \E g \in Handlers : IsDeleting(g, x)'
    BY <1>3, <1>4, <2>1, <2>2, <2>5, EventStep
  <2>7. \A x : x # list[1] => ToldOf(n, x)' = ToldOf(n, x)
    <3>1. ASSUME NEW x, x # list[1]
          PROVE  {y \in history' : y.event = n /\ y.rule = x} = {y \in history : y.event = n /\ y.rule = x}
      BY <2>1, <2>3, <3>1
    <3> QED
      BY <3>1 DEF ToldOf
  <2>8. ToldOf(n, list[1])' = {status}
    <3>1. {y \in history : y.event = n /\ y.rule = list[1]} = {}
      BY <1>8 DEF ToldOf
    <3>2. {y \in history' : y.event = n /\ y.rule = list[1]} = {e}
      BY <2>1, <2>3, <3>1
    <3> QED
      BY <2>3, <3>2 DEF ToldOf
  <2>9. list[1] \in rules => Settled(n, list[1])'
    BY <1>8, <1>9, <2>8 DEF Settled
  <2>10. \A x : x # list[1] => (Untold(n, x) => Untold(n, x)') /\ (Settled(n, x) => Settled(n, x)')
    BY <1>3, <1>9, <2>6, <2>7 DEF Untold, Settled
  <2>11. \A x \in (Its(n)' \cap rules') \ (Rest(h) \ {list[1]}) : Settled(n, x)'
    BY <1>3, <1>8, <1>9, <2>9, <2>10
  <2>12. CASE Len(list) = 1
    <3>1. Rest(h) = {list[1]}
      BY <1>7, <1>10, <2>12
    <3>2. InHand(h)'
      BY <1>3, <1>6, <2>2, <2>6, <2>11, <2>12, <3>1 DEF InHand
    <3> QED
      BY <1>1, <1>3, <1>4, <2>1, <2>2, <2>3, <2>4, <2>6, <3>2, EventGoes DEF fetchVars
  <2>13. CASE Len(list) # 1
    <3>1. /\ Tail(list) \in Seq(Its(n)) /\ Tail(list) # <<>> /\ Len(Tail(list)) = Len(list) - 1
          /\ \A i \in 1..(Len(list) - 1) : Tail(list)[i] = list[i + 1]
      BY <1>7, <2>13, TailOf
    <3>2. Len(list) \in Nat /\ Len(list) > 1 /\ DOMAIN list = 1..Len(list)
          /\ DOMAIN Tail(list) = 1..(Len(list) - 1)
      BY <1>7, <2>13, TailOf
    <3>a. \A i \in 1..(Len(list) - 1) : Tail(list)[i] = list[i + 1] /\ i + 1 \in 1..Len(list) /\ i + 1 # 1
      BY <3>1, <3>2
    <3>b. \A i, j \in DOMAIN Tail(list) : i # j => Tail(list)[i] # Tail(list)[j]
      <4>1. \A i, j \in 1..(Len(list) - 1) : i # j => i + 1 # j + 1
        BY <3>2
      <4> QED
        BY <1>7, <3>2, <3>a, <4>1
    <3>3. ListOK(h)'
      BY <1>9, <2>2, <2>6, <3>1, <3>b DEF ListOK
    <3>4. Rest(h)' = Rest(h) \ {list[1]}
      <4>1. Rest(h)' = {Tail(list)[i] : i \in DOMAIN Tail(list)}
        BY <2>2, <2>6 DEF Rest
      <4>2. \A i \in 1..Len(list) : i # 1 => i - 1 \in 1..(Len(list) - 1) /\ (i - 1) + 1 = i
        BY <3>2
      <4>3. \A x : x \in Rest(h)' => x \in Rest(h) /\ x # list[1]
        BY <1>7, <1>10, <3>2, <3>a, <4>1
      <4>4. ASSUME NEW x \in Rest(h), x # list[1]
            PROVE  x \in Rest(h)'
        <5>1. PICK i \in 1..Len(list) : x = list[i]
          BY <1>10, <3>2
        <5>2. i - 1 \in 1..(Len(list) - 1) /\ Tail(list)[i - 1] = x
          BY <3>a, <4>2, <4>4, <5>1
        <5> QED
          BY <3>2, <4>1, <5>2
      <4> QED
        BY <4>3, <4>4
    <3>5. \A i \in 1..(Len(list) - 1) : Untold(n, Tail(list)[i])'
      BY <1>7, <1>8, <2>10, <3>1, <3>2
    <3>6. InHand(h)'
      <4>1. req'[h].on = n /\ req'[h].at = "channel" /\ req'[h].list = Tail(list)
        BY <2>2, <2>6, <2>13
      <4>2. Untold(n, Tail(list)[1])' /\ \A i \in 2..Len(Tail(list)) : Untold(n, Tail(list)[i])'
        <5>1. 1 \in 1..(Len(list) - 1) /\ \A i \in 2..Len(Tail(list)) : i \in 1..(Len(list) - 1)
          BY <3>1, <3>2
        <5> QED
          BY <3>5, <5>1
      <4>3. \A x \in (Its(n)' \cap rules') \ Rest(h)' : Settled(n, x)'
        BY <2>11, <3>4
      <4> QED
        BY <1>3, <1>6, <3>3, <4>1, <4>2, <4>3 DEF InHand
    <3> QED
      BY <1>1, <1>3, <1>4, <2>1, <2>2, <2>3, <2>4, <2>6, <3>6, EventGoes DEF fetchVars
  <2> QED
    BY <2>12, <2>13
<1> QED
  BY <1>11, <1>12

LEMMA HandsOn ==
  ASSUME IInv, NEW h \in Handlers, HandOn(h), UNCHANGED <<fetchVars, part>>
  PROVE  IInv'
<1>1. PICK n : n = req[h].on
  OBVIOUS
<1> DEFINE r == [req[h] EXCEPT !.at = "ok"]
<1>2. /\ req[h].op = "event" /\ req[h].at = "schedules" /\ GoOn(h, r)
      /\ passed' = passed \cup {n} /\ UNCHANGED <<rules, nextRule, history, listed, outcome, nextEvent>>
  BY <1>1 DEF HandOn, At, GoTo
<1>3. Of(h, {"event"}) /\ RowsOK /\ InHand(h) /\ RequestsOK
  BY <1>2 DEF Of, Open, Answered, IInv, EventsOK
<1>4. ARequest(r) /\ r.op = "event" /\ r.on = n /\ r.at = "ok"
  BY <1>1, <1>2, <1>3 DEF RequestsOK, ARequest
<1> HIDE DEF r
<1>5. r.at \in Answered /\ r.at \in Answered \cup PlaceOf["event"]
  BY <1>4 DEF Answered
<1>6. \A g \in Handlers \ {h} : req'[g] = req[g]
  BY <1>2, <1>3, <1>4, <1>5, GoOnOK
<1>7. \A x : (\E g \in Handlers : IsDeleting(g, x)) => \E g \in Handlers : IsDeleting(g, x)'
  BY <1>2, <1>6 DEF IsDeleting, Open
<1>8. RowsOK'
  BY <1>2, <1>3 DEF RowsOK
<1>9. Its(n)' = Its(n) /\ \A x : DidOf(n, x)' = DidOf(n, x) /\ ToldOf(n, x)' = ToldOf(n, x)
  BY <1>2 DEF Its, DidOf, ToldOf
<1>10. \A x \in Its(n) \cap rules : Settled(n, x)
  BY <1>1, <1>2, <1>3 DEF InHand
<1>11. Finished(n)'
  BY <1>2, <1>7, <1>9, <1>10 DEF Finished, Settled
<1> QED
  BY <1>1, <1>2, <1>3, <1>4, <1>5, <1>8, <1>11, EventGoes DEF fetchVars

(***************************************************************************)
(* Rules that come and go                                                  *)
(***************************************************************************)
LEMMA CreateRule ==
  ASSUME IInv, NEW h \in Handlers, createNotificationRule(h), UNCHANGED <<fetchVars, part>>
  PROVE  IInv'
<1> DEFINE at == IF backend = "mssql" THEN "error" ELSE "ok"
<1> DEFINE r == [req[h] EXCEPT !.at = at]
<1>1. /\ req[h].op = "rule" /\ GoOn(h, r) /\ rules' = rules \cup {nextRule} /\ nextRule' = nextRule + 1
      /\ UNCHANGED <<history, listed, outcome, passed, nextEvent>>
  BY DEF createNotificationRule, At, GoTo, spoken
<1>2. RowsOK /\ RequestsOK
  BY DEF IInv
<1>3. ARequest(r) /\ r.op = "rule" /\ r.at = at
  BY <1>1, <1>2 DEF RequestsOK, ARequest
<1>4. at \in Answered
  BY DEF Answered
<1> HIDE DEF r, at
<1>5. RequestsOK' /\ begun' = begun /\ ~Open(h)' /\ \A g \in Handlers \ {h} : req'[g] = req[g]
  BY <1>1, <1>2, <1>3, <1>4, GoOnOK DEF Kinds
<1>6. \A g \in Handlers \ {h} : \A S : Of(g, S)' <=> Of(g, S)
  BY <1>5 DEF Of, Open
<1>7. \A S : S \subseteq Kinds => ~Of(h, S) /\ ~Of(h, S)'
  BY <1>1, <1>5 DEF Of, Kinds
<1>8. \A g \in Handlers : Holds(g) /\ Deletes(g)
  BY <1>5, <1>6, <1>7 DEF Holds, Deletes, Kinds
<1>9. RowsOK'
  <2>1. 1..(nextRule - 1) \subseteq 1..(nextRule' - 1) /\ nextRule \in 1..(nextRule' - 1)
        /\ nextRule' \in Nat \ {0}
    BY <1>1, <1>2 DEF RowsOK
  <2> QED
    BY <1>1, <1>2, <2>1 DEF RowsOK
<1>10. ASSUME NEW m \in 1..(nextEvent - 1)
       PROVE  Quiet(m)
  <2>1. \A x : ToldOf(m, x)' = ToldOf(m, x) /\ DidOf(m, x)' = DidOf(m, x)
    BY <1>1 DEF ToldOf, DidOf
  <2>2. \A x : <<m, x>> \in listed => x \in 1..(nextRule - 1)
    BY <1>2 DEF RowsOK
  <2>3. 1..(nextRule - 1) \subseteq 1..(nextRule' - 1) /\ nextRule \notin 1..(nextRule - 1)
    BY <1>1, <1>2 DEF RowsOK
  <2>4. Its(m)' = Its(m)
    BY <1>1, <2>2, <2>3 DEF Its
  <2>5. \A x \in Its(m) : x \in rules' => x \in rules
    BY <1>1, <2>3 DEF Its
  <2>6. \A x : (\E g \in Handlers : IsDeleting(g, x)) => \E g \in Handlers : IsDeleting(g, x)'
    BY <1>8 DEF Deletes, Of, IsDeleting
  <2> QED
    BY <1>1, <2>1, <2>4, <2>5, <2>6, RowsQuiet
<1>11. ~Of(h, {"event"}) /\ ~Of(h, {"event"})' /\ 0 \in 0..nextEvent
  BY <1>2, <1>7 DEF Kinds, RowsOK
<1>12. EventsOK' /\ EveryRuleTold'
  BY <1>1, <1>2, <1>8, <1>9, <1>10, <1>11, EventsStep DEF RowsOK
<1>13. FetchesOK' /\ EntriesMatch'
  BY <1>5, <1>6, <1>7, FetchesKept DEF IInv, fetchVars, Kinds
<1> QED
  BY <1>5, <1>9, <1>12, <1>13 DEF IInv

\* a deletion: what its handler does to the rows of its rule, until the rule is gone
LEMMA DeletionGoes ==
  ASSUME IInv, NEW h \in Handlers, NEW at, GoTo(h, at), at \in Answered \cup PlaceOf["unrule"],
         req[h].op = "unrule", Open(h),
         NEW id, id = req[h].on,
         UNCHANGED <<pending, part, nextRule, listed, outcome, passed, nextEvent>>,
         rules' \in {rules, rules \ {id}}, history' \in {history, {e \in history : e.rule # id}},
         at \in Answered => id \notin rules'
  PROVE  IInv'
<1> DEFINE r == [req[h] EXCEPT !.at = at]
<1>1. RowsOK /\ RequestsOK
  BY DEF IInv
<1>2. GoOn(h, r) /\ ARequest(r) /\ r.op = "unrule" /\ r.on = id /\ r.at = at
  BY <1>1 DEF RequestsOK, ARequest, GoTo
<1> HIDE DEF r
<1>3. /\ RequestsOK' /\ begun' = begun /\ (\A g \in Handlers \ {h} : req'[g] = req[g])
      /\ at \notin Answered => req'[h] = r
      /\ at \in Answered => ~Open(h)'
  BY <1>1, <1>2, GoOnOK
<1>4. \A g \in Handlers \ {h} : \A S : Of(g, S)' <=> Of(g, S)
  BY <1>3 DEF Of, Open
<1>5. /\ ~Of(h, {"event"}) /\ ~Of(h, {"event"})'
      /\ ~Of(h, {"logs"}) /\ ~Of(h, {"logs"})'
  BY <1>2, <1>3 DEF Of, Open
<1>6. /\ \A g \in Handlers : Holds(g)
      /\ \A g \in Handlers \ {h} : Deletes(g)
  BY <1>3, <1>4, <1>5 DEF Holds, Deletes
<1>7. RowsOK'
  BY <1>1 DEF RowsOK
<1>8. ASSUME NEW x, x \in rules'
      PROVE  (\E g \in Handlers : IsDeleting(g, x)) => \E g \in Handlers : IsDeleting(g, x)'
  <2>1. x = id => at \notin Answered
    BY <1>8
  <2>2. IsDeleting(h, x) => IsDeleting(h, x)'
    BY <1>2, <1>3, <2>1 DEF IsDeleting, Open
  <2>3. \A g \in Handlers \ {h} : IsDeleting(g, x) => IsDeleting(g, x)'
    BY <1>3 DEF IsDeleting, Open
  <2> QED
    BY <2>2, <2>3
<1>9. ASSUME NEW m \in 1..(nextEvent - 1)
      PROVE  Quiet(m)
  <2>1. Its(m)' = Its(m)
        /\ (\A x : <<m, x>> \in listed' => <<m, x>> \in listed) /\ \A x : DidOf(m, x)' = DidOf(m, x)
    BY DEF Its, DidOf
  <2>2. ASSUME NEW x
        PROVE  (ToldOf(m, x) = {} => ToldOf(m, x)' = {}) /\ (x # id => ToldOf(m, x)' = ToldOf(m, x))
    <3>1. history' \subseteq history
      OBVIOUS
    <3>2. x # id => {e \in history' : e.event = m /\ e.rule = x} = {e \in history : e.event = m /\ e.rule = x}
      OBVIOUS
    <3>3. {e \in history' : e.event = m /\ e.rule = x} \subseteq {e \in history : e.event = m /\ e.rule = x}
      BY <3>1
    <3> QED
      BY <3>2, <3>3 DEF ToldOf
  <2>3. \A x : x \in rules' => x \in rules
    OBVIOUS
  <2>4. ASSUME NEW x \in Its(m), x \in rules', Settled(m, x)
        PROVE  Settled(m, x)'
    <3>1. CASE x = id
      <4>1. at \notin Answered
        BY <2>4, <3>1
      <4>2. IsDeleting(h, x)'
        BY <1>2, <1>3, <3>1, <4>1 DEF IsDeleting, Open
      <4> QED
        BY <4>2 DEF Settled
    <3>2. CASE x # id
      <4>1. \/ ToldOf(m, x) = DidOf(m, x) /\ (ToldOf(m, x) # {} \/ ~(Its(m) \subseteq rules))
            \/ \E g \in Handlers : IsDeleting(g, x)'
        BY <1>8, <2>4 DEF Settled
      <4> QED
        BY <2>1, <2>2, <2>3, <3>2, <4>1 DEF Settled
    <3> QED
      BY <3>1, <3>2
  <2> QED
    BY <2>1, <2>2, <2>3, <2>4 DEF Quiet
<1>10. 0 \in 0..nextEvent
  BY <1>1 DEF RowsOK
<1>11. EventsOK' /\ EveryRuleTold'
  BY <1>1, <1>5, <1>6, <1>7, <1>9, <1>10, EventsStep DEF RowsOK
<1>12. FetchesOK' /\ EntriesMatch'
  BY <1>3, <1>4, <1>5, FetchesKept DEF IInv
<1> QED
  BY <1>3, <1>7, <1>11, <1>12 DEF IInv

LEMMA DeleteRule ==
  ASSUME IInv, NEW h \in Handlers, mongoDeleteHistory(h) \/ deleteNotificationRule(h),
         UNCHANGED <<fetchVars, part>>
  PROVE  IInv'
<1>1. PICK id : id = req[h].on
  OBVIOUS
<1>2. req[h].op = "unrule" /\ Open(h)
  BY DEF mongoDeleteHistory, deleteNotificationRule, At, Open, Answered
<1>3. CASE mongoDeleteHistory(h)
  <2>1. GoTo(h, "row")
        /\ history' = {e \in history : e.rule # id}
        /\ UNCHANGED <<rules, nextRule, listed, outcome, passed, nextEvent>>
    BY <1>1, <1>3 DEF mongoDeleteHistory, spoken
  <2>2. "row" \in Answered \cup PlaceOf["unrule"] /\ "row" \notin Answered
    BY DEF Answered, PlaceOf
  <2> QED
    BY <1>1, <1>2, <2>1, <2>2, DeletionGoes DEF fetchVars
<1>4. CASE deleteNotificationRule(h)
  <2>1. /\ GoTo(h, "ok") /\ rules' = rules \ {id}
        /\ history' \in {history, {e \in history : e.rule # id}}
        /\ UNCHANGED <<nextRule, listed, outcome, passed, nextEvent>>
    BY <1>1, <1>4 DEF deleteNotificationRule, spoken
  <2>2. "ok" \in Answered \cup PlaceOf["unrule"] /\ id \notin rules'
    BY <2>1 DEF Answered
  <2> QED
    BY <1>1, <1>2, <2>1, <2>2, DeletionGoes DEF fetchVars
<1> QED
  BY <1>3, <1>4

LEMMA NotificationBegins ==
  ASSUME IInv, NEW h \in Handlers, BeginNotifications(h), part = "notifications",
         UNCHANGED <<fetchVars, part>>
  PROVE  IInv'
<1>1. CASE fireEvent(h)
  BY <1>1, FireEvent
<1>2. CASE createRule(h)
  BY <1>2, OtherBegin DEF createRule, Kinds, fetchVars
<1>3. ASSUME NEW id \in rules, deleteRule(h, id)
      PROVE  IInv'
  <2> DEFINE at == IF IsSql THEN "row" ELSE "history"
  <2>1. Begin(h, "unrule", at, id, <<>>, TRUE) /\ UNCHANGED notificationVars
    BY <1>3 DEF deleteRule
  <2>2. at \in PlaceOf["unrule"] /\ at \notin Answered /\ RequestsOK /\ part' = part
    BY DEF PlaceOf, Answered, IInv
  <2> HIDE DEF at
  <2>3. /\ RequestsOK' /\ begun' = begun + 1 /\ ~Open(h)
        /\ req'[h].op = "unrule" /\ req'[h].at = at /\ req'[h].on = id /\ req'[h].arg = <<>>
        /\ \A g \in Handlers \ {h} :
             /\ req'[g].op = req[g].op /\ req'[g].at = req[g].at /\ req'[g].on = req[g].on
             /\ req'[g].arg = req[g].arg /\ req'[g].list = req[g].list
    BY <2>1, <2>2, BeginOK
  <2>4. \A g \in Handlers \ {h} : \A S : Of(g, S)' <=> Of(g, S)
    BY <2>3 DEF Of, Open
  <2>5. (\A S : ~Of(h, S)) /\ ~Of(h, {"logs"})' /\ ~Of(h, {"event"})'
    BY <2>3 DEF Of, Open
  <2>6. \A g \in Handlers : Holds(g) /\ Deletes(g)
    BY <2>3, <2>4, <2>5 DEF Holds, Deletes
  <2>7. RowsOK' /\ EventsOK' /\ EveryRuleTold'
    BY <2>1, <2>6, EventsBeside
  <2>8. FetchesOK' /\ EntriesMatch'
    BY <2>3, <2>4, <2>5, FetchesKept DEF IInv, fetchVars
  <2> QED
    BY <2>3, <2>7, <2>8 DEF IInv
<1> QED
  BY <1>1, <1>2, <1>3 DEF BeginNotifications

LEMMA NotificationSteps ==
  ASSUME IInv, NotOnSqlServer, NEW h \in Handlers, StepNotifications(h), UNCHANGED <<fetchVars, part>>
  PROVE  IInv'
BY GetRules, Dispatch, HandsOn, CreateHistory, CreateRule, DeleteRule DEF StepNotifications

LEMMA InitIInv ==
  ASSUME Init
  PROVE  IInv
<1>1. req = [h \in Handlers |-> NoRequest] /\ begun = 0
      /\ \E s \in Studied : part = s[1] /\ backend = s[2]
  BY DEF Init, InitRequests
<1>2. /\ rules \subseteq 1..(nextRule - 1) /\ nextRule \in Nat \ {0} /\ nextEvent = 1
      /\ history = {} /\ listed = {} /\ outcome = {} /\ pending = {}
  BY DEF Init, InitNotifications, NoNotifications, InitFetch, NoFetch
<1>3. \A h \in Handlers : ~Open(h) /\ \A S : ~Of(h, S)
  BY <1>1 DEF NoRequest, Open, Of, Answered
<1>4. RequestsOK
  BY <1>1, <1>3 DEF RequestsOK, ARequest, NoRequest
<1>5. RowsOK
  BY <1>2 DEF RowsOK
<1>6. FetchesOK /\ EventsOK
  BY <1>3 DEF FetchesOK, EventsOK
<1>7. EntriesMatch
  BY <1>2, <1>3 DEF EntriesMatch
<1>8. EveryRuleTold
  BY <1>2 DEF EveryRuleTold
<1> QED
  BY <1>4, <1>5, <1>6, <1>7, <1>8 DEF IInv

LEMMA NextIInv ==
  ASSUME IInv, NotOnSqlServer, [Next]_vars
  PROVE  IInv'
<1>1. ASSUME NEW h \in Handlers, Definition(BeginDefinitions(h)) \/ Definition(StepDefinitions(h))
      PROVE  IInv'
  BY <1>1, DefinitionBegins, DefinitionSteps DEF Definition, fetchVars
<1>2. ASSUME NEW h \in Handlers, part = "notifications", Notification(BeginNotifications(h))
      PROVE  IInv'
  BY <1>2, NotificationBegins DEF Notification
<1>3. ASSUME NEW h \in Handlers, Notification(StepNotifications(h))
      PROVE  IInv'
  BY <1>3, NotificationSteps DEF Notification
<1>4. ASSUME NEW h \in Handlers, Fetch(BeginFetch(h)) \/ Fetch(StepFetch(h))
      PROVE  IInv'
  BY <1>4, FetchBegins, FetchSteps DEF Fetch
<1>5. CASE Pushes \/ Definition(Leave)
  <2>1. UNCHANGED <<requestVars, notificationVars, fetchVars, part>>
    BY <1>5 DEF Pushes, Definition, Push, Leave, ReadSchedules, SendDefinitions, handleDisconnection
  <2> QED
    BY <2>1, NoStep DEF fetchVars
<1>6. CASE Fetch(AtTheScreens)
  BY <1>6, ScreenSteps DEF Fetch
<1>7. CASE UNCHANGED <<requestVars, notificationVars, fetchVars, part>>
  BY <1>7, NoStep DEF fetchVars
<1>8. CASE UNCHANGED vars
  BY <1>8, NoStep DEF vars, fetchVars
<1> QED
  BY <1>1, <1>2, <1>3, <1>4, <1>5, <1>6, <1>7, <1>8 DEF Next, Step

\* Of an event whose handler has come to its end, every rule it found and that is
\* still there has one true entry in the history (fireEvent and dispatch of
\* notification.service.ts); a log fetch that waits has its entry in
\* pendingLogFetches, and every entry there a fetch that waits (telemetry.routes.ts):
\* OperatorsAreTold, for any number of requests and rules, and on every back end,
\* but for events on SQL Server.
THEOREM OperatorsCorrect == ASSUME NotOnSqlServer PROVE Spec => []OperatorsAreTold
<1>1. Init => IInv
  BY InitIInv
<1>2. IInv /\ [Next]_vars => IInv'
  BY NextIInv
<1>3. IInv => OperatorsAreTold
  BY DEF IInv, OperatorsAreTold
<1> QED
  BY <1>1, <1>2, <1>3, PTL DEF Spec

(***************************************************************************)
(* What screens are told: the invariant                                    *)
(***************************************************************************)
\* the requests about definitions, and those that tell screens in the end
Definers ==
  {"create", "instantiate", "discard", "template", "change", "cancel", "join", "leave", "disband", "drop",
   "register"}
Tellers == {"create", "change", "cancel", "join", "leave", "register"}
Places == {"check", "insert", "template", "row", "previous", "write", "reread", "members", "clients", "push"}

KindsApart ==
  /\ req = [h \in Handlers |-> req[h]] /\ \A h \in Handlers : ARequest(req[h])
  /\ part # "definitions" => \A h \in Handlers : req[h].op \notin Tellers
  /\ part = "definitions" =>
       \A h \in Handlers : req[h].op \in Definers \cup {"none"} /\ req[h].at \in Places \cup Answered

\* rows, and what requests and pushes have of them
Row == [id : Nat, pl : Playlist, to : Targets, prio : Nat]
Rows(S) == S \subseteq Row /\ \A s, t \in S : s.id = t.id => s = t
TablesOK ==
  /\ Rows(schedules) /\ nextSchedule \in Nat /\ \A s \in schedules : s.id < nextSchedule
  /\ groups \subseteq Group /\ connected \subseteq Screen /\ defs = [c \in Screen |-> defs[c]]
ArgumentsOK ==
  \A h \in Handlers : Open(h) =>
    /\ req[h].op \in Creates => req[h].arg[1] \in Playlist /\ req[h].arg[2] \in Targets
    /\ req[h].op = "change" => req[h].arg[1] \in Targets /\ req[h].arg[2] \in Nat
    /\ req[h].op \in {"join", "leave"} => req[h].arg[1] \in Screen
APush == [by : Handlers, to : Screen, at : {"schedules", "groups"}, rows : SUBSET Row]
PushesOK == pushes \subseteq APush /\ \A p \in pushes : req[p.by].at = "push"
Sequential == backend = "sqlite" => \A g, h \in Handlers : Open(g) /\ Open(h) => g = h

\* A request that began while all screens were up to date, and is alone: until
\* it has written they still are; then all are but those it is yet to tell,
\* who are those its pushes are for, those of the schedules in its list, and,
\* before it has read its row again, those the row is for now.
Telling(h) == Open(h) /\ Isolated(h) /\ req[h].sound /\ req[h].op \in Tellers
Unwritten == {"check", "insert", "previous", "write", "row"}
IsToBeTold(r, c) ==
  \/ \E p \in pushes : p.to = c
  \/ \E i \in DOMAIN r.list : c \in getClientsForSchedule(r.list[i])
  \/ r.at = "reread" /\ \E s \in RowsOf(r.on) : c \in getClientsForSchedule(s)
IsCurrent(c) == defs[c] = getSchedulesForClient(c)
ListKept(r) ==
  /\ r.list \in Seq(Row)
  /\ r.at = "clients" => r.list # <<>>
  /\ (r.op = "change" /\ r.at = "write") \/ (r.op = "cancel" /\ r.at = "row") =>
       \E s \in Row : r.list = <<s>> /\ RowsOf(r.on) = {s}
OthersCurrent(r) ==
  /\ r.at \in Unwritten => ScreensCurrent
  /\ r.at \notin Unwritten => \A c \in connected : IsToBeTold(r, c) \/ IsCurrent(c)
Informed(r) == ListKept(r) /\ OthersCurrent(r) /\ \A p \in pushes : p.at = "groups" => p.rows = schedules

DefinitionsOK ==
  /\ TablesOK /\ ArgumentsOK /\ PushesOK /\ Sequential
  /\ \A h \in Handlers : Open(h) /\ req[h].alone => Others(h) = {}
  /\ \A h \in Handlers : Telling(h) => Informed(req[h])
ToldInv == KindsApart /\ (part = "definitions" => DefinitionsOK)

(***************************************************************************)
(* Steps of the requests about definitions                                 *)
(***************************************************************************)
LEMMA SequenceFacts ==
  ASSUME NEW S
  PROVE  /\ <<>> \in Seq(S)
         /\ \A x \in S : <<x>> \in Seq(S)
         /\ \A q \in Seq(S), x \in S :
              /\ Append(q, x) \in Seq(S) /\ Append(q, x) # <<>>
              /\ \A i \in DOMAIN q : i \in DOMAIN Append(q, x) /\ Append(q, x)[i] = q[i]
              /\ \E i \in DOMAIN Append(q, x) : Append(q, x)[i] = x
         /\ \A q \in Seq(S) : q # <<>> =>
              /\ Head(q) \in S /\ Tail(q) \in Seq(S) /\ DOMAIN q # {}
              /\ \A i \in DOMAIN q : q[i] = Head(q) \/ \E j \in DOMAIN Tail(q) : Tail(q)[j] = q[i]
<1>1. <<>> \in Seq(S)
  OBVIOUS
<1>2. \A x \in S : <<x>> \in Seq(S)
  OBVIOUS
<1>3. ASSUME NEW q \in Seq(S), NEW x \in S
      PROVE  /\ Append(q, x) \in Seq(S) /\ Append(q, x) # <<>>
             /\ \A i \in DOMAIN q : i \in DOMAIN Append(q, x) /\ Append(q, x)[i] = q[i]
             /\ \E i \in DOMAIN Append(q, x) : Append(q, x)[i] = x
  <2>1. DOMAIN Append(q, x) = 1..(Len(q) + 1) /\ DOMAIN q = 1..Len(q) /\ Len(q) \in Nat
    OBVIOUS
  <2>2. Len(q) + 1 \in DOMAIN Append(q, x) /\ Append(q, x)[Len(q) + 1] = x
    BY <2>1
  <2>3. Append(q, x) \in Seq(S)
    OBVIOUS
  <2>4. Append(q, x) # <<>>
    BY <2>1, <2>2
  <2>5. \A i \in DOMAIN q : i \in DOMAIN Append(q, x) /\ Append(q, x)[i] = q[i]
    BY <2>1
  <2> QED
    BY <2>2, <2>3, <2>4, <2>5
<1>4. ASSUME NEW q \in Seq(S), q # <<>>
      PROVE  /\ Head(q) \in S /\ Tail(q) \in Seq(S) /\ DOMAIN q # {}
             /\ \A i \in DOMAIN q : q[i] = Head(q) \/ \E j \in DOMAIN Tail(q) : Tail(q)[j] = q[i]
  <2>1. Len(q) \in Nat \ {0} /\ DOMAIN q = 1..Len(q) /\ Head(q) = q[1] /\ q[1] \in S
    BY <1>4
  <2>2. Tail(q) \in Seq(S) /\ DOMAIN Tail(q) = 1..(Len(q) - 1)
    BY <1>4
  <2>3. ASSUME NEW i \in DOMAIN q, i # 1
        PROVE  i - 1 \in DOMAIN Tail(q) /\ Tail(q)[i - 1] = q[i]
    BY <1>4, <2>1, <2>2, <2>3
  <2>4. 1 \in DOMAIN q
    BY <2>1
  <2>5. \A i \in DOMAIN q : q[i] = Head(q) \/ \E j \in DOMAIN Tail(q) : Tail(q)[j] = q[i]
    BY <2>1, <2>3
  <2> QED
    BY <2>1, <2>2, <2>4, <2>5
<1> QED
  BY <1>1, <1>2, <1>3, <1>4

\* the screens that a schedule applies to are among those it is for
LEMMA Concerned ==
  ASSUME NEW c \in Screen, NEW s \in Row, groups \subseteq Group, s.to \in {c, Everyone} \cup GroupsOf(c)
  PROVE  c \in getClientsForSchedule(s)
<1>1. CASE s.to = c
  BY <1>1 DEF getClientsForSchedule
<1>2. CASE s.to = Everyone
  BY <1>2, DefinitionsAssumption DEF getClientsForSchedule
<1>3. CASE s.to \in GroupsOf(c)
  <2>1. s.to \in Group /\ s.to \notin Screen /\ <<s.to, c>> \in members
    BY <1>3, DefinitionsAssumption DEF GroupsOf
  <2> QED
    BY <2>1 DEF getClientsForSchedule, MembersOf
<1> QED
  BY <1>1, <1>2, <1>3

\* what a request goes on as
Same(q, r) ==
  /\ r.op = q.op /\ r.on = q.on /\ r.arg = q.arg /\ r.alone = q.alone /\ r.sound = q.sound

LEMMA GoesOn ==
  ASSUME KindsApart, NEW h \in Handlers, NEW r, GoOn(h, r), ARequest(r), r.op = req[h].op, part' = part,
         part = "definitions" => r.at \in Places \cup Answered
  PROVE  /\ KindsApart' /\ backend' = backend
         /\ \A g \in Handlers \ {h} : req'[g] = req[g]
         /\ r.at \notin Answered => req'[h] = r
         /\ req'[h].op = r.op /\ req'[h].at = r.at
<1> DEFINE new == IF r.at \in Answered THEN [NoRequest EXCEPT !.op = r.op, !.at = r.at] ELSE r
<1>1. /\ req' = [req EXCEPT ![h] = new] /\ backend' = backend
      /\ req = [g \in Handlers |-> req[g]]
  BY DEF GoOn, KindsApart
<1>2. ARequest(new) /\ new.op = r.op /\ new.at = r.at /\ (r.at \notin Answered => new = r)
  BY DEF ARequest, NoRequest
<1> HIDE DEF new
<1>3. req'[h] = new /\ (\A g \in Handlers \ {h} : req'[g] = req[g]) /\ req' = [g \in Handlers |-> req'[g]]
  BY <1>1
<1>4. \A g \in Handlers : ARequest(req'[g]) /\ req'[g].op = req[g].op
                          /\ (req'[g].at = req[g].at \/ (g = h /\ req'[g].at = r.at))
  <2>1. ASSUME NEW g \in Handlers \ {h}
        PROVE  ARequest(req'[g]) /\ req'[g].op = req[g].op /\ req'[g].at = req[g].at
    BY <1>3, <2>1 DEF KindsApart
  <2>2. ARequest(req'[h]) /\ req'[h].op = req[h].op /\ req'[h].at = r.at
    BY <1>2, <1>3
  <2> QED
    BY <2>1, <2>2
<1>5. KindsApart'
  BY <1>3, <1>4 DEF KindsApart
<1> QED
  BY <1>1, <1>2, <1>3, <1>5

\* a statement of a request, in a part that is not about definitions
LEMMA ElsewhereGoesOn ==
  ASSUME ToldInv, part # "definitions", part' = part, NEW h \in Handlers, NEW r, GoOn(h, r), ARequest(r),
         r.op = req[h].op
  PROVE  ToldInv'
<1>1. KindsApart'
  BY GoesOn DEF ToldInv
<1> QED
  BY <1>1 DEF ToldInv

\* a statement of a request about definitions
LEMMA Going ==
  ASSUME ToldInv, part = "definitions", part' = part, NEW h \in Handlers, Open(h), NEW r, GoOn(h, r),
         ARequest(r), Same(req[h], r), r.at \in Places \cup Answered,
         TablesOK', pushes' \subseteq APush,
         \A p \in pushes' : p.by = h => r.at = "push",
         \A p \in pushes' : p.by # h => \E q \in pushes : q.by = p.by,
         Telling(h) /\ r.at \notin Answered => Informed(r)'
  PROVE  /\ ToldInv'
         /\ \A g \in Handlers \ {h} : req'[g] = req[g]
         /\ req'[h].at = r.at
<1>1. /\ KindsApart' /\ backend' = backend
      /\ \A g \in Handlers \ {h} : req'[g] = req[g]
      /\ r.at \notin Answered => req'[h] = r
      /\ req'[h].op = r.op /\ req'[h].at = r.at
  <2>1. KindsApart /\ r.op = req[h].op
    BY DEF ToldInv, Same
  <2> QED
    BY <2>1, GoesOn
<1>2. DefinitionsOK
  BY DEF ToldInv
<1>3. \A g \in Handlers : Open(g)' => Open(g) /\ (g # h \/ r.at \notin Answered)
  BY <1>1 DEF Open
<1>4. ArgumentsOK'
  BY <1>1, <1>2, <1>3 DEF DefinitionsOK, ArgumentsOK, Same
<1>5. PushesOK'
  <2>1. ASSUME NEW p \in pushes'
        PROVE  req'[p.by].at = "push"
    <3>1. p.by \in Handlers
      BY DEF APush
    <3>2. CASE p.by = h
      BY <1>1, <3>2
    <3>3. CASE p.by # h
      BY <1>1, <1>2, <3>1, <3>3 DEF DefinitionsOK, PushesOK
    <3> QED
      BY <3>2, <3>3
  <2> QED
    BY <2>1 DEF PushesOK
<1>6. Sequential'
  BY <1>1, <1>2, <1>3 DEF DefinitionsOK, Sequential
<1>7. ASSUME NEW g \in Handlers, Open(g)', req'[g].alone
      PROVE  Others(g)' = {}
  <2>1. Open(g) /\ req[g].alone
    BY <1>1, <1>3, <1>7 DEF Same
  <2>2. Others(g) = {}
    BY <1>2, <2>1 DEF DefinitionsOK
  <2> QED
    BY <1>3, <2>2 DEF Others
<1>8. ASSUME NEW g \in Handlers, Telling(g)'
      PROVE  Informed(req[g])'
  <2>1. Open(g) /\ Telling(g) /\ (g # h \/ r.at \notin Answered)
    BY <1>1, <1>3, <1>8 DEF Telling, Isolated, Same
  <2>2. g = h
    <3>1. CASE req[g].alone
      BY <1>2, <2>1, <3>1 DEF DefinitionsOK, Others
    <3>2. CASE backend = "sqlite"
      BY <1>2, <2>1, <3>2 DEF DefinitionsOK, Sequential
    <3> QED
      BY <2>1, <3>1, <3>2 DEF Telling, Isolated
  <2>3. req'[g] = r /\ Informed(r)'
    BY <1>1, <2>1, <2>2
  <2> QED
    BY <2>3 DEF Informed, OthersCurrent, ListKept, IsToBeTold
<1> QED
  BY <1>1, <1>4, <1>5, <1>6, <1>7, <1>8 DEF ToldInv, DefinitionsOK

\* what leaves tables, connections and pushes alone
LEMMA Reads ==
  ASSUME ToldInv, part = "definitions", part' = part, NEW h \in Handlers, Open(h), NEW r, GoOn(h, r),
         ARequest(r), Same(req[h], r), r.at \in Places \cup Answered, UNCHANGED <<tables, pushVars>>,
         r.at # "push" => \A p \in pushes : p.by # h,
         Telling(h) /\ r.at \notin Answered => Informed(r)
  PROVE  /\ ToldInv'
         /\ \A g \in Handlers \ {h} : req'[g] = req[g]
         /\ req'[h].at = r.at
<1>1. DefinitionsOK
  BY DEF ToldInv
<1>2. UNCHANGED <<schedules, nextSchedule, groups, members, connected, defs, pushes>>
  BY DEF tables, pushVars
<1>3. TablesOK'
  BY <1>1, <1>2 DEF DefinitionsOK, TablesOK
<1>4. Informed(r) => Informed(r)'
  <2>1. \A c : GroupsOf(c)' = GroupsOf(c)
    BY <1>2 DEF GroupsOf
  <2>2. \A c : getSchedulesForClient(c)' = getSchedulesForClient(c)
    BY <1>2, <2>1 DEF getSchedulesForClient, Applying
  <2>3. \A s : getClientsForSchedule(s)' = getClientsForSchedule(s)
    BY <1>2 DEF getClientsForSchedule, MembersOf
  <2>4. \A id : RowsOf(id)' = RowsOf(id)
    BY <1>2 DEF RowsOf
  <2>5. ScreensCurrent' <=> ScreensCurrent
    BY <1>2, <2>2 DEF ScreensCurrent
  <2>6. \A c : (IsCurrent(c)' <=> IsCurrent(c)) /\ (IsToBeTold(r, c)' <=> IsToBeTold(r, c))
    BY <1>2, <2>2, <2>3, <2>4 DEF IsCurrent, IsToBeTold
  <2>7. ListKept(r)' <=> ListKept(r)
    BY <2>4 DEF ListKept
  <2> QED
    BY <1>2, <2>5, <2>6, <2>7 DEF Informed, OthersCurrent
<1>5. pushes' \subseteq APush /\ \A p \in pushes' : p \in pushes
  BY <1>1, <1>2 DEF DefinitionsOK, PushesOK
<1> QED
  BY <1>3, <1>4, <1>5, Going

LEMMA NoPushes ==
  ASSUME DefinitionsOK, NEW h \in Handlers, req[h].at # "push"
  PROVE  /\ \A p \in pushes : p.by # h
         /\ Telling(h) => pushes = {}
<1>1. \A p \in pushes : p.by \in Handlers /\ p.by # h /\ Open(p.by)
  BY DEF DefinitionsOK, PushesOK, APush, Open, Answered
<1>2. ASSUME Telling(h)
      PROVE  pushes = {}
  <2>1. \A g \in Handlers \ {h} : ~Open(g)
    BY <1>2 DEF Telling, Isolated, DefinitionsOK, Sequential, Others
  <2> QED
    BY <1>1, <2>1
<1> QED
  BY <1>1, <1>2

\* a change that is not about the schedules for a screen
LEMMA Unconcerned ==
  ASSUME NEW c \in Screen, groups \subseteq Group, UNCHANGED <<groups, members>>,
         schedules \subseteq Row, schedules' \subseteq Row,
         \A s \in (schedules \ schedules') \cup (schedules' \ schedules) : c \notin getClientsForSchedule(s)
  PROVE  getSchedulesForClient(c)' = getSchedulesForClient(c)
<1>1. GroupsOf(c)' = GroupsOf(c)
  BY DEF GroupsOf
<1>2. \A s \in (schedules \ schedules') \cup (schedules' \ schedules) : s.to \notin {c, Everyone} \cup GroupsOf(c)
  BY Concerned
<1>3. ASSUME NEW s
      PROVE  s \in getSchedulesForClient(c)' <=> s \in getSchedulesForClient(c)
  BY <1>1, <1>2 DEF getSchedulesForClient, Applying
<1> QED
  BY <1>3

LEMMA SameClients ==
  ASSUME UNCHANGED members
  PROVE  \A s : getClientsForSchedule(s)' = getClientsForSchedule(s)
BY DEF getClientsForSchedule, MembersOf

LEMMA ToldPushed ==
  ASSUME ToldInv, part = "definitions", part' = part, NEW h \in Handlers, Pushed(h)
  PROVE  /\ ToldInv'
         /\ \A g \in Handlers \ {h} : req'[g] = req[g]
         /\ Telling(h) /\ req'[h].at = "ok" => ScreensCurrent'
<1>1. DefinitionsOK /\ ARequest(req[h])
  BY DEF ToldInv, KindsApart
<1>2. /\ req[h].at = "push" /\ Open(h) /\ UNCHANGED <<tables, pushVars>>
      /\ \A p \in pushes : p.by # h
  BY DEF Pushed, At, Open, Answered
<1>3. PICK at : /\ at = (IF req[h].list = <<>> THEN "ok" ELSE "clients")
                /\ GoOn(h, [req[h] EXCEPT !.at = at])
  BY DEF Pushed
<1>4. PICK r : r = [req[h] EXCEPT !.at = at]
  OBVIOUS
<1>5. GoOn(h, r) /\ ARequest(r) /\ Same(req[h], r) /\ r.at = at /\ r.list = req[h].list
  BY <1>1, <1>3, <1>4 DEF ARequest, Same
<1>6. r.at \in Places \cup Answered
  BY <1>3, <1>5 DEF Places, Answered
<1>7. ASSUME Telling(h)
      PROVE  \A c \in connected : IsToBeTold(req[h], c) \/ IsCurrent(c)
  BY <1>1, <1>2, <1>7 DEF DefinitionsOK, Informed, OthersCurrent, Unwritten
<1>8. ASSUME Telling(h), r.at \notin Answered
      PROVE  Informed(r)
  <2>1. r.at = "clients" /\ r.list # <<>>
    BY <1>3, <1>5, <1>8 DEF Answered
  <2>2. Informed(req[h])
    BY <1>1, <1>8 DEF DefinitionsOK
  <2>3. ListKept(r)
    BY <1>5, <2>1, <2>2 DEF Informed, ListKept
  <2>4. \A c : IsToBeTold(req[h], c) => IsToBeTold(r, c)
    BY <1>2, <1>5, <2>1 DEF IsToBeTold
  <2> QED
    BY <1>7, <1>8, <2>1, <2>2, <2>3, <2>4 DEF Informed, OthersCurrent, Unwritten
<1>9. ToldInv' /\ (\A g \in Handlers \ {h} : req'[g] = req[g]) /\ req'[h].at = r.at
  BY <1>1, <1>2, <1>5, <1>6, <1>8, Reads
<1>10. ASSUME Telling(h), req'[h].at = "ok"
       PROVE  ScreensCurrent'
  <2>1. req[h].list = <<>>
    BY <1>3, <1>5, <1>9, <1>10
  <2>2. pushes = {}
    <3>1. \A g \in Handlers \ {h} : ~Open(g)
      BY <1>1, <1>10 DEF Telling, Isolated, DefinitionsOK, Sequential, Others
    <3>2. \A p \in pushes : p.by \in Handlers /\ Open(p.by)
      BY <1>1 DEF DefinitionsOK, PushesOK, APush, Open, Answered
    <3> QED
      BY <1>2, <3>1, <3>2
  <2>3. DOMAIN req[h].list = {}
    BY <2>1
  <2>4. \A c : ~IsToBeTold(req[h], c)
    BY <1>2, <2>2, <2>3 DEF IsToBeTold
  <2>5. ScreensCurrent
    BY <1>7, <1>10, <2>4 DEF ScreensCurrent, IsCurrent
  <2>6. connected' = connected /\ \A c : defs'[c] = defs[c] /\ getSchedulesForClient(c)' = getSchedulesForClient(c)
    BY <1>2 DEF tables, pushVars, getSchedulesForClient, Applying, GroupsOf
  <2> QED
    BY <2>5, <2>6 DEF ScreensCurrent
<1> QED
  BY <1>9, <1>10

LEMMA ToldAffected ==
  ASSUME ToldInv, part = "definitions", part' = part, NEW h \in Handlers, PushToAffected(h)
  PROVE  ToldInv' /\ (\A g \in Handlers \ {h} : req'[g] = req[g]) /\ req'[h].at = "push"
<1>1. DefinitionsOK /\ ARequest(req[h])
  BY DEF ToldInv, KindsApart
<1>2. /\ req[h].at = "clients" /\ Open(h) /\ UNCHANGED <<tables, connected, defs>>
      /\ GoOn(h, [req[h] EXCEPT !.list = Tail(@), !.at = "push"])
  BY DEF PushToAffected, At, Open, Answered
<1>3. PICK s, list : s = Head(req[h].list) /\ list = Tail(req[h].list)
  OBVIOUS
<1>4. pushes' = pushes \cup {[by |-> h, to |-> c, at |-> "schedules", rows |-> {}] :
                               c \in getClientsForSchedule(s) \cap connected}
  BY <1>3 DEF PushToAffected, sendSchedules
<1>5. PICK r : r = [req[h] EXCEPT !.list = list, !.at = "push"]
  OBVIOUS
<1>6. GoOn(h, r) /\ ARequest(r) /\ Same(req[h], r) /\ r.at = "push" /\ r.list = list
  <2>1. GoOn(h, r)
    BY <1>2, <1>3, <1>5
  <2> QED
    BY <1>1, <1>5, <2>1 DEF ARequest, Same
<1>7. UNCHANGED <<schedules, nextSchedule, groups, members, connected, defs>>
  BY <1>2 DEF tables
<1>8. TablesOK'
  BY <1>1, <1>7 DEF DefinitionsOK, TablesOK
<1>9. pushes' \subseteq APush /\ \A p \in pushes' : p \in pushes \/ (p.by = h /\ p.at = "schedules")
  BY <1>1, <1>4 DEF DefinitionsOK, PushesOK, TablesOK, APush
<1>10. ASSUME Telling(h)
       PROVE  Informed(r)'
  <2>1. Informed(req[h]) /\ ListKept(req[h]) /\ req[h].list # <<>>
    BY <1>1, <1>2, <1>10 DEF DefinitionsOK, Informed, ListKept
  <2>2. req[h].list \in Seq(Row)
    BY <2>1 DEF ListKept
  <2>3. /\ list \in Seq(Row)
        /\ \A i \in DOMAIN req[h].list : req[h].list[i] = s \/ \E j \in DOMAIN list : list[j] = req[h].list[i]
    BY <1>3, <2>1, <2>2, SequenceFacts
  <2>4. ListKept(r)'
    BY <1>6, <2>3 DEF ListKept
  <2>5. \A x : getClientsForSchedule(x)' = getClientsForSchedule(x)
    BY <1>7, SameClients
  <2>6. \A c : IsCurrent(c)' <=> IsCurrent(c)
    BY <1>7 DEF IsCurrent, getSchedulesForClient, Applying, GroupsOf
  <2>7. ASSUME NEW c \in connected, IsToBeTold(req[h], c)
        PROVE  IsToBeTold(r, c)'
    <3>1. CASE \E p \in pushes : p.to = c
      BY <1>4, <3>1 DEF IsToBeTold
    <3>2. CASE c \in getClientsForSchedule(s)
      <4>1. [by |-> h, to |-> c, at |-> "schedules", rows |-> {}] \in pushes'
        BY <1>4, <3>2
      <4> QED
        BY <4>1 DEF IsToBeTold
    <3>3. CASE \E j \in DOMAIN list : c \in getClientsForSchedule(list[j])
      BY <1>6, <2>5, <3>3 DEF IsToBeTold
    <3> QED
      BY <1>2, <2>3, <2>7, <3>1, <3>2, <3>3 DEF IsToBeTold
  <2>8. \A c \in connected : IsToBeTold(req[h], c) \/ IsCurrent(c)
    BY <1>2, <2>1 DEF Informed, OthersCurrent, Unwritten
  <2>9. \A p \in pushes' : p.at = "groups" => p.rows = schedules
    BY <1>9, <2>1 DEF Informed
  <2> QED
    BY <1>6, <1>7, <2>4, <2>6, <2>7, <2>8, <2>9 DEF Informed, OthersCurrent, Unwritten
<1>11. r.at \in Places \cup Answered /\ \A p \in pushes' : p.by = h => r.at = "push"
  BY <1>6 DEF Places
<1>12. \A p \in pushes' : p.by # h => \E q \in pushes : q.by = p.by
  BY <1>9
<1> QED
  BY <1>2, <1>6, <1>8, <1>9, <1>10, <1>11, <1>12, Going

\* a statement of a request that goes on without a push
LEMMA GoesTo ==
  ASSUME ToldInv, part = "definitions", part' = part, NEW h \in Handlers, Open(h), req[h].at # "push",
         NEW r, GoOn(h, r), ARequest(r), Same(req[h], r), r.at \in (Places \ {"push"}) \cup Answered,
         UNCHANGED pushes, TablesOK',
         Telling(h) /\ r.at \notin Answered /\ Informed(req[h]) => ListKept(r)' /\ OthersCurrent(r)'
  PROVE  ToldInv' /\ (\A g \in Handlers \ {h} : req'[g] = req[g]) /\ req'[h].at = r.at
<1>1. DefinitionsOK
  BY DEF ToldInv
<1>2. (\A p \in pushes : p.by # h) /\ (Telling(h) => pushes = {})
  BY <1>1, NoPushes
<1>3. ASSUME Telling(h), r.at \notin Answered
      PROVE  Informed(r)'
  <2>1. Informed(req[h]) /\ pushes' = {} /\ pushes = {}
    BY <1>1, <1>2, <1>3 DEF DefinitionsOK
  <2> QED
    BY <1>3, <2>1 DEF Informed
<1>4. pushes' \subseteq APush /\ r.at \in Places \cup Answered
  BY <1>1 DEF DefinitionsOK, PushesOK
<1> QED
  BY <1>1, <1>2, <1>3, <1>4, Going

\* a statement that only reads
LEMMA ReadsTo ==
  ASSUME ToldInv, part = "definitions", part' = part, NEW h \in Handlers, NEW at,
         req[h].at \in Places \ {"push"}, at \in (Places \ {"push"}) \cup Answered,
         GoTo(h, at), UNCHANGED <<tables, pushVars>>,
         at \notin Answered =>
           /\ req[h].at \in Unwritten /\ at \in Unwritten
           /\ ~(req[h].op = "change" /\ at = "write") /\ ~(req[h].op = "cancel" /\ at = "row")
  PROVE  ToldInv' /\ (\A g \in Handlers \ {h} : req'[g] = req[g]) /\ req'[h].at = at
<1>1. DefinitionsOK /\ ARequest(req[h]) /\ Open(h)
  BY DEF ToldInv, KindsApart, Open, Places, Answered
<1>2. PICK r : r = [req[h] EXCEPT !.at = at]
  OBVIOUS
<1>3. GoOn(h, r) /\ ARequest(r) /\ Same(req[h], r) /\ r.at = at /\ r.list = req[h].list
  <2>1. GoOn(h, r)
    BY <1>2 DEF GoTo
  <2> QED
    BY <1>1, <1>2, <2>1 DEF ARequest, Same
<1>4. r.at # "push" => \A p \in pushes : p.by # h
  BY <1>1, NoPushes
<1>5. ASSUME Telling(h), r.at \notin Answered
      PROVE  Informed(r)
  <2>1. Informed(req[h])
    BY <1>1, <1>5 DEF DefinitionsOK
  <2>2. ListKept(r)
    BY <1>3, <1>5, <2>1 DEF Informed, ListKept, Same, Unwritten
  <2> QED
    BY <1>3, <1>5, <2>1, <2>2 DEF Informed, OthersCurrent
<1> QED
  BY <1>1, <1>3, <1>4, <1>5, Reads

LEMMA ToldChecked ==
  ASSUME ToldInv, part = "definitions", part' = part, NEW h \in Handlers, CheckTargets(h) \/ CheckMember(h)
  PROVE  ToldInv' /\ (\A g \in Handlers \ {h} : req'[g] = req[g]) /\ req'[h].at # "ok"
<1>1. PICK at \in {"insert", "error"} : GoTo(h, at) /\ UNCHANGED <<tables, pushVars>> /\ req[h].at = "check"
  BY DEF CheckTargets, CheckMember, At
<1>2. /\ req[h].at \in Places \ {"push"} /\ at \in (Places \ {"push"}) \cup Answered
      /\ at \notin Answered => req[h].at \in Unwritten /\ at \in Unwritten /\ at = "insert"
  BY <1>1 DEF Places, Answered, Unwritten
<1> QED
  BY <1>1, <1>2, ReadsTo

LEMMA ToldInserted ==
  ASSUME ToldInv, part = "definitions", part' = part, NEW h \in Handlers, InsertSchedule(h)
  PROVE  /\ ToldInv' /\ (\A g \in Handlers \ {h} : req'[g] = req[g])
         /\ req[h].op \in Tellers => req'[h].at # "ok"
<1>1. DefinitionsOK /\ ARequest(req[h]) /\ Open(h)
      /\ req[h].op \in Creates /\ req[h].at = "insert" /\ req[h].at \in Places \ {"push"}
  BY DEF ToldInv, KindsApart, InsertSchedule, At, Creates, Open, Answered, Places
<1>2. CASE GoTo(h, "error") /\ UNCHANGED <<schedules, nextSchedule>>
  <2>1. UNCHANGED <<tables, pushVars>>
    BY <1>2 DEF InsertSchedule, tables
  <2>2. "error" \in Answered /\ part = "definitions"
    BY DEF Answered
  <2>3. ToldInv' /\ (\A g \in Handlers \ {h} : req'[g] = req[g]) /\ req'[h].at = "error"
    BY <1>1, <1>2, <2>1, <2>2, ReadsTo
  <2> QED
    BY <2>3
<1>3. CASE ~(GoTo(h, "error") /\ UNCHANGED <<schedules, nextSchedule>>)
  <2>1. PICK s, at : /\ s = NewSchedule(req[h])
                     /\ at = (IF backend = "mssql" THEN "error" ELSE IF req[h].op = "create" THEN "clients" ELSE "ok")
    OBVIOUS
  <2>2. /\ schedules' = schedules \cup {s} /\ nextSchedule' = nextSchedule + 1
        /\ GoOn(h, [req[h] EXCEPT !.list = <<s>>, !.at = at])
        /\ UNCHANGED <<groups, members, pushVars>>
    BY <1>3, <2>1 DEF InsertSchedule
  <2>3. PICK list, r : list = <<s>> /\ r = [req[h] EXCEPT !.list = list, !.at = at]
    OBVIOUS
  <2>4. s \in Row /\ s.id = nextSchedule
    BY <1>1, <2>1 DEF NewSchedule, Row, DefinitionsOK, TablesOK, ArgumentsOK
  <2>5. UNCHANGED <<groups, members, connected, defs, pushes>>
    BY <2>2 DEF pushVars
  <2>6. TablesOK'
    <3>1. Rows(schedules) /\ nextSchedule \in Nat /\ (\A x \in schedules : x.id \in Nat /\ x.id < nextSchedule)
      BY <1>1 DEF DefinitionsOK, TablesOK, Rows, Row
    <3>2. Rows(schedules)'
      BY <2>2, <2>4, <3>1 DEF Rows
    <3>3. nextSchedule' \in Nat /\ \A x \in schedules' : x.id < nextSchedule'
      BY <2>2, <2>4, <3>1
    <3> QED
      BY <1>1, <2>5, <3>2, <3>3 DEF DefinitionsOK, TablesOK
  <2>7. /\ at \in (Places \ {"push"}) \cup Answered
        /\ at \notin Answered => at = "clients"
    BY <2>1 DEF Places, Answered
  <2>8. GoOn(h, r) /\ ARequest(r) /\ Same(req[h], r) /\ r.at = at /\ r.list = list
    <3>1. GoOn(h, r)
      BY <2>2, <2>3
    <3> QED
      BY <1>1, <2>3, <3>1 DEF ARequest, Same
  <2>9. ASSUME Telling(h), r.at \notin Answered, Informed(req[h])
        PROVE  ListKept(r)' /\ OthersCurrent(r)'
    <3>1. r.at = "clients" /\ ScreensCurrent
      BY <1>1, <2>7, <2>8, <2>9 DEF Informed, OthersCurrent, Unwritten
    <3>2. ListKept(r)'
      <4>1. list \in Seq(Row) /\ list # <<>>
        BY <2>3, <2>4, SequenceFacts
      <4> QED
        BY <2>8, <3>1, <4>1 DEF ListKept
    <3>3. ASSUME NEW c \in connected, c \notin getClientsForSchedule(s)
          PROVE  IsCurrent(c)'
      <4>1. c \in Screen /\ groups \subseteq Group /\ schedules \subseteq Row /\ schedules' \subseteq Row
        BY <1>1, <2>6 DEF DefinitionsOK, TablesOK, Rows
      <4>2. \A x \in (schedules \ schedules') \cup (schedules' \ schedules) : c \notin getClientsForSchedule(x)
        BY <2>2, <3>3
      <4>3. getSchedulesForClient(c)' = getSchedulesForClient(c)
        BY <2>5, <4>1, <4>2, Unconcerned
      <4> QED
        BY <2>5, <3>1, <3>3, <4>3 DEF ScreensCurrent, IsCurrent
    <3>4. ASSUME NEW c, c \in getClientsForSchedule(s)
          PROVE  IsToBeTold(r, c)'
      <4>1. c \in getClientsForSchedule(s)'
        BY <2>5, <3>4, SameClients
      <4>2. 1 \in DOMAIN r.list /\ r.list[1] = s
        BY <2>3, <2>8
      <4> QED
        BY <4>1, <4>2 DEF IsToBeTold
    <3> QED
      BY <2>5, <3>1, <3>2, <3>3, <3>4 DEF OthersCurrent, Unwritten
  <2>10. /\ ToldInv' /\ (\A g \in Handlers \ {h} : req'[g] = req[g]) /\ req'[h].at = at
    <3>1. req[h].at # "push" /\ r.at \in (Places \ {"push"}) \cup Answered
      BY <1>1, <2>7, <2>8
    <3> QED
      BY <1>1, <2>5, <2>6, <2>8, <2>9, <3>1, GoesTo
  <2> QED
    BY <1>1, <2>1, <2>10 DEF Creates, Tellers
<1> QED
  BY <1>2, <1>3

LEMMA ToldPrevious ==
  ASSUME ToldInv, part = "definitions", part' = part, NEW h \in Handlers, Previous(h)
  PROVE  ToldInv' /\ (\A g \in Handlers \ {h} : req'[g] = req[g]) /\ req'[h].at # "ok"
<1>1. DefinitionsOK /\ ARequest(req[h]) /\ req[h].op \in {"change", "cancel"} /\ req[h].at = "previous"
      /\ Open(h) /\ UNCHANGED <<tables, pushVars>> /\ req[h].at \in Places \ {"push"}
  BY DEF ToldInv, KindsApart, Previous, At, Open, Answered, Places
<1>2. CASE GoTo(h, "error")
  <2>1. "error" \in Answered /\ "error" # "ok"
    BY DEF Answered
  <2>2. ToldInv' /\ (\A g \in Handlers \ {h} : req'[g] = req[g]) /\ req'[h].at = "error"
    BY <1>1, <1>2, <2>1, ReadsTo
  <2> QED
    BY <2>2
<1>3. CASE ~GoTo(h, "error")
  <2>1. PICK at : at = (IF req[h].op = "change" THEN "write" ELSE "row")
    OBVIOUS
  <2>2. PICK s \in RowsOf(req[h].on) : GoOn(h, [req[h] EXCEPT !.list = <<s>>, !.at = at])
    BY <1>3, <2>1 DEF Previous
  <2>3. PICK list, r : list = <<s>> /\ r = [req[h] EXCEPT !.list = list, !.at = at]
    OBVIOUS
  <2>4. GoOn(h, r) /\ ARequest(r) /\ Same(req[h], r) /\ r.at = at /\ r.list = list
    <3>1. GoOn(h, r)
      BY <2>2, <2>3
    <3> QED
      BY <1>1, <2>3, <3>1 DEF ARequest, Same
  <2>5. s \in Row /\ RowsOf(req[h].on) = {s}
    BY <1>1, <2>2 DEF RowsOf, DefinitionsOK, TablesOK, Rows
  <2>6. UNCHANGED <<schedules, nextSchedule, groups, members, connected, defs, pushes>>
    BY <1>1 DEF tables, pushVars
  <2>7. TablesOK'
    BY <1>1, <2>6 DEF DefinitionsOK, TablesOK
  <2>8. ASSUME Telling(h), r.at \notin Answered, Informed(req[h])
        PROVE  ListKept(r)' /\ OthersCurrent(r)'
    <3>1. r.at \in Unwritten /\ r.at # "clients" /\ ScreensCurrent
      BY <1>1, <2>1, <2>4, <2>8 DEF Informed, OthersCurrent, Unwritten
    <3>2. ScreensCurrent'
      BY <2>6, <3>1 DEF ScreensCurrent, getSchedulesForClient, Applying, GroupsOf
    <3>3. ListKept(r)'
      <4>1. list \in Seq(Row)
        BY <2>3, <2>5, SequenceFacts
      <4>2. RowsOf(r.on)' = {s} /\ r.list = <<s>>
        BY <2>3, <2>4, <2>5, <2>6 DEF RowsOf, Same
      <4> QED
        BY <2>5, <3>1, <4>1, <4>2 DEF ListKept
    <3> QED
      BY <3>1, <3>2, <3>3 DEF OthersCurrent
  <2>9. req[h].at # "push" /\ r.at \in (Places \ {"push"}) \cup Answered /\ at # "ok"
    BY <1>1, <2>1, <2>4 DEF Answered, Places
  <2>10. ToldInv' /\ (\A g \in Handlers \ {h} : req'[g] = req[g]) /\ req'[h].at = at
    BY <1>1, <2>4, <2>6, <2>7, <2>8, <2>9, GoesTo
  <2> QED
    BY <2>9, <2>10
<1> QED
  BY <1>2, <1>3

\* who is told of a schedule that was changed or deleted
LEMMA ToldWritten ==
  ASSUME ToldInv, part = "definitions", part' = part, NEW h \in Handlers, WriteSchedule(h)
  PROVE  ToldInv' /\ (\A g \in Handlers \ {h} : req'[g] = req[g]) /\ req'[h].at # "ok"
<1>1. DefinitionsOK /\ ARequest(req[h]) /\ Open(h)
      /\ req[h].op = "change" /\ req[h].at = "write" /\ req[h].at \in Places \ {"push"}
  BY DEF ToldInv, KindsApart, WriteSchedule, At, Open, Answered, Places
<1>2. CASE GoTo(h, "error") /\ UNCHANGED schedules
  <2>1. UNCHANGED <<tables, pushVars>> /\ "error" \in Answered
    BY <1>2 DEF WriteSchedule, tables, Answered
  <2>2. ToldInv' /\ (\A g \in Handlers \ {h} : req'[g] = req[g]) /\ req'[h].at = "error"
    BY <1>1, <1>2, <2>1, ReadsTo
  <2> QED
    BY <2>2
<1>3. CASE ~(GoTo(h, "error") /\ UNCHANGED schedules)
  <2>1. PICK on, to, prio : on = req[h].on /\ to = req[h].arg[1] /\ prio = req[h].arg[2]
    OBVIOUS
  <2> DEFINE new(s) == [s EXCEPT !.to = to, !.prio = prio]
  <2>2. /\ schedules' = {IF s.id = on THEN new(s) ELSE s : s \in schedules}
        /\ GoTo(h, "reread") /\ UNCHANGED <<groups, members, nextSchedule, pushVars>>
    BY <1>3, <2>1 DEF WriteSchedule
  <2>3. PICK r : r = [req[h] EXCEPT !.at = "reread"]
    OBVIOUS
  <2>4. GoOn(h, r) /\ ARequest(r) /\ Same(req[h], r) /\ r.at = "reread" /\ r.list = req[h].list
    <3>1. GoOn(h, r)
      BY <2>2, <2>3 DEF GoTo
    <3> QED
      BY <1>1, <2>3, <3>1 DEF ARequest, Same
  <2>5. UNCHANGED <<groups, members, nextSchedule, connected, defs, pushes>>
    BY <2>2 DEF pushVars
  <2>6. to \in Targets /\ prio \in Nat
    BY <1>1, <2>1 DEF DefinitionsOK, ArgumentsOK
  <2>7. \A s \in Row : new(s) \in Row /\ new(s).id = s.id
    BY <2>6 DEF Row
  <2> HIDE DEF new
  <2>8. TablesOK'
    <3>1. /\ Rows(schedules) /\ \A x \in schedules : x \in Row /\ x.id < nextSchedule
      BY <1>1 DEF DefinitionsOK, TablesOK, Rows
    <3>2. \A y \in schedules' : \E x \in schedules : y = (IF x.id = on THEN new(x) ELSE x)
                                                     /\ y.id = x.id /\ y \in Row
      BY <2>2, <2>7, <3>1
    <3>3. Rows(schedules)'
      BY <3>1, <3>2 DEF Rows
    <3>4. \A x \in schedules' : x.id < nextSchedule'
      BY <2>5, <3>1, <3>2
    <3> QED
      BY <1>1, <2>5, <3>3, <3>4 DEF DefinitionsOK, TablesOK
  <2>9. ASSUME Telling(h), Informed(req[h])
        PROVE  ListKept(r)' /\ OthersCurrent(r)'
    <3>1. ScreensCurrent /\ ListKept(req[h])
      BY <1>1, <2>9 DEF Informed, OthersCurrent, Unwritten
    <3>2. PICK s \in Row : req[h].list = <<s>> /\ RowsOf(on) = {s}
      BY <1>1, <2>1, <3>1 DEF ListKept
    <3>3. PICK t : t = new(s)
      OBVIOUS
    <3>4. s \in schedules /\ s.id = on /\ (\A x \in schedules : x.id = on => x = s)
      BY <3>2 DEF RowsOf
    <3>5. schedules' = (schedules \ {s}) \cup {t}
      BY <2>2, <3>3, <3>4
    <3>6. t \in schedules' /\ t.id = on
      BY <2>7, <3>3, <3>4, <3>5
    <3>7. ListKept(r)'
      BY <2>4, <3>1 DEF ListKept
    <3>8. ASSUME NEW c \in connected, c \in getClientsForSchedule(s) \/ c \in getClientsForSchedule(t)
          PROVE  IsToBeTold(r, c)'
      <4>1. c \in getClientsForSchedule(s)' \/ c \in getClientsForSchedule(t)'
        BY <2>5, <3>8, SameClients
      <4>2. 1 \in DOMAIN r.list /\ r.list[1] = s
        BY <2>4, <3>2
      <4>3. t \in RowsOf(r.on)'
        BY <2>1, <2>4, <3>6 DEF RowsOf, Same
      <4> QED
        BY <2>4, <4>1, <4>2, <4>3 DEF IsToBeTold
    <3>9. ASSUME NEW c \in connected, c \notin getClientsForSchedule(s), c \notin getClientsForSchedule(t)
          PROVE  IsCurrent(c)'
      <4>1. c \in Screen /\ groups \subseteq Group /\ schedules \subseteq Row /\ schedules' \subseteq Row
        BY <1>1, <2>8 DEF DefinitionsOK, TablesOK, Rows
      <4>2. \A x \in (schedules \ schedules') \cup (schedules' \ schedules) : c \notin getClientsForSchedule(x)
        BY <3>5, <3>9
      <4>3. getSchedulesForClient(c)' = getSchedulesForClient(c)
        BY <2>5, <4>1, <4>2, Unconcerned
      <4> QED
        BY <2>5, <3>1, <3>9, <4>3 DEF ScreensCurrent, IsCurrent
    <3> QED
      BY <2>4, <2>5, <3>7, <3>8, <3>9 DEF OthersCurrent, Unwritten
  <2>10. req[h].at # "push" /\ r.at \in (Places \ {"push"}) \cup Answered
    BY <1>1, <2>4 DEF Places
  <2>11. ToldInv' /\ (\A g \in Handlers \ {h} : req'[g] = req[g]) /\ req'[h].at = r.at
    BY <1>1, <2>4, <2>5, <2>8, <2>9, <2>10, GoesTo
  <2> QED
    BY <2>4, <2>11
<1> QED
  BY <1>2, <1>3

LEMMA ToldReread ==
  ASSUME ToldInv, part = "definitions", part' = part, NEW h \in Handlers, Reread(h)
  PROVE  ToldInv' /\ (\A g \in Handlers \ {h} : req'[g] = req[g]) /\ req'[h].at # "ok"
<1>1. DefinitionsOK /\ ARequest(req[h]) /\ req[h].op = "change" /\ req[h].at = "reread"
      /\ Open(h) /\ UNCHANGED <<tables, pushVars>> /\ req[h].at \in Places \ {"push"}
  BY DEF ToldInv, KindsApart, Reread, At, Open, Answered, Places
<1>2. CASE GoTo(h, "error")
  <2>1. "error" \in Answered /\ "error" # "ok"
    BY DEF Answered
  <2>2. ToldInv' /\ (\A g \in Handlers \ {h} : req'[g] = req[g]) /\ req'[h].at = "error"
    BY <1>1, <1>2, <2>1, ReadsTo
  <2> QED
    BY <2>2
<1>3. CASE ~GoTo(h, "error")
  <2>1. PICK s \in RowsOf(req[h].on) : GoOn(h, [req[h] EXCEPT !.list = Append(@, s), !.at = "clients"])
    BY <1>3 DEF Reread
  <2>2. PICK list, r : list = Append(req[h].list, s) /\ r = [req[h] EXCEPT !.list = list, !.at = "clients"]
    OBVIOUS
  <2>3. GoOn(h, r) /\ ARequest(r) /\ Same(req[h], r) /\ r.at = "clients" /\ r.list = list
    <3>1. GoOn(h, r)
      BY <2>1, <2>2
    <3> QED
      BY <1>1, <2>2, <3>1 DEF ARequest, Same
  <2>4. s \in Row /\ RowsOf(req[h].on) = {s}
    BY <1>1, <2>1 DEF RowsOf, DefinitionsOK, TablesOK, Rows
  <2>5. UNCHANGED <<schedules, nextSchedule, groups, members, connected, defs, pushes>>
    BY <1>1 DEF tables, pushVars
  <2>6. TablesOK'
    BY <1>1, <2>5 DEF DefinitionsOK, TablesOK
  <2>7. ASSUME Telling(h), Informed(req[h])
        PROVE  ListKept(r)' /\ OthersCurrent(r)'
    <3>1. req[h].list \in Seq(Row) /\ \A c \in connected : IsToBeTold(req[h], c) \/ IsCurrent(c)
      BY <1>1, <2>7 DEF Informed, OthersCurrent, ListKept, Unwritten
    <3>2. /\ list \in Seq(Row) /\ list # <<>>
          /\ \A i \in DOMAIN req[h].list : i \in DOMAIN list /\ list[i] = req[h].list[i]
          /\ \E i \in DOMAIN list : list[i] = s
      BY <2>2, <2>4, <3>1, SequenceFacts
    <3>3. ListKept(r)'
      BY <2>3, <3>2 DEF ListKept
    <3>4. \A x : getClientsForSchedule(x)' = getClientsForSchedule(x)
      BY <2>5, SameClients
    <3>5. \A c : IsCurrent(c)' <=> IsCurrent(c)
      BY <2>5 DEF IsCurrent, getSchedulesForClient, Applying, GroupsOf
    <3>6. ASSUME NEW c, IsToBeTold(req[h], c)
          PROVE  IsToBeTold(r, c)'
      BY <2>3, <2>4, <2>5, <3>2, <3>4, <3>6 DEF IsToBeTold
    <3> QED
      BY <2>3, <2>5, <3>1, <3>3, <3>5, <3>6 DEF OthersCurrent, Unwritten
  <2>8. req[h].at # "push" /\ r.at \in (Places \ {"push"}) \cup Answered
    BY <1>1, <2>3 DEF Places
  <2>9. ToldInv' /\ (\A g \in Handlers \ {h} : req'[g] = req[g]) /\ req'[h].at = r.at
    BY <1>1, <2>3, <2>5, <2>6, <2>7, <2>8, GoesTo
  <2> QED
    BY <2>3, <2>9
<1> QED
  BY <1>2, <1>3

LEMMA ToldDeleted ==
  ASSUME ToldInv, part = "definitions", part' = part, NEW h \in Handlers, DeleteScheduleRow(h)
  PROVE  ToldInv' /\ (\A g \in Handlers \ {h} : req'[g] = req[g]) /\ req'[h].at # "ok"
<1>1. DefinitionsOK /\ ARequest(req[h]) /\ Open(h) /\ req[h].op = "cancel" /\ req[h].at = "row"
  BY DEF ToldInv, KindsApart, DeleteScheduleRow, At, Open, Answered
<1>2. PICK on : on = req[h].on
  OBVIOUS
<1>3. /\ schedules' = schedules \ RowsOf(on)
      /\ GoTo(h, "clients") /\ UNCHANGED <<groups, members, nextSchedule, connected, defs, pushes>>
  BY <1>2 DEF DeleteScheduleRow, pushVars
<1>4. PICK r : r = [req[h] EXCEPT !.at = "clients"]
  OBVIOUS
<1>5. GoOn(h, r) /\ ARequest(r) /\ Same(req[h], r) /\ r.at = "clients" /\ r.list = req[h].list
  <2>1. GoOn(h, r)
    BY <1>3, <1>4 DEF GoTo
  <2> QED
    BY <1>1, <1>4, <2>1 DEF ARequest, Same
<1>6. TablesOK'
  BY <1>1, <1>3 DEF DefinitionsOK, TablesOK, Rows
<1>7. ASSUME Telling(h), Informed(req[h])
      PROVE  ListKept(r)' /\ OthersCurrent(r)'
  <2>1. ScreensCurrent /\ ListKept(req[h])
    BY <1>1, <1>7 DEF Informed, OthersCurrent, Unwritten
  <2>2. PICK s \in Row : req[h].list = <<s>> /\ RowsOf(on) = {s}
    BY <1>1, <1>2, <2>1 DEF ListKept
  <2>3. ListKept(r)'
    BY <1>5, <2>1, <2>2 DEF ListKept
  <2>4. ASSUME NEW c \in connected, c \in getClientsForSchedule(s)
        PROVE  IsToBeTold(r, c)'
    <3>1. c \in getClientsForSchedule(s)'
      BY <1>3, <2>4, SameClients
    <3>2. 1 \in DOMAIN r.list /\ r.list[1] = s
      BY <1>5, <2>2
    <3> QED
      BY <3>1, <3>2 DEF IsToBeTold
  <2>5. ASSUME NEW c \in connected, c \notin getClientsForSchedule(s)
        PROVE  IsCurrent(c)'
    <3>1. c \in Screen /\ groups \subseteq Group /\ schedules \subseteq Row /\ schedules' \subseteq Row
      BY <1>1, <1>6 DEF DefinitionsOK, TablesOK, Rows
    <3>2. \A x \in (schedules \ schedules') \cup (schedules' \ schedules) : c \notin getClientsForSchedule(x)
      BY <1>3, <2>2, <2>5
    <3>3. getSchedulesForClient(c)' = getSchedulesForClient(c)
      BY <1>3, <3>1, <3>2, Unconcerned
    <3> QED
      BY <1>3, <2>1, <2>5, <3>3 DEF ScreensCurrent, IsCurrent
  <2> QED
    BY <1>3, <1>5, <2>3, <2>4, <2>5 DEF OthersCurrent, Unwritten
<1>8. req[h].at # "push" /\ r.at \in (Places \ {"push"}) \cup Answered
  BY <1>1, <1>5 DEF Places
<1>9. ToldInv' /\ (\A g \in Handlers \ {h} : req'[g] = req[g]) /\ req'[h].at = r.at
  BY <1>1, <1>3, <1>5, <1>6, <1>7, <1>8, GoesTo
<1> QED
  BY <1>5, <1>9

\* a screen that has got into a group, or out of one
LEMMA MemberTold ==
  ASSUME ToldInv, part = "definitions", part' = part, NEW h \in Handlers, Open(h), req[h].op \in {"join", "leave"},
         req[h].at \in Unwritten, GoTo(h, "push"), NEW c \in Screen, sendSchedules(h, {c}),
         \A g, d : d # c => (<<g, d>> \in members' <=> <<g, d>> \in members),
         UNCHANGED <<schedules, nextSchedule, groups, connected, defs>>
  PROVE  ToldInv' /\ (\A g \in Handlers \ {h} : req'[g] = req[g]) /\ req'[h].at # "ok"
<1>1. DefinitionsOK /\ ARequest(req[h])
  BY DEF ToldInv, KindsApart
<1>2. PICK r : r = [req[h] EXCEPT !.at = "push"]
  OBVIOUS
<1>3. GoOn(h, r) /\ ARequest(r) /\ Same(req[h], r) /\ r.at = "push" /\ r.list = req[h].list
  <2>1. GoOn(h, r)
    BY <1>2 DEF GoTo
  <2> QED
    BY <1>1, <1>2, <2>1 DEF ARequest, Same
<1>4. TablesOK'
  BY <1>1 DEF DefinitionsOK, TablesOK
<1>5. pushes' = pushes \cup {[by |-> h, to |-> d, at |-> "schedules", rows |-> {}] : d \in {c} \cap connected}
  BY DEF sendSchedules
<1>6. pushes' \subseteq APush /\ \A p \in pushes' : p \in pushes \/ (p.by = h /\ p.at = "schedules")
  BY <1>1, <1>5 DEF DefinitionsOK, PushesOK, TablesOK, APush
<1>7. ASSUME Telling(h)
      PROVE  Informed(r)'
  <2>1. ListKept(req[h]) /\ ScreensCurrent /\ pushes = {}
    <3>1. req[h].at # "push"
      BY DEF Unwritten
    <3> QED
      BY <1>1, <1>7, <3>1, NoPushes DEF DefinitionsOK, Informed, OthersCurrent
  <2>2. ListKept(r)'
    BY <1>3, <2>1 DEF ListKept
  <2>3. ASSUME NEW d \in connected, d # c
        PROVE  IsCurrent(d)'
    <3>1. GroupsOf(d)' = GroupsOf(d)
      BY <2>3 DEF GroupsOf
    <3> QED
      BY <2>1, <3>1 DEF IsCurrent, ScreensCurrent, getSchedulesForClient
  <2>4. ASSUME c \in connected
        PROVE  IsToBeTold(r, c)'
    <3>1. [by |-> h, to |-> c, at |-> "schedules", rows |-> {}] \in pushes'
      BY <1>5, <2>4
    <3> QED
      BY <3>1 DEF IsToBeTold
  <2>5. OthersCurrent(r)'
    BY <1>3, <2>3, <2>4 DEF OthersCurrent, Unwritten
  <2> QED
    BY <1>6, <2>1, <2>2, <2>5 DEF Informed
<1>8. r.at \in Places \cup Answered /\ \A p \in pushes' : p.by = h => r.at = "push"
  BY <1>3 DEF Places
<1>9. \A p \in pushes' : p.by # h => \E q \in pushes : q.by = p.by
  BY <1>6
<1>10. ToldInv' /\ (\A g \in Handlers \ {h} : req'[g] = req[g]) /\ req'[h].at = r.at
  BY <1>3, <1>4, <1>6, <1>7, <1>8, <1>9, Going
<1> QED
  BY <1>3, <1>10

LEMMA ToldJoined ==
  ASSUME ToldInv, part = "definitions", part' = part, NEW h \in Handlers,
         addClientToGroup(h) \/ removeClientFromGroup(h)
  PROVE  ToldInv' /\ (\A g \in Handlers \ {h} : req'[g] = req[g]) /\ req'[h].at # "ok"
<1>1. DefinitionsOK /\ ARequest(req[h]) /\ Open(h) /\ req[h].op \in {"join", "leave"}
      /\ req[h].at \in {"insert", "row"} /\ UNCHANGED <<schedules, nextSchedule, groups, connected, defs>>
  BY DEF ToldInv, KindsApart, addClientToGroup, removeClientFromGroup, At, Open, Answered
<1>2. PICK c \in Screen : c = req[h].arg[1]
  BY <1>1 DEF DefinitionsOK, ArgumentsOK
<1>3. PICK m : m = <<req[h].on, c>>
  OBVIOUS
<1>4. CASE GoTo(h, "push") /\ sendSchedules(h, {c}) /\ (members' = members \cup {m} \/ members' = members \ {m})
  <2>1. \A g, d : d # c => (<<g, d>> \in members' <=> <<g, d>> \in members)
    BY <1>3, <1>4
  <2>2. req[h].at \in Unwritten
    BY <1>1 DEF Unwritten
  <2> QED
    BY <1>1, <1>4, <2>1, <2>2, MemberTold
<1>5. CASE GoTo(h, "error") /\ UNCHANGED pushes
  <2>1. PICK r : r = [req[h] EXCEPT !.at = "error"]
    OBVIOUS
  <2>2. GoOn(h, r) /\ ARequest(r) /\ Same(req[h], r) /\ r.at = "error"
    <3>1. GoOn(h, r)
      BY <1>5, <2>1 DEF GoTo
    <3> QED
      BY <1>1, <2>1, <3>1 DEF ARequest, Same
  <2>3. TablesOK' /\ req[h].at # "push"
    BY <1>1 DEF DefinitionsOK, TablesOK
  <2>4. r.at \in Answered
    BY <2>2 DEF Answered
  <2>5. ToldInv' /\ (\A g \in Handlers \ {h} : req'[g] = req[g]) /\ req'[h].at = r.at
    BY <1>1, <1>5, <2>2, <2>3, <2>4, GoesTo
  <2> QED
    BY <2>2, <2>5
<1>6. \/ GoTo(h, "push") /\ sendSchedules(h, {c}) /\ (members' = members \cup {m} \/ members' = members \ {m})
      \/ GoTo(h, "error") /\ UNCHANGED pushes
  BY <1>2, <1>3 DEF addClientToGroup, removeClientFromGroup
<1> QED
  BY <1>4, <1>5, <1>6

\* what no screen is told of
LEMMA Untelling ==
  ASSUME ToldInv, part = "definitions", part' = part, NEW h \in Handlers, Open(h), req[h].at # "push",
         req[h].op \notin Tellers, NEW at \in (Places \ {"push"}) \cup Answered, GoTo(h, at),
         schedules' \subseteq schedules, groups' \subseteq groups,
         UNCHANGED <<nextSchedule, connected, defs, pushes>>
  PROVE  ToldInv' /\ (\A g \in Handlers \ {h} : req'[g] = req[g])
<1>1. DefinitionsOK /\ ARequest(req[h])
  BY DEF ToldInv, KindsApart
<1>2. PICK r : r = [req[h] EXCEPT !.at = at]
  OBVIOUS
<1>3. GoOn(h, r) /\ ARequest(r) /\ Same(req[h], r) /\ r.at = at
  <2>1. GoOn(h, r)
    BY <1>2 DEF GoTo
  <2> QED
    BY <1>1, <1>2, <2>1 DEF ARequest, Same
<1>4. TablesOK'
  BY <1>1 DEF DefinitionsOK, TablesOK, Rows
<1>5. ~Telling(h)
  BY DEF Telling
<1> QED
  BY <1>3, <1>4, <1>5, GoesTo

LEMMA ToldAside ==
  ASSUME ToldInv, part = "definitions", part' = part, NEW h \in Handlers,
         \/ getTemplateById(h) \/ createScheduleTemplate(h) \/ deleteScheduleTemplate(h)
         \/ mongoDeleteMembers(h) \/ DeleteGroupRow(h) \/ DeletePlaylistRow(h)
  PROVE  ToldInv' /\ (\A g \in Handlers \ {h} : req'[g] = req[g]) /\ req[h].op \notin Tellers
<1>1. ASSUME NEW at \in (Places \ {"push"}) \cup Answered, GoTo(h, at), req[h].at \in {"template", "row", "members"},
             req[h].op \in {"instantiate", "discard", "template", "disband", "drop"},
             schedules' \subseteq schedules, groups' \subseteq groups,
             UNCHANGED <<nextSchedule, connected, defs, pushes>>
      PROVE  ToldInv' /\ (\A g \in Handlers \ {h} : req'[g] = req[g]) /\ req[h].op \notin Tellers
  <2>1. Open(h) /\ req[h].at # "push" /\ req[h].op \notin Tellers
    BY <1>1 DEF Open, Answered, Tellers
  <2> QED
    BY <1>1, <2>1, Untelling
<1>2. CASE getTemplateById(h)
  <2>1. PICK at \in {"check", "row", "error"} : GoTo(h, at)
    BY <1>2 DEF getTemplateById
  <2>2. /\ at \in (Places \ {"push"}) \cup Answered /\ UNCHANGED <<tables, pushVars>>
        /\ req[h].op \in {"instantiate", "discard"} /\ req[h].at = "template"
    BY <1>2 DEF getTemplateById, At, Places, Answered
  <2> QED
    BY <1>1, <2>1, <2>2 DEF tables, pushVars
<1>3. CASE createScheduleTemplate(h) \/ deleteScheduleTemplate(h)
  <2>1. PICK at \in {"ok", "error"} : GoTo(h, at)
    BY <1>3 DEF createScheduleTemplate, deleteScheduleTemplate
  <2>2. /\ at \in (Places \ {"push"}) \cup Answered /\ UNCHANGED <<schedules, groups, nextSchedule, pushVars>>
        /\ req[h].op \in {"template", "discard"} /\ req[h].at = "row"
    BY <1>3 DEF createScheduleTemplate, deleteScheduleTemplate, At, Places, Answered
  <2> QED
    BY <1>1, <2>1, <2>2 DEF pushVars
<1>4. CASE mongoDeleteMembers(h)
  <2>1. /\ GoTo(h, "row") /\ "row" \in (Places \ {"push"}) \cup Answered
        /\ UNCHANGED <<schedules, groups, nextSchedule, pushVars>>
        /\ req[h].op = "disband" /\ req[h].at = "members"
    BY <1>4 DEF mongoDeleteMembers, At, Places, Answered
  <2> QED
    BY <1>1, <2>1 DEF pushVars
<1>5. CASE DeleteGroupRow(h)
  <2>1. PICK at \in {"ok", "error"} : GoTo(h, at)
    BY <1>5 DEF DeleteGroupRow
  <2>2. /\ at \in (Places \ {"push"}) \cup Answered /\ UNCHANGED <<nextSchedule, pushVars>>
        /\ req[h].op = "disband" /\ req[h].at = "row"
        /\ schedules' \subseteq schedules /\ groups' \subseteq groups
    BY <1>5 DEF DeleteGroupRow, At, Places, Answered
  <2> QED
    BY <1>1, <2>1, <2>2 DEF pushVars
<1>6. CASE DeletePlaylistRow(h)
  <2>1. /\ GoTo(h, "ok") /\ "ok" \in (Places \ {"push"}) \cup Answered
        /\ UNCHANGED <<groups, nextSchedule, pushVars>> /\ schedules' \subseteq schedules
        /\ req[h].op = "drop" /\ req[h].at = "row"
    BY <1>6 DEF DeletePlaylistRow, At, Places, Answered
  <2> QED
    BY <1>1, <2>1 DEF pushVars
<1> QED
  BY <1>2, <1>3, <1>4, <1>5, <1>6

LEMMA ToldSteps ==
  ASSUME ToldInv, part = "definitions", part' = part, NEW h \in Handlers, StepDefinitions(h)
  PROVE  /\ ToldInv' /\ (\A g \in Handlers \ {h} : req'[g] = req[g])
         /\ Telling(h) /\ req'[h].at = "ok" => ScreensCurrent'
<1>1. CASE Pushed(h)
  BY <1>1, ToldPushed
<1>2. CASE PushToAffected(h)
  BY <1>2, ToldAffected
<1>3. CASE CheckTargets(h) \/ CheckMember(h)
  BY <1>3, ToldChecked
<1>4. CASE InsertSchedule(h)
  BY <1>4, ToldInserted DEF Telling
<1>5. CASE Previous(h)
  BY <1>5, ToldPrevious
<1>6. CASE WriteSchedule(h)
  BY <1>6, ToldWritten
<1>7. CASE Reread(h)
  BY <1>7, ToldReread
<1>8. CASE DeleteScheduleRow(h)
  BY <1>8, ToldDeleted
<1>9. CASE addClientToGroup(h) \/ removeClientFromGroup(h)
  BY <1>9, ToldJoined
<1>10. CASE \/ getTemplateById(h) \/ createScheduleTemplate(h) \/ deleteScheduleTemplate(h)
            \/ mongoDeleteMembers(h) \/ DeleteGroupRow(h) \/ DeletePlaylistRow(h)
  BY <1>10, ToldAside DEF Telling
<1> QED
  BY <1>1, <1>2, <1>3, <1>4, <1>5, <1>6, <1>7, <1>8, <1>9, <1>10 DEF StepDefinitions

(***************************************************************************)
(* Requests that begin                                                     *)
(***************************************************************************)
LEMMA Begins ==
  ASSUME KindsApart, NEW h \in Handlers, NEW op, NEW at, NEW on, NEW arg, NEW sound,
         Begin(h, op, at, on, arg, sound), part' = part,
         part = "definitions" => op \in Definers /\ at \in Places \cup Answered,
         part # "definitions" => op \notin Tellers
  PROVE  /\ KindsApart' /\ backend' = backend /\ ~Open(h) /\ Turn(h)
         /\ req'[h].op = op /\ req'[h].at = at /\ req'[h].on = on /\ req'[h].arg = arg
         /\ req'[h].list = <<>> /\ req'[h].sound = sound /\ (req'[h].alone => Others(h) = {})
         /\ \A g \in Handlers \ {h} :
              /\ req'[g].op = req[g].op /\ req'[g].at = req[g].at /\ req'[g].arg = req[g].arg
              /\ Open(g) => ~req'[g].alone
<1>1. PICK only : only = (Others(h) = {})
  OBVIOUS
<1>2. PICK new : new = [NoRequest EXCEPT !.op = op, !.at = at, !.on = on, !.arg = arg,
                                         !.sound = sound, !.alone = only]
  OBVIOUS
<1>3. /\ req' = [g \in Handlers |-> IF g = h THEN new
                                     ELSE IF g \in Others(h) THEN [req[g] EXCEPT !.alone = FALSE] ELSE req[g]]
      /\ backend' = backend /\ ~Open(h) /\ Turn(h)
  BY <1>1, <1>2 DEF Begin, MayBegin
<1>4. /\ ARequest(new) /\ new.op = op /\ new.at = at /\ new.on = on /\ new.arg = arg
      /\ new.list = <<>> /\ new.sound = sound /\ new.alone = only
  BY <1>2 DEF ARequest, NoRequest
<1>5. req' = [g \in Handlers |-> req'[g]] /\ req'[h] = new
  BY <1>3
<1>6. ASSUME NEW g \in Handlers \ {h}
      PROVE  /\ ARequest(req'[g]) /\ req'[g].op = req[g].op /\ req'[g].at = req[g].at
             /\ req'[g].arg = req[g].arg /\ (Open(g) => ~req'[g].alone)
  <2>1. ARequest(req[g])
    BY DEF KindsApart
  <2>2. CASE Open(g)
    <3>1. g \in Others(h)
      BY <2>2 DEF Others
    <3>2. req'[g] = [req[g] EXCEPT !.alone = FALSE]
      BY <1>3, <3>1
    <3> QED
      BY <2>1, <3>2 DEF ARequest
  <2>3. CASE ~Open(g)
    <3>1. req'[g] = req[g]
      BY <1>3, <2>3 DEF Others
    <3> QED
      BY <2>1, <2>3, <3>1
  <2> QED
    BY <2>2, <2>3
<1>7. KindsApart'
  BY <1>4, <1>5, <1>6 DEF KindsApart
<1> QED
  BY <1>1, <1>3, <1>4, <1>5, <1>6, <1>7

LEMMA ElsewhereBegins ==
  ASSUME ToldInv, part # "definitions", part' = part, NEW h \in Handlers,
         NEW op, NEW at, NEW on, NEW arg, NEW sound, Begin(h, op, at, on, arg, sound), op \notin Tellers
  PROVE  ToldInv'
<1>1. KindsApart'
  BY Begins DEF ToldInv
<1> QED
  BY <1>1 DEF ToldInv

LEMMA Beginning ==
  ASSUME ToldInv, part = "definitions", part' = part, NEW h \in Handlers,
         NEW op \in Definers, NEW at \in Places, NEW on, NEW arg, NEW sound,
         Begin(h, op, at, on, arg, sound), sound <=> ScreensCurrent,
         op \in Creates => arg[1] \in Playlist /\ arg[2] \in Targets,
         op = "change" => arg[1] \in Targets /\ arg[2] \in Nat,
         op \in {"join", "leave"} => arg[1] \in Screen,
         UNCHANGED <<tables, defs>>,
         \/ op \in Tellers => at \in Unwritten /\ ~(op = "change" /\ at = "write") /\ ~(op = "cancel" /\ at = "row")
         \/ op = "register",
         op # "register" => UNCHANGED <<connected, pushes>>,
         op = "register" =>
           /\ at = "push" /\ on \in Screen /\ connected' = connected \cup {on}
           /\ pushes' = pushes \cup {[by |-> h, to |-> on, at |-> "schedules", rows |-> {}]}
  PROVE  ToldInv'
<1>1. DefinitionsOK
  BY DEF ToldInv
<1>2. /\ KindsApart' /\ backend' = backend /\ ~Open(h) /\ Turn(h)
      /\ req'[h].op = op /\ req'[h].at = at /\ req'[h].on = on /\ req'[h].arg = arg
      /\ req'[h].list = <<>> /\ req'[h].sound = sound /\ (req'[h].alone => Others(h) = {})
      /\ \A g \in Handlers \ {h} :
           /\ req'[g].op = req[g].op /\ req'[g].at = req[g].at /\ req'[g].arg = req[g].arg
           /\ Open(g) => ~req'[g].alone
  <2>1. KindsApart /\ (part = "definitions" => op \in Definers /\ at \in Places \cup Answered)
        /\ (part # "definitions" => op \notin Tellers)
    BY DEF ToldInv
  <2> QED
    BY <2>1, Begins
<1>3. \A g \in Handlers \ {h} : Open(g)' <=> Open(g)
  BY <1>2 DEF Open
<1>4. backend = "sqlite" => Others(h) = {}
  <2>1. \A g \in Handlers : req[g].at \in Places \cup Answered
    BY DEF ToldInv, KindsApart
  <2> QED
    BY <1>2, <2>1 DEF Turn, Away, Places, Answered, Others, Open
<1>5. UNCHANGED <<schedules, nextSchedule, groups, members, defs>>
  BY DEF tables
<1>6. TablesOK'
  BY <1>1, <1>5 DEF DefinitionsOK, TablesOK
<1>7. ArgumentsOK'
  BY <1>1, <1>2, <1>3 DEF DefinitionsOK, ArgumentsOK
<1>8. PushesOK'
  <2>1. pushes' \subseteq APush
    BY <1>1 DEF DefinitionsOK, PushesOK, APush
  <2>2. ASSUME NEW p \in pushes'
        PROVE  req'[p.by].at = "push"
    <3>1. CASE p \in pushes
      <4>1. p.by \in Handlers /\ req[p.by].at = "push"
        BY <1>1, <3>1 DEF DefinitionsOK, PushesOK, APush
      <4>2. p.by # h
        BY <1>2, <4>1 DEF Open, Answered
      <4> QED
        BY <1>2, <4>1, <4>2
    <3>2. CASE op = "register" /\ p.by = h
      BY <1>2, <3>2
    <3> QED
      BY <2>2, <3>1, <3>2
  <2> QED
    BY <2>1, <2>2 DEF PushesOK
<1>9. Sequential'
  BY <1>1, <1>2, <1>3, <1>4 DEF DefinitionsOK, Sequential, Others
<1>10. ASSUME NEW g \in Handlers, Open(g)', req'[g].alone
       PROVE  Others(g)' = {}
  <2>1. g = h
    BY <1>2, <1>3, <1>10
  <2> QED
    BY <1>2, <1>3, <1>10, <2>1 DEF Others
<1>11. ASSUME NEW g \in Handlers, Telling(g)'
       PROVE  Informed(req[g])'
  <2>1. g = h /\ Others(h) = {}
    BY <1>2, <1>3, <1>4, <1>11 DEF Telling, Isolated, Others
  <2>2. ScreensCurrent /\ op \in Tellers
    BY <1>2, <1>11, <2>1 DEF Telling
  <2>3. pushes = {}
    <3>1. \A p \in pushes : p.by \in Handlers /\ Open(p.by)
      BY <1>1 DEF DefinitionsOK, PushesOK, APush, Open, Answered
    <3> QED
      BY <1>2, <2>1, <3>1 DEF Others
  <2>4. \A c : IsCurrent(c)' <=> IsCurrent(c)
    BY <1>5 DEF IsCurrent, getSchedulesForClient, Applying, GroupsOf
  <2>5. ListKept(req[h])'
    <3>1. <<>> \in Seq(Row)
      BY SequenceFacts
    <3>2. at # "clients" /\ ~(op = "change" /\ at = "write") /\ ~(op = "cancel" /\ at = "row")
      BY <2>2 DEF Unwritten
    <3> QED
      BY <1>2, <3>1, <3>2 DEF ListKept
  <2>6. CASE op # "register"
    <3>1. ScreensCurrent' /\ at \in Unwritten /\ pushes' = {}
      BY <2>2, <2>3, <2>4, <2>6 DEF ScreensCurrent, IsCurrent
    <3>2. OthersCurrent(req[h])'
      BY <1>2, <3>1 DEF OthersCurrent
    <3> QED
      BY <2>1, <2>5, <3>1, <3>2 DEF Informed
  <2>7. CASE op = "register"
    <3>1. /\ at = "push" /\ connected' = connected \cup {on}
          /\ pushes' = {[by |-> h, to |-> on, at |-> "schedules", rows |-> {}]}
      BY <2>3, <2>7
    <3>2. \A c \in connected' : IsToBeTold(req[h], c)' \/ IsCurrent(c)'
      BY <2>2, <2>4, <3>1 DEF ScreensCurrent, IsCurrent, IsToBeTold
    <3>3. OthersCurrent(req[h])' /\ \A p \in pushes' : p.at # "groups"
      BY <1>2, <3>1, <3>2 DEF OthersCurrent, Unwritten
    <3> QED
      BY <2>1, <2>5, <3>3 DEF Informed
  <2> QED
    BY <2>6, <2>7
<1> QED
  BY <1>2, <1>6, <1>7, <1>8, <1>9, <1>10, <1>11 DEF ToldInv, DefinitionsOK

LEMMA ToldBegins ==
  ASSUME ToldInv, part = "definitions", part' = part, NEW h \in Handlers, BeginDefinitions(h)
  PROVE  ToldInv' /\ ~Open(h) /\ \A g \in Handlers \ {h} : req'[g].at = req[g].at
<1>1. PICK sound : sound <=> ScreensCurrent
  OBVIOUS
<1>2. ASSUME NEW op \in Definers, NEW at \in Places, NEW on, NEW arg,
             Begin(h, op, at, on, arg, sound), UNCHANGED <<tables, pushVars>>, op # "register",
             op \in Creates => arg[1] \in Playlist /\ arg[2] \in Targets,
             op = "change" => arg[1] \in Targets /\ arg[2] \in Nat,
             op \in {"join", "leave"} => arg[1] \in Screen,
             op \in Tellers => at \in Unwritten /\ ~(op = "change" /\ at = "write") /\ ~(op = "cancel" /\ at = "row")
      PROVE  ToldInv'
  BY <1>1, <1>2, Beginning DEF pushVars
<1>3. {"check", "template", "row", "previous", "members", "push"} \subseteq Places
      /\ {"check", "previous", "row"} \subseteq Unwritten
  BY DEF Places, Unwritten
<1>4. ASSUME createTemplate(h) \/ \E t \in {"builtin", "own"} : deleteTemplate(h, t)
      PROVE  ToldInv'
  <2>1. PICK op \in {"template", "discard"}, at \in {"row", "template"} :
          (\E arg : Begin(h, op, at, 0, arg, sound)) /\ UNCHANGED <<tables, pushVars>>
    BY <1>1, <1>4 DEF createTemplate, deleteTemplate, Templating
  <2>2. PICK arg : Begin(h, op, at, 0, arg, sound)
    BY <2>1
  <2> QED
    BY <1>2, <1>3, <2>1, <2>2 DEF Definers, Tellers, Creates
<1>5. ASSUME \E pl \in Playlist : instantiate(h, "own", pl, Everyone)
      PROVE  ToldInv'
  <2>1. PICK pl \in Playlist : Begin(h, "instantiate", "template", 0, <<pl, Everyone, "own">>, sound)
                               /\ UNCHANGED <<tables, pushVars>>
    BY <1>1, <1>5 DEF instantiate, Templating
  <2>2. PICK arg : arg = <<pl, Everyone, "own">>
    OBVIOUS
  <2>3. arg[1] \in Playlist /\ arg[2] \in Targets /\ Begin(h, "instantiate", "template", 0, arg, sound)
    BY <2>1, <2>2 DEF Targets
  <2> QED
    BY <1>2, <1>3, <2>1, <2>3 DEF Definers, Tellers, Creates
<1>6. ASSUME \E pl \in Playlist, to \in Targets : createSchedule(h, pl, to)
      PROVE  ToldInv'
  <2>1. PICK pl \in Playlist, to \in Targets : Begin(h, "create", "check", 0, <<pl, to>>, sound)
                                               /\ UNCHANGED <<tables, pushVars>>
    BY <1>1, <1>6 DEF createSchedule
  <2>2. PICK arg : arg = <<pl, to>>
    OBVIOUS
  <2>3. arg[1] \in Playlist /\ arg[2] \in Targets /\ Begin(h, "create", "check", 0, arg, sound)
    BY <2>1, <2>2
  <2> QED
    BY <1>2, <1>3, <2>1, <2>3 DEF Definers, Tellers, Creates
<1>7. ASSUME \E s \in schedules : deleteSchedule(h, s)
      PROVE  ToldInv'
  <2>1. PICK s : Begin(h, "cancel", "previous", s.id, <<>>, sound) /\ UNCHANGED <<tables, pushVars>>
    BY <1>1, <1>7 DEF deleteSchedule, Change
  <2>2. PICK on, arg : on = s.id /\ arg = <<>>
    OBVIOUS
  <2>3. Begin(h, "cancel", "previous", on, arg, sound)
    BY <2>1, <2>2
  <2> QED
    BY <1>2, <1>3, <2>1, <2>3 DEF Definers, Tellers, Creates
<1>8. ASSUME \E s \in schedules, to \in Targets : updateSchedule(h, s, to, 1)
      PROVE  ToldInv'
  <2>1. PICK s \in schedules, to \in Targets : updateSchedule(h, s, to, 1)
    BY <1>8
  <2>2. PICK on, arg : on = s.id /\ arg = <<to, 1>>
    OBVIOUS
  <2>3. Begin(h, "change", "previous", on, arg, sound) /\ UNCHANGED <<tables, pushVars>>
    BY <1>1, <2>1, <2>2 DEF updateSchedule, Change
  <2>4. arg[1] \in Targets /\ arg[2] \in Nat
    BY <2>2
  <2> QED
    BY <1>2, <1>3, <2>3, <2>4 DEF Definers, Tellers, Creates
<1>9. ASSUME \E g \in Group, c \in Screen : addMember(h, g, c) \/ removeMember(h, g, c)
      PROVE  ToldInv'
  <2>1. PICK g \in Group, c \in Screen, op \in {"join", "leave"}, at \in {"check", "row"} :
          Begin(h, op, at, g, <<c>>, sound) /\ UNCHANGED <<tables, pushVars>>
    BY <1>1, <1>9 DEF addMember, removeMember
  <2>2. PICK arg : arg = <<c>>
    OBVIOUS
  <2>3. Begin(h, op, at, g, arg, sound) /\ arg[1] \in Screen
    BY <2>1, <2>2
  <2> QED
    BY <1>2, <1>3, <2>1, <2>3 DEF Definers, Tellers, Creates
<1>10. ASSUME (\E g \in Group : deleteGroup(h, g)) \/ \E pl \in Playlist : deletePlaylist(h, pl)
       PROVE  ToldInv'
  <2>1. PICK op \in {"disband", "drop"}, at \in {"row", "members"} :
          (\E on : Begin(h, op, at, on, <<>>, sound)) /\ UNCHANGED <<tables, pushVars>>
    BY <1>1, <1>10 DEF deleteGroup, deletePlaylist
  <2>2. PICK on : Begin(h, op, at, on, <<>>, sound)
    BY <2>1
  <2> QED
    BY <1>2, <1>3, <2>1, <2>2 DEF Definers, Tellers, Creates
<1>11. ASSUME \E c \in Screen : handleRegister(h, c)
       PROVE  ToldInv'
  <2>1. PICK c \in Screen : handleRegister(h, c)
    BY <1>11
  <2>2. /\ Begin(h, "register", "push", c, <<>>, sound) /\ connected' = connected \cup {c}
        /\ pushes' = pushes \cup {[by |-> h, to |-> c, at |-> "schedules", rows |-> {}]}
        /\ UNCHANGED <<tables, defs>>
    BY <1>1, <2>1 DEF handleRegister
  <2>3. "register" \in Definers /\ "push" \in Places /\ "register" \notin Creates
        /\ "register" \notin {"change", "join", "leave"}
    BY DEF Definers, Places, Creates
  <2> QED
    BY <1>1, <2>2, <2>3, Beginning
<1>12. ToldInv'
  BY <1>4, <1>5, <1>6, <1>7, <1>8, <1>9, <1>10, <1>11 DEF BeginDefinitions
<1>13. ~Open(h) /\ \A g \in Handlers \ {h} : req'[g].at = req[g].at
  <2>1. \E op, at, on, arg : Begin(h, op, at, on, arg, ScreensCurrent)
    BY DEF BeginDefinitions, createTemplate, deleteTemplate, instantiate, Templating, createSchedule,
           deleteSchedule, updateSchedule, Change, deleteGroup, addMember, removeMember, deletePlaylist,
           handleRegister
  <2>2. PICK op, at, on, arg : Begin(h, op, at, on, arg, sound)
    BY <1>1, <2>1
  <2>3. ~Open(h)
    BY <2>2 DEF Begin, MayBegin
  <2>4. ASSUME NEW g \in Handlers \ {h}
        PROVE  req'[g].at = req[g].at
    <3>1. ARequest(req[g])
      BY DEF ToldInv, KindsApart
    <3>2. req'[g] = [req[g] EXCEPT !.alone = FALSE] \/ req'[g] = req[g]
      BY <2>2 DEF Begin
    <3> QED
      BY <3>1, <3>2 DEF ARequest
  <2> QED
    BY <2>3, <2>4
<1> QED
  BY <1>12, <1>13

(***************************************************************************)
(* Pushes and screens                                                      *)
(***************************************************************************)
LEMMA PushGoes ==
  ASSUME ToldInv, part = "definitions", UNCHANGED <<requestVars, tables, part>>,
         connected' \subseteq connected, defs' = [c \in Screen |-> defs'[c]],
         pushes' \subseteq APush, \A p \in pushes' : \E q \in pushes : q.by = p.by,
         \A h \in Handlers : Telling(h) /\ Informed(req[h]) => Informed(req[h])'
  PROVE  ToldInv'
<1>1. DefinitionsOK /\ UNCHANGED <<req, backend, schedules, nextSchedule, groups>>
  BY DEF ToldInv, requestVars, tables
<1>2. KindsApart'
  BY <1>1 DEF ToldInv, KindsApart
<1>3. TablesOK'
  BY <1>1 DEF DefinitionsOK, TablesOK
<1>4. ArgumentsOK' /\ Sequential'
  BY <1>1 DEF DefinitionsOK, ArgumentsOK, Sequential, Open
<1>5. PushesOK'
  BY <1>1 DEF DefinitionsOK, PushesOK
<1>6. \A h \in Handlers : Open(h)' /\ req'[h].alone => Others(h)' = {}
  BY <1>1 DEF DefinitionsOK, Open, Others
<1>7. \A h \in Handlers : Telling(h)' => Informed(req[h])'
  BY <1>1 DEF DefinitionsOK, Telling, Isolated, Open
<1> QED
  BY <1>2, <1>3, <1>4, <1>5, <1>6, <1>7 DEF ToldInv, DefinitionsOK

\* no rows change
LEMMA ScreensKept ==
  ASSUME UNCHANGED <<req, tables>>
  PROVE  /\ \A h \in Handlers : ListKept(req[h]) => ListKept(req[h])'
         /\ \A c : getSchedulesForClient(c)' = getSchedulesForClient(c)
         /\ \A s : getClientsForSchedule(s)' = getClientsForSchedule(s)
         /\ \A id : RowsOf(id)' = RowsOf(id)
<1>1. UNCHANGED <<schedules, groups, members, req>>
  BY DEF tables
<1>2. \A id : RowsOf(id)' = RowsOf(id)
  BY <1>1 DEF RowsOf
<1>3. \A s : getClientsForSchedule(s)' = getClientsForSchedule(s)
  BY <1>1, SameClients
<1>4. \A c : getSchedulesForClient(c)' = getSchedulesForClient(c)
  BY <1>1 DEF getSchedulesForClient, Applying, GroupsOf
<1>5. \A h \in Handlers : ListKept(req[h]) => ListKept(req[h])'
  BY <1>1, <1>2 DEF ListKept
<1> QED
  BY <1>2, <1>3, <1>4, <1>5

LEMMA ToldRead ==
  ASSUME ToldInv, part = "definitions", part' = part, NEW p \in pushes, ReadSchedules(p)
  PROVE  ToldInv'
<1>1. DefinitionsOK /\ p \in APush /\ UNCHANGED <<requestVars, tables, connected, defs, req>>
  BY DEF ToldInv, DefinitionsOK, PushesOK, ReadSchedules, requestVars
<1>2. PICK q : q = [p EXCEPT !.at = "groups", !.rows = schedules]
  OBVIOUS
<1>3. pushes' = (pushes \ {p}) \cup {q}
  BY <1>2 DEF ReadSchedules, Replace
<1>4. q \in APush /\ q.by = p.by /\ q.to = p.to /\ q.rows = schedules
  BY <1>1, <1>2 DEF APush, DefinitionsOK, TablesOK, Rows
<1>5. pushes' \subseteq APush /\ \A x \in pushes' : \E y \in pushes : y.by = x.by
  BY <1>1, <1>3, <1>4 DEF DefinitionsOK, PushesOK
<1>6. ASSUME NEW h \in Handlers, Informed(req[h])
      PROVE  Informed(req[h])'
  <2>1. ListKept(req[h])'
    BY <1>1, <1>6, ScreensKept DEF Informed
  <2>2. \A x \in pushes' : x.at = "groups" => x.rows = schedules'
    BY <1>1, <1>3, <1>4, <1>6 DEF Informed, tables
  <2>3. \A c : (IsCurrent(c)' <=> IsCurrent(c))
    BY <1>1, ScreensKept DEF IsCurrent
  <2>4. \A c : IsToBeTold(req[h], c) => IsToBeTold(req[h], c)'
    <3>1. \A c : (\E x \in pushes : x.to = c) => \E x \in pushes' : x.to = c
      BY <1>3, <1>4
    <3> QED
      BY <1>1, <3>1, ScreensKept DEF IsToBeTold
  <2>5. OthersCurrent(req[h])'
    BY <1>1, <1>6, <2>3, <2>4 DEF Informed, OthersCurrent, ScreensCurrent, IsCurrent
  <2> QED
    BY <2>1, <2>2, <2>5 DEF Informed
<1>7. UNCHANGED <<requestVars, tables, part>> /\ connected' \subseteq connected /\ defs' = [c \in Screen |-> defs'[c]]
  BY <1>1 DEF DefinitionsOK, TablesOK
<1> QED
  BY <1>5, <1>6, <1>7, PushGoes

LEMMA ToldSent ==
  ASSUME ToldInv, part = "definitions", part' = part, NEW p \in pushes, SendDefinitions(p)
  PROVE  ToldInv'
<1>1. DefinitionsOK /\ p \in APush /\ UNCHANGED <<requestVars, tables, connected, req>>
  BY DEF ToldInv, DefinitionsOK, PushesOK, SendDefinitions, requestVars
<1>2. p.at = "groups" /\ pushes' = pushes \ {p}
  BY DEF SendDefinitions
<1>3. PICK new : new = Applying(p.to, p.rows, GroupsOf(p.to))
  OBVIOUS
<1>4. /\ defs = [c \in Screen |-> defs[c]] /\ p.to \in Screen
      /\ defs' = IF p.to \in connected THEN [defs EXCEPT ![p.to] = new] ELSE defs
  BY <1>1, <1>3 DEF SendDefinitions, DefinitionsOK, TablesOK, APush
<1>5. /\ defs' = [c \in Screen |-> defs'[c]]
      /\ \A c \in Screen : c # p.to => defs'[c] = defs[c]
      /\ p.to \in connected => defs'[p.to] = new
  BY <1>4
<1>6. ASSUME NEW h \in Handlers, Telling(h), Informed(req[h])
      PROVE  Informed(req[h])'
  <2>1. ListKept(req[h])'
    BY <1>1, <1>6, ScreensKept DEF Informed
  <2>2. \A x \in pushes' : x.at = "groups" => x.rows = schedules'
    BY <1>1, <1>2, <1>6 DEF Informed, tables
  <2>3. p.rows = schedules
    BY <1>2, <1>6 DEF Informed
  <2>4. req[h].at \notin Unwritten
    <3>1. pushes # {}
      OBVIOUS
    <3>2. req[h].at = "push"
      BY <1>1, <1>6, <3>1, NoPushes
    <3> QED
      BY <3>2 DEF Unwritten
  <2>5. \A c \in connected : c \in Screen
    BY <1>1 DEF DefinitionsOK, TablesOK
  <2>6. ASSUME NEW c \in connected, c # p.to, IsCurrent(c)
        PROVE  IsCurrent(c)'
    BY <1>1, <1>5, <2>5, <2>6, ScreensKept DEF IsCurrent
  <2>7. p.to \in connected => IsCurrent(p.to)'
    <3>1. new = getSchedulesForClient(p.to)
      BY <1>3, <2>3 DEF getSchedulesForClient
    <3> QED
      BY <1>1, <1>5, <3>1, ScreensKept DEF IsCurrent
  <2>8. ASSUME NEW c \in connected, c # p.to, IsToBeTold(req[h], c)
        PROVE  IsToBeTold(req[h], c)'
    <3>1. (\E x \in pushes : x.to = c) => \E x \in pushes' : x.to = c
      BY <1>2, <2>8
    <3> QED
      BY <1>1, <2>8, <3>1, ScreensKept DEF IsToBeTold
  <2>9. OthersCurrent(req[h])'
    BY <1>1, <1>6, <2>4, <2>6, <2>7, <2>8 DEF Informed, OthersCurrent
  <2> QED
    BY <2>1, <2>2, <2>9 DEF Informed
<1>7. pushes' \subseteq APush /\ \A x \in pushes' : \E y \in pushes : y.by = x.by
  BY <1>1, <1>2 DEF DefinitionsOK, PushesOK
<1> QED
  BY <1>1, <1>5, <1>6, <1>7, PushGoes

LEMMA ToldLeft ==
  ASSUME ToldInv, part = "definitions", part' = part, NEW c \in Screen, handleDisconnection(c)
  PROVE  ToldInv'
<1>1. DefinitionsOK /\ UNCHANGED <<requestVars, tables, defs, pushes, req>> /\ connected' \subseteq connected
  BY DEF ToldInv, handleDisconnection, requestVars
<1>2. ASSUME NEW h \in Handlers, Informed(req[h])
      PROVE  Informed(req[h])'
  <2>1. ListKept(req[h])' /\ \A x \in pushes' : x.at = "groups" => x.rows = schedules'
    BY <1>1, <1>2, ScreensKept DEF Informed, tables
  <2>2. \A d : (IsCurrent(d) => IsCurrent(d)') /\ (IsToBeTold(req[h], d) => IsToBeTold(req[h], d)')
    BY <1>1, ScreensKept DEF IsCurrent, IsToBeTold
  <2>3. OthersCurrent(req[h])'
    BY <1>1, <1>2, <2>2 DEF Informed, OthersCurrent, ScreensCurrent, IsCurrent
  <2> QED
    BY <2>1, <2>3 DEF Informed
<1>3. /\ defs' = [d \in Screen |-> defs'[d]]
      /\ pushes' \subseteq APush /\ \A x \in pushes' : \E y \in pushes : y.by = x.by
  BY <1>1 DEF DefinitionsOK, TablesOK, PushesOK
<1> QED
  BY <1>1, <1>2, <1>3, PushGoes

(***************************************************************************)
(* Requests about something else                                           *)
(***************************************************************************)
LEMMA ElsewhereSteps ==
  ASSUME ToldInv, part # "definitions", part' = part, NEW h \in Handlers,
         StepDefinitions(h) \/ StepNotifications(h) \/ FetchTimeout(h)
  PROVE  ToldInv'
<1>1. ARequest(req[h])
  BY DEF ToldInv, KindsApart
<1>2. ASSUME NEW at, GoTo(h, at)
      PROVE  ToldInv'
  <2>1. PICK r : r = [req[h] EXCEPT !.at = at]
    OBVIOUS
  <2>2. GoOn(h, r)
    BY <1>2, <2>1 DEF GoTo
  <2>3. ARequest(r) /\ r.op = req[h].op
    BY <1>1, <2>1 DEF ARequest
  <2> QED
    BY <2>2, <2>3, ElsewhereGoesOn
<1>3. ASSUME NEW at, NEW list, GoOn(h, [req[h] EXCEPT !.list = list, !.at = at])
      PROVE  ToldInv'
  <2>1. PICK r : r = [req[h] EXCEPT !.list = list, !.at = at]
    OBVIOUS
  <2>2. GoOn(h, r)
    BY <1>3, <2>1
  <2>3. ARequest(r) /\ r.op = req[h].op
    BY <1>1, <2>1 DEF ARequest
  <2> QED
    BY <2>2, <2>3, ElsewhereGoesOn
<1>4. ASSUME StepDefinitions(h)
      PROVE  ToldInv'
  <2>1. CASE Pushed(h)
    <3>1. PICK at : GoOn(h, [req[h] EXCEPT !.at = at])
      BY <2>1 DEF Pushed
    <3> QED
      BY <1>2, <3>1 DEF GoTo
  <2>2. CASE PushToAffected(h)
    <3>1. PICK list : GoOn(h, [req[h] EXCEPT !.list = list, !.at = "push"])
      BY <2>2 DEF PushToAffected
    <3> QED
      BY <1>3, <3>1
  <2>3. CASE CheckTargets(h) \/ CheckMember(h) \/ getTemplateById(h)
    BY <1>2, <2>3 DEF CheckTargets, CheckMember, getTemplateById
  <2>4. CASE InsertSchedule(h) \/ Previous(h)
    <3>1. \/ GoTo(h, "error")
          \/ \E list, at : GoOn(h, [req[h] EXCEPT !.list = list, !.at = at])
      BY <2>4 DEF InsertSchedule, Previous
    <3> QED
      BY <1>2, <1>3, <3>1
  <2>5. CASE Reread(h)
    <3>1. \/ GoTo(h, "error")
          \/ \E s : GoOn(h, [req[h] EXCEPT !.list = Append(@, s), !.at = "clients"])
      BY <2>5 DEF Reread
    <3> QED
      BY <1>2, <1>3, <3>1
  <2>6. CASE WriteSchedule(h) \/ DeleteScheduleRow(h)
    BY <1>2, <2>6 DEF WriteSchedule, DeleteScheduleRow
  <2>7. CASE addClientToGroup(h) \/ removeClientFromGroup(h)
    BY <1>2, <2>7 DEF addClientToGroup, removeClientFromGroup
  <2>8. CASE createScheduleTemplate(h) \/ deleteScheduleTemplate(h) \/ mongoDeleteMembers(h)
    BY <1>2, <2>8 DEF createScheduleTemplate, deleteScheduleTemplate, mongoDeleteMembers
  <2>9. CASE DeleteGroupRow(h) \/ DeletePlaylistRow(h)
    BY <1>2, <2>9 DEF DeleteGroupRow, DeletePlaylistRow
  <2> QED
    BY <1>4, <2>1, <2>2, <2>3, <2>4, <2>5, <2>6, <2>7, <2>8, <2>9 DEF StepDefinitions
<1>5. ASSUME StepNotifications(h)
      PROVE  ToldInv'
  <2>1. CASE getEnabledRulesForEvent(h)
    <3>1. \E list, at : GoOn(h, [req[h] EXCEPT !.list = list, !.at = at])
      BY <2>1 DEF getEnabledRulesForEvent
    <3> QED
      BY <1>3, <3>1
  <2>2. ASSUME NEW status \in {"sent", "failed"}, createNotificationHistory(h, status)
        PROVE  ToldInv'
    <3>1. GoOn(h, NextRule(req[h])) \/ \E at : GoOn(h, [req[h] EXCEPT !.at = at])
      BY <2>2 DEF createNotificationHistory
    <3>2. CASE GoOn(h, NextRule(req[h]))
      <4>1. PICK at : at = (IF Len(req[h].list) = 1 THEN "schedules" ELSE "channel")
        OBVIOUS
      <4>2. GoOn(h, [req[h] EXCEPT !.list = Tail(@), !.at = at])
        BY <3>2, <4>1 DEF NextRule
      <4> QED
        BY <1>3, <4>2
    <3>3. CASE \E at : GoOn(h, [req[h] EXCEPT !.at = at])
      BY <1>2, <3>3 DEF GoTo
    <3> QED
      BY <3>1, <3>2, <3>3
  <2>3. CASE \/ dispatch(h) \/ HandOn(h) \/ createNotificationRule(h) \/ mongoDeleteHistory(h)
             \/ deleteNotificationRule(h)
    BY <1>2, <2>3 DEF dispatch, HandOn, createNotificationRule, mongoDeleteHistory, deleteNotificationRule
  <2> QED
    BY <1>5, <2>1, <2>2, <2>3 DEF StepNotifications
<1>6. ASSUME FetchTimeout(h)
      PROVE  ToldInv'
  BY <1>2, <1>6 DEF FetchTimeout
<1> QED
  BY <1>4, <1>5, <1>6

LEMMA ElsewhereAnswers ==
  ASSUME ToldInv, part # "definitions", part' = part, AtTheScreens
  PROVE  ToldInv'
<1>1. ASSUME UNCHANGED requestVars
      PROVE  ToldInv'
  BY <1>1 DEF requestVars, ToldInv, KindsApart
<1>2. ASSUME NEW h \in Handlers, GoTo(h, "ok")
      PROVE  ToldInv'
  <2>1. PICK r : r = [req[h] EXCEPT !.at = "ok"]
    OBVIOUS
  <2>2. GoOn(h, r) /\ ARequest(req[h])
    BY <1>2, <2>1 DEF GoTo, ToldInv, KindsApart
  <2>3. ARequest(r) /\ r.op = req[h].op
    BY <2>1, <2>2 DEF ARequest
  <2> QED
    BY <2>2, <2>3, ElsewhereGoesOn
<1>3. UNCHANGED requestVars \/ \E h \in Handlers : GoTo(h, "ok")
  BY DEF AtTheScreens, handle_fetch_logs, ScreenGoes, ScreenComes, uploadLogs, UploadFails
<1> QED
  BY <1>1, <1>2, <1>3

LEMMA NotBesides ==
  ASSUME ToldInv, part = "definitions", NEW h \in Handlers
  PROVE  ~StepNotifications(h) /\ ~FetchTimeout(h)
<1>1. req[h].op \notin {"event", "rule", "unrule", "logs"}
  BY DEF ToldInv, KindsApart, Definers
<1> QED
  BY <1>1 DEF StepNotifications, getEnabledRulesForEvent, dispatch, HandOn, createNotificationHistory,
              createNotificationRule, mongoDeleteHistory, deleteNotificationRule, FetchTimeout, At

LEMMA InitTold ==
  ASSUME Init
  PROVE  ToldInv
<1>1. req = [h \in Handlers |-> NoRequest]
  BY DEF Init, InitRequests
<1>2. \A h \in Handlers : /\ ARequest(req[h]) /\ req[h].op = "none" /\ req[h].at = "ok" /\ ~Open(h)
  BY <1>1 DEF ARequest, NoRequest, Open, Answered
<1>3. KindsApart
  BY <1>1, <1>2 DEF KindsApart, Tellers, Answered
<1>4. ASSUME part = "definitions"
      PROVE  DefinitionsOK
  <2>1. InitDefinitions
    BY <1>4 DEF Init
  <2>2. PICK s \in Starts, pl \in Playlist :
          members = s[1] /\ connected = s[2] /\ schedules = {[id |-> 1, pl |-> pl, to |-> s[3], prio |-> 0]}
    BY <2>1 DEF InitDefinitions
  <2>3. s[2] \subseteq Screen /\ s[3] \in Targets
    BY DefinitionsAssumption
  <2>4. PICK new : new = [id |-> 1, pl |-> pl, to |-> s[3], prio |-> 0]
    OBVIOUS
  <2>5. new \in Row /\ new.id = 1 /\ schedules = {new}
    BY <2>2, <2>3, <2>4 DEF Row
  <2>6. TablesOK
    <3>1. Rows(schedules) /\ \A x \in schedules : x.id < 2
      BY <2>5 DEF Rows
    <3>2. nextSchedule = 2 /\ groups \subseteq Group /\ connected \subseteq Screen /\ defs = [c \in Screen |-> defs[c]]
      BY <2>1, <2>2, <2>3 DEF InitDefinitions
    <3> QED
      BY <3>1, <3>2 DEF TablesOK
  <2>7. ArgumentsOK /\ Sequential /\ PushesOK
    BY <1>2, <2>1 DEF InitDefinitions, ArgumentsOK, Sequential, PushesOK
  <2> QED
    BY <1>2, <2>6, <2>7 DEF DefinitionsOK, Telling
<1> QED
  BY <1>3, <1>4 DEF ToldInv

\* what a step does to what screens are told, and how a request ends
LEMMA NextTold ==
  ASSUME ToldInv, [Next]_vars
  PROVE  /\ ToldInv'
         /\ \A h \in Handlers :
              Ends(h) /\ Isolated(h) /\ req[h].sound /\ req'[h].at = "ok" /\ req[h].op \in Tellers => ScreensCurrent'
<1> DEFINE Told(h) ==
      Ends(h) /\ Isolated(h) /\ req[h].sound /\ req'[h].at = "ok" /\ req[h].op \in Tellers => ScreensCurrent'
<1>1. ASSUME part # "definitions"
      PROVE  \A h \in Handlers : Told(h)
  BY <1>1 DEF ToldInv, KindsApart
<1>2. ASSUME UNCHANGED req
      PROVE  \A h \in Handlers : Told(h)
  BY <1>2 DEF Ends, Open
<1>3. ASSUME NEW g \in Handlers, part = "definitions", Definition(BeginDefinitions(g))
      PROVE  ToldInv' /\ \A h \in Handlers : Told(h)
  <2>1. ToldInv' /\ ~Open(g) /\ \A h \in Handlers \ {g} : req'[h].at = req[h].at
    BY <1>3, ToldBegins DEF Definition
  <2> QED
    BY <2>1 DEF Ends, Open
<1>4. ASSUME NEW g \in Handlers, part = "definitions", Definition(StepDefinitions(g))
      PROVE  ToldInv' /\ \A h \in Handlers : Told(h)
  <2>1. /\ ToldInv' /\ (\A h \in Handlers \ {g} : req'[h] = req[h])
        /\ Telling(g) /\ req'[g].at = "ok" => ScreensCurrent'
    BY <1>4, ToldSteps DEF Definition
  <2> QED
    BY <2>1 DEF Ends, Open, Telling
<1>5. ASSUME NEW g \in Handlers, part # "definitions",
             \/ Definition(StepDefinitions(g)) \/ Notification(StepNotifications(g)) \/ Fetch(FetchTimeout(g))
      PROVE  ToldInv'
  BY <1>5, ElsewhereSteps DEF Definition, Notification, Fetch
<1>6. ASSUME NEW g \in Handlers, part # "definitions",
             Notification(BeginNotifications(g)) \/ Fetch(BeginFetch(g))
      PROVE  ToldInv'
  <2>1. PICK op \in {"event", "rule", "unrule", "logs"} : \E at, on, arg, sound : Begin(g, op, at, on, arg, sound)
    BY <1>6 DEF Notification, BeginNotifications, fireEvent, createRule, deleteRule,
                Fetch, BeginFetch, fetchLogs, Unreached
  <2>2. part' = part /\ op \notin Tellers
    BY <1>6 DEF Notification, Fetch, Tellers
  <2> QED
    BY <1>6, <2>1, <2>2, ElsewhereBegins
<1>7. ASSUME Pushes
      PROVE  ToldInv' /\ \A h \in Handlers : Told(h)
  <2>1. PICK p \in pushes : (ReadSchedules(p) \/ SendDefinitions(p)) /\ part' = part
    BY <1>7 DEF Pushes, Definition, Push
  <2>2. UNCHANGED requestVars
    BY <2>1 DEF ReadSchedules, SendDefinitions
  <2>3. CASE part = "definitions"
    BY <1>2, <2>1, <2>2, <2>3, ToldRead, ToldSent DEF requestVars
  <2>4. CASE part # "definitions"
    BY <1>2, <2>1, <2>2, <2>4 DEF requestVars, ToldInv, KindsApart
  <2> QED
    BY <2>3, <2>4
<1>8. ASSUME Definition(Leave)
      PROVE  ToldInv' /\ \A h \in Handlers : Told(h)
  <2>1. PICK c \in Screen : handleDisconnection(c) /\ part' = part
    BY <1>8 DEF Definition, Leave
  <2>2. UNCHANGED requestVars
    BY <2>1 DEF handleDisconnection
  <2>3. CASE part = "definitions"
    BY <1>2, <2>1, <2>2, <2>3, ToldLeft DEF requestVars
  <2>4. CASE part # "definitions"
    BY <1>2, <2>1, <2>2, <2>4 DEF requestVars, ToldInv, KindsApart
  <2> QED
    BY <2>3, <2>4
<1>9. ASSUME part = "logs", Fetch(AtTheScreens)
      PROVE  ToldInv'
  BY <1>9, ElsewhereAnswers DEF Fetch
<1>10. ASSUME part = "telemetry", UNCHANGED <<requestVars, part>>
       PROVE  ToldInv'
  BY <1>10 DEF requestVars, ToldInv, KindsApart
<1>11. ASSUME UNCHANGED vars
       PROVE  ToldInv' /\ \A h \in Handlers : Told(h)
  <2>1. UNCHANGED <<requestVars, tables, pushVars, part, req>>
    BY <1>11 DEF vars, definitionVars, requestVars
  <2>2. CASE part = "definitions"
    <3>1. DefinitionsOK /\ UNCHANGED <<connected, defs, pushes>>
      BY <2>1, <2>2 DEF ToldInv, pushVars
    <3>2. ASSUME NEW h \in Handlers, Informed(req[h])
          PROVE  Informed(req[h])'
      <4>1. ListKept(req[h])' /\ \A x \in pushes' : x.at = "groups" => x.rows = schedules'
        BY <2>1, <3>1, <3>2, ScreensKept DEF Informed, tables
      <4>2. \A d : (IsCurrent(d) => IsCurrent(d)') /\ (IsToBeTold(req[h], d) => IsToBeTold(req[h], d)')
        BY <2>1, <3>1, ScreensKept DEF IsCurrent, IsToBeTold
      <4>3. OthersCurrent(req[h])'
        BY <2>1, <3>1, <3>2, <4>2 DEF Informed, OthersCurrent, ScreensCurrent, IsCurrent
      <4> QED
        BY <4>1, <4>3 DEF Informed
    <3>3. ToldInv'
      <4>1. /\ connected' \subseteq connected /\ defs' = [d \in Screen |-> defs'[d]]
            /\ pushes' \subseteq APush /\ \A x \in pushes' : \E y \in pushes : y.by = x.by
        BY <3>1 DEF DefinitionsOK, TablesOK, PushesOK
      <4> QED
        BY <2>1, <2>2, <3>2, <4>1, PushGoes
    <3> QED
      BY <1>2, <2>1, <3>3
  <2>3. CASE part # "definitions"
    BY <1>2, <2>1, <2>3 DEF ToldInv, KindsApart
  <2> QED
    BY <2>2, <2>3
<1>12. ASSUME NEW g \in Handlers, part = "definitions"
       PROVE  ~Notification(StepNotifications(g)) /\ ~Fetch(FetchTimeout(g))
  BY <1>12, NotBesides DEF Notification, Fetch
<1> HIDE DEF Told
<1>13. ASSUME NEW g \in Handlers, Step(g)
       PROVE  ToldInv' /\ \A h \in Handlers : Told(h)
  <2>1. \/ Definition(StepDefinitions(g)) \/ Notification(StepNotifications(g)) \/ Fetch(FetchTimeout(g))
    BY <1>13 DEF Step, StepFetch
  <2> QED
    BY <1>1, <1>4, <1>5, <1>12, <2>1
<1>14. ToldInv' /\ \A h \in Handlers : Told(h)
  <2>1. CASE \E g \in Handlers : Step(g)
    BY <1>13, <2>1
  <2>2. CASE \E g \in Handlers : part = "definitions" /\ Definition(BeginDefinitions(g))
    BY <1>3, <2>2
  <2>3. CASE \E g \in Handlers : \/ part = "notifications" /\ Notification(BeginNotifications(g))
                                 \/ part = "logs" /\ Fetch(BeginFetch(g))
    BY <1>1, <1>6, <2>3
  <2>4. CASE part = "logs" /\ Fetch(AtTheScreens)
    BY <1>1, <1>9, <2>4
  <2>5. CASE /\ part = "telemetry"
             /\ UNCHANGED <<requestVars, definitionVars, notificationVars, fetchVars, part>>
    BY <1>1, <1>10, <2>5
  <2> QED
    BY <1>7, <1>8, <1>11, <2>1, <2>2, <2>3, <2>4, <2>5 DEF Next
<1> QED
  BY <1>14 DEF Told

\* A request that changed a schedule or a group's members, or registered a screen
\* (the routes of schedules and of groups, and handleRegister), while every
\* connected screen held what applied to it and no other request was open, leaves
\* every connected screen with what applies to it, whichever screens go meanwhile:
\* those that lose a schedule and those that get it are among the screens its
\* pushes are for. ChangesAreTold, for any number of screens, groups and schedules.
THEOREM ScreensAreTold == Spec => ChangesAreTold
<1>1. Init => ToldInv
  BY InitTold
<1>2. ToldInv /\ [Next]_vars => ToldInv'
  BY NextTold
<1>3. ToldInv /\ [Next]_vars =>
        [\A h \in Handlers :
           Ends(h) /\ Isolated(h) /\ req[h].sound /\ req'[h].at = "ok"
             /\ req[h].op \in {"create", "change", "cancel", "join", "leave", "register"} => ScreensCurrent']_vars
  BY NextTold DEF Tellers
<1> QED
  BY <1>1, <1>2, <1>3, PTL DEF Spec, ChangesAreTold

(***************************************************************************)
(* The connections those pushes go over (ConnectionRegistry): one session  *)
(* per client, for any clients and sockets.  OneSession is not inductive   *)
(* by itself: Connect gives a socket its clientId afresh, and              *)
(* addConnection gives an entry to a socket, so that a step could take a   *)
(* socket from under another entry.  EntryKnown says that it cannot: an    *)
(* entry's socket belongs to that client alone, and nobody registers it.   *)
(***************************************************************************)
RegistryInv == RegistryTypeOK /\ EntryKnown /\ OneSession

\* Closing closes the open sockets of S and leaves the others as they are.
LEMMA ClosingCloses ==
  ASSUME RegistryTypeOK, NEW S
  PROVE  /\ Closing(S) \in [Sockets -> {"closed", "open", "closing"}]
         /\ \A s \in Sockets : Closing(S)[s] = "open" <=> link[s] = "open" /\ s \notin S
  BY DEF RegistryTypeOK, Closing

\* Initially no socket is open and the map is empty.
LEMMA RegistryStarts == InitRegistry => RegistryInv
  BY RegistryAssumption DEF InitRegistry, RegistryInv, RegistryTypeOK, EntryKnown, OneSession, Fresh, NewRow, Writes, Entries, ClientRows, Counts

\* removeConnection closes the sockets of the entries it deletes.
LEMMA RemoveKeeps ==
  ASSUME RegistryInv, NEW C \in SUBSET Clients, NEW marked, removeConnection(C, marked), UNCHANGED <<known, reg>>
  PROVE  EntryKnown' /\ OneSession'
<1>1. EntryKnown'
  BY RegistryAssumption DEF RegistryInv, RegistryTypeOK, EntryKnown, removeConnection
<1>2. OneSession'
  <2> SUFFICES ASSUME NEW s \in Sockets, link'[s] = "open", known[s] # None
               PROVE  conn'[known[s]] = s
    BY DEF OneSession, removeConnection
  <2>1. /\ link[s] = "open"
        /\ s \notin {conn[c] : c \in C}
    BY ClosingCloses DEF RegistryInv, removeConnection
  <2>2. known[s] \in Clients /\ conn[known[s]] = s
    BY <2>1 DEF RegistryInv, OneSession, RegistryTypeOK
  <2>3. known[s] \notin C
    BY <2>1, <2>2
  <2>4. QED
    BY <2>2, <2>3 DEF removeConnection
<1>3. QED
  BY <1>1, <1>2

\* The steps that touch none of link, known, reg and conn.
LEMMA OthersKeep ==
  ASSUME RegistryInv, UNCHANGED <<link, known, reg, conn>>
  PROVE  EntryKnown' /\ OneSession'
  BY DEF RegistryInv, EntryKnown, OneSession

\* What the steps of a socket keep.
LEMMA SocketStepKeeps ==
  ASSUME RegistryInv, NEW s \in Sockets, SocketStep(s)
  PROVE  EntryKnown' /\ OneSession'
<1> USE RegistryAssumption DEF RegistryInv, socketVars, rowVars
<1>1. CASE Connect(s)
  BY <1>1 DEF Connect, RegistryTypeOK, EntryKnown, OneSession
<1>2. CASE PeerCloses(s)
  BY <1>2 DEF PeerCloses, RegistryTypeOK, EntryKnown, OneSession
<1>3. CASE PeerLost(s)
  BY <1>3, OthersKeep DEF PeerLost
<1>4. CASE CloseEvent(s)
  BY <1>4 DEF CloseEvent, RegistryTypeOK, EntryKnown, OneSession
<1>5. CASE Pong(s)
  BY <1>5, OthersKeep DEF Pong
<1>6. CASE RegisterReads(s)
  BY <1>6 DEF RegisterReads, RegistryTypeOK, EntryKnown, OneSession
<1>7. CASE RegisterCreates(s) \/ RegisterMisses(s) \/ RegisterUpdates(s)
  BY <1>7 DEF RegisterCreates, RegisterMisses, RegisterUpdates, RegistryTypeOK, EntryKnown, OneSession
<1>8. CASE RegisterAdds(s)
  <2> DEFINE c == Owner[s]
  <2>1. known[s] = None /\ reg' = [reg EXCEPT ![s] = "idle"]
    BY <1>8 DEF RegisterAdds, EntryKnown
  <2>2. CASE link' = Closing({s}) /\ UNCHANGED <<known, conn>>
    BY <2>1, <2>2, ClosingCloses DEF RegistryTypeOK, EntryKnown, OneSession
  <2>3. CASE /\ link' = Closing({conn[c]})
             /\ conn' = [conn EXCEPT ![c] = s]
             /\ known' = [known EXCEPT ![s] = c]
    <3>1. EntryKnown'
      BY <2>1, <2>3 DEF RegistryTypeOK, EntryKnown
    <3>2. OneSession'
      BY <2>1, <2>3, ClosingCloses DEF RegistryTypeOK, OneSession
    <3>3. QED
      BY <3>1, <3>2
  <2>4. QED
    BY <1>8, <2>2, <2>3 DEF RegisterAdds
<1>9. CASE RegisterFails(s)
  BY <1>9, ClosingCloses DEF RegisterFails, RegistryTypeOK, EntryKnown, OneSession
<1>10. CASE \E kind \in Reports : Report(s, kind)
  BY <1>10, OthersKeep DEF Report
<1>11. QED
  BY <1>1, <1>2, <1>3, <1>4, <1>5, <1>6, <1>7, <1>8, <1>9, <1>10 DEF SocketStep, Register

\* What the steps of a client's row and entry keep.
LEMMA ClientStepKeeps ==
  ASSUME RegistryInv, NEW c \in Clients, ClientStep(c)
  PROVE  EntryKnown' /\ OneSession'
<1> USE DEF socketVars, rowVars
<1>1. CASE Unregister(c)
  BY <1>1, RemoveKeeps DEF Unregister
<1>2. CASE ~Unregister(c)
  <2>1. UNCHANGED <<link, known, reg, conn>>
    BY <1>2 DEF ClientStep, SweepWrites, HeartbeatAges, EntryAges, SeenAges, RowDeleted, WriteLands
  <2>2. QED
    BY <2>1, OthersKeep
<1>3. QED
  BY <1>1, <1>2

\* What is done to an entry, a row and a count leaves it an entry, a row and a
\* count.
LEMMA FreshTyped == Fresh \in Entries
  BY DEF Fresh, Entries

LEMMA EntryTyped ==
  ASSUME NEW e \in Entries
  PROVE  /\ [e EXCEPT !.alive = TRUE] \in Entries
         /\ [e EXCEPT !.alive = FALSE] \in Entries
         /\ [Fresh EXCEPT !.young = e.young] \in Entries
         /\ e.age < 2 => [e EXCEPT !.age = e.age + 1] \in Entries
         /\ [e EXCEPT !.young = FALSE] \in Entries
<1>1. Fresh \in Entries /\ e.young \in BOOLEAN
  BY FreshTyped DEF Entries
<1>2. [Fresh EXCEPT !.young = e.young] \in Entries
  BY <1>1 DEF Entries
<1>3. e.age < 2 => [e EXCEPT !.age = e.age + 1] \in Entries
  BY DEF Entries
<1>4. QED
  BY <1>2, <1>3 DEF Entries

LEMMA RowTyped ==
  /\ \A status \in {"none", "online", "error", "offline"} : NewRow(status) \in ClientRows
  /\ \A r \in ClientRows : [r EXCEPT !.status = "offline"] \in ClientRows /\ [r EXCEPT !.old = TRUE] \in ClientRows
  BY DEF NewRow, ClientRows

LEMMA CountTyped ==
  ASSUME NEW n \in Counts, NEW kind \in Writes
  PROVE  /\ [n EXCEPT ![kind] = n[kind] + 1] \in Counts
         /\ n[kind] > 0 => [n EXCEPT ![kind] = n[kind] - 1] \in Counts
  BY DEF Counts

LEMMA MarkedTyped == RegistryTypeOK => Marked \in [Clients -> Entries]
  BY EntryTyped DEF RegistryTypeOK, Marked

\* removeConnection keeps the types.
LEMMA RemoveTyped ==
  ASSUME RegistryTypeOK, NEW C \in SUBSET Clients, NEW marked, removeConnection(C, marked),
         marked \in [Clients -> Entries]
  PROVE  /\ link' \in [Sockets -> {"closed", "open", "closing"}]
         /\ conn' \in [Clients -> Sockets \cup {None}]
         /\ entry' \in [Clients -> Entries]
<1>1. link' \in [Sockets -> {"closed", "open", "closing"}]
  BY ClosingCloses DEF removeConnection
<1>2. conn' \in [Clients -> Sockets \cup {None}]
  BY DEF removeConnection, RegistryTypeOK
<1>3. entry' \in [Clients -> Entries]
  BY FreshTyped DEF removeConnection
<1>4. QED
  BY <1>1, <1>2, <1>3

\* A socket's steps keep the types.
LEMMA SocketStepTyped ==
  ASSUME RegistryInv, NEW s \in Sockets, SocketStep(s)
  PROVE  RegistryTypeOK'
<1> USE RegistryAssumption DEF socketVars, rowVars
<1> RegistryTypeOK /\ EntryKnown
  BY DEF RegistryInv
<1>1. CASE Connect(s)
  BY <1>1 DEF Connect, RegistryTypeOK
<1>2. CASE PeerCloses(s) \/ PeerLost(s)
  BY <1>2 DEF PeerCloses, PeerLost, RegistryTypeOK
<1>3. CASE CloseEvent(s)
  <2>1. writing' \in [Clients -> Counts]
    <3>1. "offline" \in Writes
      BY DEF Writes
    <3>2. QED
      BY <1>3, <3>1, CountTyped DEF CloseEvent, RegistryTypeOK
  <2>2. /\ entry' \in [Clients -> Entries]
        /\ conn' \in [Clients -> Sockets \cup {None}]
    BY <1>3, FreshTyped DEF CloseEvent, RegistryTypeOK
  <2>3. QED
    BY <1>3, <2>1, <2>2 DEF CloseEvent, RegistryTypeOK
<1>4. CASE Pong(s)
  BY <1>4, EntryTyped DEF Pong, RegistryTypeOK
<1>5. CASE RegisterReads(s)
  BY <1>5 DEF RegisterReads, RegistryTypeOK
<1>6. CASE RegisterCreates(s) \/ RegisterMisses(s) \/ RegisterUpdates(s)
  <2>1. NewRow("offline") \in ClientRows /\ NewRow("online") \in ClientRows
    BY RowTyped
  <2>2. QED
    BY <1>6, <2>1 DEF RegisterCreates, RegisterMisses, RegisterUpdates, RegistryTypeOK
<1>7. CASE RegisterAdds(s)
  <2>1. link' \in [Sockets -> {"closed", "open", "closing"}]
    BY <1>7, ClosingCloses DEF RegisterAdds
  <2>2. entry' \in [Clients -> Entries]
    BY <1>7, FreshTyped DEF RegisterAdds, RegistryTypeOK
  <2>3. /\ conn' \in [Clients -> Sockets \cup {None}]
        /\ known' \in [Sockets -> Clients \cup {None}]
    BY <1>7 DEF RegisterAdds, RegistryTypeOK
  <2>4. QED
    BY <1>7, <2>1, <2>2, <2>3 DEF RegisterAdds, RegistryTypeOK
<1>8. CASE RegisterFails(s)
  BY <1>8, ClosingCloses DEF RegisterFails, RegistryTypeOK
<1>9. CASE \E kind \in Reports : Report(s, kind)
  <2>1. PICK kind \in Writes : Report(s, kind)
    BY <1>9 DEF Writes
  <2>2. [writing[Owner[s]] EXCEPT ![kind] = writing[Owner[s]][kind] + 1] \in Counts
    BY CountTyped DEF RegistryTypeOK
  <2>3. writing' \in [Clients -> Counts]
    BY <2>1, <2>2 DEF Report, RegistryTypeOK
  <2>4. QED
    BY <2>1, <2>3 DEF Report, RegistryTypeOK
<1>10. QED
  BY <1>1, <1>2, <1>3, <1>4, <1>5, <1>6, <1>7, <1>8, <1>9 DEF SocketStep, Register

\* A client's steps keep the types.
LEMMA ClientStepTyped ==
  ASSUME RegistryTypeOK, NEW c \in Clients, ClientStep(c)
  PROVE  RegistryTypeOK'
<1> USE RegistryAssumption DEF socketVars, rowVars
<1>1. CASE SweepWrites(c)
  <2>1. [row[c] EXCEPT !.status = "offline"] \in ClientRows
    BY RowTyped DEF RegistryTypeOK
  <2>2. row' \in [Clients -> ClientRows]
    BY <1>1, <2>1 DEF SweepWrites, RegistryTypeOK
  <2>3. QED
    BY <1>1, <2>2 DEF SweepWrites, RegistryTypeOK
<1>2. CASE HeartbeatAges(c) \/ EntryAges(c)
  <2>1. entry[c] \in Entries
    BY DEF RegistryTypeOK
  <2>2. entry' \in [Clients -> Entries]
    <3>1. CASE HeartbeatAges(c)
      BY <2>1, <3>1, EntryTyped DEF HeartbeatAges, RegistryTypeOK
    <3>2. CASE EntryAges(c)
      BY <2>1, <3>2, EntryTyped DEF EntryAges, RegistryTypeOK
    <3>3. QED
      BY <1>2, <3>1, <3>2
  <2>3. QED
    BY <1>2, <2>2 DEF HeartbeatAges, EntryAges, RegistryTypeOK
<1>3. CASE SeenAges(c)
  BY <1>3, RowTyped DEF SeenAges, RegistryTypeOK
<1>4. CASE Unregister(c)
  <2>1. entry \in [Clients -> Entries]
    BY DEF RegistryTypeOK
  <2>2. QED
    BY <1>4, <2>1, RemoveTyped DEF Unregister, RegistryTypeOK
<1>5. CASE RowDeleted(c)
  BY <1>5, RowTyped DEF RowDeleted, RegistryTypeOK
<1>6. ASSUME NEW kind \in Writes, WriteLands(c, kind)
      PROVE  RegistryTypeOK'
  <2>1. writing' \in [Clients -> Counts]
    BY <1>6, CountTyped DEF WriteLands, RegistryTypeOK
  <2>2. row' \in [Clients -> ClientRows]
    <3>1. Stored(c, kind) \in ClientRows
      BY RowTyped, RegistryAssumption DEF Stored, Writes, RegistryTypeOK
    <3>2. QED
      BY <1>6, <3>1 DEF WriteLands, RegistryTypeOK
  <2>3. entry' \in [Clients -> Entries]
    <3>1. [Fresh EXCEPT !.young = entry[c].young] \in Entries
      BY EntryTyped DEF RegistryTypeOK
    <3>2. QED
      BY <1>6, <3>1 DEF WriteLands, RegistryTypeOK
  <2>4. QED
    BY <1>6, <2>1, <2>2, <2>3 DEF WriteLands, RegistryTypeOK
<1>7. QED
  BY <1>1, <1>2, <1>3, <1>4, <1>5, <1>6 DEF ClientStep

\* Every step keeps the invariant.
LEMMA RegistryStep == RegistryInv /\ [NextRegistry]_registryVars => RegistryInv'
<1> SUFFICES ASSUME RegistryInv, [NextRegistry]_registryVars
             PROVE  RegistryInv'
  OBVIOUS
<1> USE DEF socketVars, rowVars
<1>1. ASSUME NEW s \in Sockets, SocketStep(s)
      PROVE  RegistryInv'
  BY <1>1, SocketStepKeeps, SocketStepTyped DEF RegistryInv
<1>2. ASSUME NEW c \in Clients, ClientStep(c)
      PROVE  RegistryInv'
  BY <1>2, ClientStepKeeps, ClientStepTyped DEF RegistryInv
<1>3. CASE HealthCheck
  <2> DEFINE C == {c \in Clients : conn[c] # None /\ ~entry[c].alive}
  <2>1. removeConnection(C, Marked) /\ UNCHANGED <<lost, known, reg, rowVars>>
    BY <1>3 DEF HealthCheck
  <2>2. RegistryTypeOK'
    BY <2>1, RemoveTyped, MarkedTyped DEF RegistryInv, RegistryTypeOK
  <2>3. QED
    BY <2>1, <2>2, RemoveKeeps DEF RegistryInv
<1>4. CASE RemoveStale
  <2> DEFINE C == {c \in Clients : conn[c] # None /\ entry[c].age = 2}
  <2>1. removeConnection(C, entry) /\ UNCHANGED <<lost, known, reg, rowVars>>
    BY <1>4 DEF RemoveStale
  <2>2. RegistryTypeOK'
    BY <2>1, RemoveTyped DEF RegistryInv, RegistryTypeOK
  <2>3. QED
    BY <2>1, <2>2, RemoveKeeps DEF RegistryInv
<1>5. CASE SweepReads
  BY <1>5, OthersKeep DEF SweepReads, RegistryInv, RegistryTypeOK
<1>6. CASE Restart
  BY <1>6, RegistryAssumption, FreshTyped DEF Restart, RegistryInv, RegistryTypeOK, EntryKnown, OneSession, Counts
<1>7. CASE UNCHANGED registryVars
  BY <1>7 DEF registryVars, RegistryInv, RegistryTypeOK, EntryKnown, OneSession
<1>8. QED
  BY <1>1, <1>2, <1>3, <1>4, <1>5, <1>6, <1>7 DEF NextRegistry

\* The map and the sockets agree in every reachable state: an open registered
\* socket is the one its client's messages are sent to, in the face of
\* reconnection, duplicates, late closes, the health check and deletion.
THEOREM SessionCorrect == RegistrySpec => [](RegistryTypeOK /\ OneSession)
<1>1. RegistryInv => RegistryTypeOK /\ OneSession
  BY DEF RegistryInv
<1>2. QED
  BY <1>1, RegistryStarts, RegistryStep, PTL DEF RegistrySpec

\* The sockets, the map and the rows keep their shape for any clients and
\* sockets; a write under way is never counted below zero.
THEOREM RegistryTypes == RegistrySpec => []RegistryTypeOK
  BY SessionCorrect, PTL
=============================================================================
