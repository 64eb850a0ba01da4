--------------------------- MODULE ContentProofs ---------------------------
(***************************************************************************)
(* The upload page and the library behind it, for any files, playlists,    *)
(* tracks and folders, any number of requests at once, and any back end    *)
(* but where a theorem says otherwise.  Neither invariant is inductive:    *)
(* the page's rests on what each entry waits for and on the sessions it    *)
(* knows of, the library's on what every request still has in hand, and on *)
(* a file that has no row yet being nobody else's.                         *)
(***************************************************************************)
EXTENDS Content, FiniteSetTheorems, SequenceTheorems, WellFoundedInduction, TLAPS

\* The elements of a set of queue ids that come before one.
Before(Q, e) == {d \in Q : d < e}

\* Of a finite set of numbers those with fewer than k before them: they are k at
\* most, and k if there are others.
LEMMA FirstOnes ==
  ASSUME NEW Q \in SUBSET Nat, IsFiniteSet(Q), NEW k \in Nat
  PROVE  LET first == {e \in Q : Cardinality(Before(Q, e)) < k} IN
         /\ IsFiniteSet(first) /\ Cardinality(first) <= k
         /\ Q \ first # {} => Cardinality(first) = k
<1> DEFINE first == {e \in Q : Cardinality(Before(Q, e)) < k}
           rank == [e \in first |-> Cardinality(Before(Q, e))]
<1>1. \A e \in Q : e \in Int
  OBVIOUS
<1>2. IsFiniteSet(first) /\ Cardinality(first) \in Nat
  BY FS_Subset, FS_CardinalityType
<1>3. \A e \in Q : IsFiniteSet(Before(Q, e)) /\ Cardinality(Before(Q, e)) \in Nat
  BY FS_Subset, FS_CardinalityType DEF Before
<1>4. ASSUME NEW d \in Q, NEW e \in Q, d < e
      PROVE  Cardinality(Before(Q, d)) < Cardinality(Before(Q, e))
  <2>1. Before(Q, d) \in SUBSET Before(Q, e) /\ d \in Before(Q, e) /\ d \notin Before(Q, d)
    <3>1. \A c \in Before(Q, d) : c \in Before(Q, e)
      BY <1>1, <1>4 DEF Before
    <3>2. d \in Before(Q, e) /\ d \notin Before(Q, d)
      BY <1>1, <1>4 DEF Before
    <3>4. QED
      BY <3>1, <3>2
  <2>2. /\ Cardinality(Before(Q, d)) <= Cardinality(Before(Q, e))
        /\ Cardinality(Before(Q, e)) = Cardinality(Before(Q, d)) => Before(Q, e) = Before(Q, d)
    BY <1>3, <2>1, FS_Subset
  <2>3. QED
    BY <1>3, <2>1, <2>2
<1>5. rank \in Injection(first, 0..(k - 1))
  <2>1. \A e \in first : rank[e] \in 0..(k - 1)
    BY <1>3
  <2>2. \A d, e \in first : rank[d] = rank[e] => d = e
    BY <1>3, <1>4
  <2>3. QED
    BY <2>1, <2>2 DEF Injection, IsInjective
<1>6. Cardinality(first) <= k
  BY <1>5, FS_Injection, FS_Interval
<1>7. ASSUME Q \ first # {}
      PROVE  Cardinality(first) >= k
  <2> DEFINE befores == {Before(Q, e) : e \in Q \ first}
  <2>1. IsWellFoundedOn(StrictSubsetOrdering(Q), FiniteSubsetsOf(Q))
    BY FS_StrictSubsetOrderingWellFounded
  <2>2. befores \subseteq FiniteSubsetsOf(Q) /\ befores # {}
    BY <1>3, <1>7 DEF FiniteSubsetsOf, Before
  <2>3. PICK B \in befores : \A C \in befores : <<C, B>> \notin StrictSubsetOrdering(Q)
    BY <2>1, <2>2, WFMin
  <2>4. PICK e \in Q \ first : B = Before(Q, e)
    OBVIOUS
  <2>5. ASSUME NEW d \in Before(Q, e), d \notin first
        PROVE  FALSE
    <3>1. d \in Q \ first /\ d < e
      BY <2>5 DEF Before
    <3>2. \A c \in Before(Q, d) : c \in Before(Q, e)
      BY <1>1, <3>1 DEF Before
    <3>3. d \in Before(Q, e) /\ d \notin Before(Q, d) /\ Before(Q, e) \subseteq Q
      BY <1>1, <3>1 DEF Before
    <3>4. Before(Q, d) \in befores
      BY <3>1
    <3>5. <<Before(Q, d), B>> \in StrictSubsetOrdering(Q)
      BY <2>4, <3>2, <3>3 DEF StrictSubsetOrdering
    <3>6. QED
      BY <2>3, <3>4, <3>5
  <2>6. Before(Q, e) \subseteq first
    BY <2>5
  <2>7. QED
    BY <1>2, <1>3, <2>4, <2>6, FS_Subset
<1>8. QED
  BY <1>2, <1>6, <1>7

(***************************************************************************)
(* The upload page                                                         *)
(***************************************************************************)
EntryFields == {"state", "at", "tries", "upload", "chunk", "attempt", "aborted", "known", "answer"}

Chosen(entries) == {e \in Entry : entries[e].state # "none"}
InState(entries, state) == {e \in Entry : entries[e].state = state}

\* What is so of one entry, whatever the others do: it waits for something only
\* while it uploads, it knows the sessions of its uploads but not that of the one
\* it is still asking for, and it is told of a job done only when it is.
EntryOK(e, r) ==
  /\ DOMAIN r = EntryFields /\ r.upload \in Nat
  /\ r.state # "uploading" => r.at = "none"
  /\ r.at = "simple" => e \in Small
  /\ r.state \in {"none", "queued"} => r.known = {}
  /\ r.state = "cancelled" => r.aborted
  /\ r.known \subseteq 1..r.upload
  /\ r.at = "init" => r.upload > 0 /\ r.upload \notin r.known
  /\ r.answer = "done" \/ (r.state = "done" /\ e \notin Small) => e \in stored

\* Of an entry that was cancelled every session it knows of is being given up.
AbortOf(e, n) == [what |-> "abort", e |-> e, upload |-> n, chunk |-> 0]
GivesUp(e, r, requests) == r.aborted => \A n \in r.known : IsOpen(<<e, n>>) => AbortOf(e, n) \in requests

EntriesOK == entry = [e \in Entry |-> entry[e]] /\ \A e \in Entry : EntryOK(e, entry[e])
GivingUp == \A e \in Entry : GivesUp(e, entry[e], wire)

\* A session is asked for by the entry that waits for it, if it is on the wire.
InitsAsked == \A m \in wire : m.what = "init" => m \in Asks(entry)
JobsTrue ==
  \A j \in job : j.state = "done" => j.id[1] \in stored
PageInv ==
  /\ IsFiniteSet(Chosen(entry)) /\ SlotsUsed /\ active \in Nat
  /\ EntriesOK /\ GivingUp /\ InitsAsked /\ JobsTrue

\* An entry that is started asks for its session, or posts its file.
LEMMA StartOK ==
  ASSUME NEW e \in Entry, NEW r, EntryOK(e, r), r.state = "queued"
  PROVE  /\ EntryOK(e, startUpload(e, r))
         /\ startUpload(e, r).state = "uploading"
         /\ startUpload(e, r).known = {}
<1>1. DOMAIN r = EntryFields /\ r.upload \in Nat /\ r.known = {}
  BY DEF EntryOK
<1>2. PICK s : s = startUpload(e, r)
  OBVIOUS
<1>3. /\ DOMAIN s = EntryFields
      /\ s.state = "uploading" /\ s.upload = r.upload + 1
      /\ s.at = IF e \notin Small THEN "init" ELSE IF r.aborted THEN "hung" ELSE "simple"
      /\ s.known = r.known /\ s.answer = r.answer
  BY <1>1, <1>2 DEF EntryFields, startUpload, upload
<1>4. EntryOK(e, s)
  BY <1>1, <1>3 DEF EntryOK
<1>5. QED
  BY <1>1, <1>2, <1>3, <1>4

\* As many are started as there are slots, those first that were chosen first.
LEMMA PumpFills ==
  ASSUME NEW entries, IsFiniteSet(Chosen(entries)),
         NEW taken \in Nat, taken = Cardinality(InState(entries, "uploading")), taken <= Concurrency,
         NEW starts, NEW queued,
         queued = InState(entries, "queued"),
         \A e : e \in starts <=> e \in queued /\ taken + Cardinality(Before(queued, e)) < Concurrency
  PROVE  /\ Cardinality(InState(entries, "uploading") \cup starts) = taken + Cardinality(starts)
         /\ Cardinality(starts) \in Nat /\ taken + Cardinality(starts) <= Concurrency
         /\ queued \ starts # {} => taken + Cardinality(starts) = Concurrency
<1> DEFINE uploading == InState(entries, "uploading")
<1>1. IsFiniteSet(uploading) /\ IsFiniteSet(queued) /\ uploading \cap queued = {}
      /\ queued \in SUBSET Nat
  <2>1. uploading \in SUBSET Chosen(entries) /\ queued \in SUBSET Chosen(entries)
    BY DEF Chosen, InState
  <2>2. uploading \cap queued = {} /\ queued \in SUBSET Nat
    BY PageAssumption DEF InState
  <2>3. QED
    BY <2>1, <2>2, FS_Subset
<1>2. Concurrency \in Nat /\ Concurrency - taken \in Nat
  BY PageAssumption
<1>3. \A e \in queued : Cardinality(Before(queued, e)) \in Nat
  BY <1>1, FS_Subset, FS_CardinalityType DEF Before
<1>4. starts = {e \in queued : Cardinality(Before(queued, e)) < Concurrency - taken}
  BY <1>2, <1>3
<1>5. /\ IsFiniteSet(starts) /\ Cardinality(starts) <= Concurrency - taken
      /\ queued \ starts # {} => Cardinality(starts) = Concurrency - taken
  BY <1>1, <1>2, <1>4, FirstOnes
<1>6. Cardinality(starts) \in Nat
  BY <1>5, FS_CardinalityType
<1>7. Cardinality(uploading \cup starts) = Cardinality(uploading) + Cardinality(starts)
  <2>1. uploading \cap starts = {} /\ Cardinality({}) = 0
    BY <1>1, FS_EmptySet
  <2>2. Cardinality(uploading \cup starts) =
          Cardinality(uploading) + Cardinality(starts) - Cardinality(uploading \cap starts)
    BY <1>1, <1>5, FS_Union
  <2>3. QED
    BY <1>6, <2>1, <2>2
<1>8. QED
  BY <1>2, <1>5, <1>6, <1>7

\* pump keeps the invariant, whatever has become of one entry before it.
LEMMA PumpKeeps ==
  ASSUME PageInv, UNCHANGED serverVars,
         NEW entries, NEW taken \in Nat, NEW also,
         Pump(entries, taken, also),
         IsFiniteSet(Chosen(entries)),
         taken = Cardinality(InState(entries, "uploading")), taken <= Concurrency,
         \A e \in Entry : EntryOK(e, entries[e]) /\ GivesUp(e, entries[e], wire \cup also)
  PROVE  PageInv'
<1> DEFINE queued == {e \in Entry : entries[e].state = "queued"}
           starts == {e \in queued : taken + Cardinality(Before(queued, e)) < Concurrency}
           now == [e \in Entry |-> IF e \in starts THEN startUpload(e, entries[e]) ELSE entries[e]]
<1>1. /\ entry' = now /\ active' = taken + Cardinality(starts)
      /\ wire' = Mattering(wire \cup (Asks(now) \ Asks(entry)) \cup also, session, now)
  BY DEF Pump, Before
<1>2. UNCHANGED <<session, job, stored>>
  BY DEF serverVars
<1>3. \A e \in Entry : EntryOK(e, now[e])
  BY StartOK
<1>4. EntriesOK'
  BY <1>1, <1>2, <1>3 DEF EntriesOK, EntryOK
<1>5. \A e \in Entry : now[e].state = IF e \in starts THEN "uploading" ELSE entries[e].state
  BY StartOK
<1>6. IsFiniteSet(Chosen(entry'))
  <2>1. Chosen(now) = Chosen(entries)
    BY <1>5 DEF Chosen
  <2>2. QED
    BY <1>1, <2>1
<1>7. /\ InState(now, "uploading") = InState(entries, "uploading") \cup starts
      /\ InState(now, "queued") = queued \ starts
  BY <1>5 DEF InState
<1>8. SlotsUsed' /\ active' \in Nat
  <2>1. /\ Cardinality(InState(entries, "uploading") \cup starts) = taken + Cardinality(starts)
        /\ Cardinality(starts) \in Nat /\ taken + Cardinality(starts) <= Concurrency
        /\ queued \ starts # {} => taken + Cardinality(starts) = Concurrency
    <3>1. PICK Q : Q = queued
      OBVIOUS
    <3>2. PICK S : S = {e \in Q : taken + Cardinality(Before(Q, e)) < Concurrency}
      OBVIOUS
    <3> \A e : e \in S <=> e \in Q /\ taken + Cardinality(Before(Q, e)) < Concurrency
      BY <3>2
    <3>3. Q = InState(entries, "queued")
      BY <3>1 DEF InState
    <3>4. /\ Cardinality(InState(entries, "uploading") \cup S) = taken + Cardinality(S)
          /\ Cardinality(S) \in Nat /\ taken + Cardinality(S) <= Concurrency
          /\ Q \ S # {} => taken + Cardinality(S) = Concurrency
      BY <3>3, PumpFills
    <3>5. QED
      BY <3>1, <3>2, <3>4
  <2>2. /\ active' = Cardinality(InState(entry', "uploading")) /\ active' <= Concurrency
        /\ InState(entry', "queued") # {} => active' = Concurrency
        /\ active' \in Nat
    <3> HIDE DEF starts, queued, now
    <3>1. /\ InState(entry', "uploading") = InState(entries, "uploading") \cup starts
          /\ InState(entry', "queued") = queued \ starts
      BY <1>1, <1>7
    <3>2. active' = taken + Cardinality(starts)
      BY <1>1
    <3>3. QED
      BY <2>1, <3>1, <3>2
  <2>3. QED
    BY <2>2 DEF SlotsUsed, InState
<1>9. GivingUp'
  <2> SUFFICES ASSUME NEW e \in Entry, now[e].aborted, NEW n \in now[e].known, IsOpen(<<e, n>>)
               PROVE  AbortOf(e, n) \in wire'
    BY <1>1, <1>2 DEF GivingUp, GivesUp, IsOpen
  <2>1. e \notin starts
    BY StartOK
  <2>2. AbortOf(e, n) \in wire \cup also
    BY <2>1 DEF GivesUp
  <2>3. QED
    BY <1>1, <2>2 DEF Mattering, AbortOf, Id, IsOpen
<1>10. InitsAsked'
  BY <1>1 DEF InitsAsked, Mattering
<1>11. JobsTrue'
  BY <1>2 DEF PageInv, JobsTrue
<1>12. QED
  BY <1>4, <1>6, <1>8, <1>9, <1>10, <1>11 DEF PageInv

\* So does a callback that changes one entry and then pumps: a slot is given back
\* by an entry that had one.
LEMMA EntryPumps ==
  ASSUME PageInv, UNCHANGED serverVars,
         NEW e \in Entry, NEW r, NEW taken, NEW also,
         Pump([entry EXCEPT ![e] = r], taken, also),
         EntryOK(e, r), r.state # "none", GivesUp(e, r, wire \cup also),
         \/ taken = active /\ (r.state = "uploading" <=> entry[e].state = "uploading")
         \/ taken = active - 1 /\ r.state # "uploading" /\ entry[e].state = "uploading"
  PROVE  PageInv'
<1>1. PICK entries : entries = [entry EXCEPT ![e] = r]
  OBVIOUS
<1>2. \A d \in Entry : entries[d] = IF d = e THEN r ELSE entry[d]
  BY <1>1 DEF PageInv, EntriesOK
<1>3. IsFiniteSet(Chosen(entries))
  <2>1. Chosen(entries) \in SUBSET (Chosen(entry) \cup {e})
    BY <1>2 DEF Chosen
  <2>2. QED
    BY <2>1, FS_AddElement, FS_Subset DEF PageInv
<1>4. /\ IsFiniteSet(InState(entry, "uploading")) /\ active \in Nat /\ active <= Concurrency
      /\ active = Cardinality(InState(entry, "uploading"))
  <2>1. InState(entry, "uploading") \in SUBSET Chosen(entry)
    BY DEF InState, Chosen
  <2>2. QED
    BY <2>1, FS_Subset DEF PageInv, SlotsUsed, InState
<1>5. taken \in Nat /\ taken = Cardinality(InState(entries, "uploading")) /\ taken <= Concurrency
  <2>1. CASE taken = active /\ (r.state = "uploading" <=> entry[e].state = "uploading")
    <3>1. InState(entries, "uploading") = InState(entry, "uploading")
      BY <1>2, <2>1 DEF InState
    <3>2. QED
      BY <1>4, <2>1, <3>1
  <2>2. CASE taken = active - 1 /\ r.state # "uploading" /\ entry[e].state = "uploading"
    <3>1. InState(entries, "uploading") = InState(entry, "uploading") \ {e}
          /\ e \in InState(entry, "uploading")
      BY <1>2, <2>2 DEF InState
    <3>2. Cardinality(InState(entries, "uploading")) = active - 1
      BY <1>4, <3>1, FS_RemoveElement
    <3>3. IsFiniteSet(InState(entries, "uploading"))
      BY <1>4, <3>1, FS_RemoveElement
    <3>4. QED
      BY <1>4, <2>2, <3>2, <3>3, FS_CardinalityType, PageAssumption
  <2>3. QED
    BY <2>1, <2>2
<1>6. \A d \in Entry : EntryOK(d, entries[d]) /\ GivesUp(d, entries[d], wire \cup also)
  BY <1>2 DEF PageInv, EntriesOK, GivingUp, GivesUp
<1>7. QED
  BY <1>1, <1>3, <1>5, <1>6, PumpKeeps

\* startUpload's loop has left, and its catch.
LEMMA LeavesKeeps ==
  ASSUME PageInv, UNCHANGED serverVars,
         NEW e \in Entry, NEW r, NEW state \in {"done", "failed", "cancelled"}, NEW also,
         entry[e].state = "uploading", EntryOK(e, r), GivesUp(e, r, wire \cup also),
         state = "cancelled" => r.aborted, state = "done" => e \in Small \cup stored,
         Leaves(e, r, state, also)
  PROVE  PageInv'
<1>1. PICK s : s = [r EXCEPT !.state = state, !.at = "none"]
  OBVIOUS
<1>2. /\ DOMAIN s = EntryFields /\ s.state = state /\ s.at = "none" /\ s.upload = r.upload
      /\ s.aborted = r.aborted /\ s.known = r.known /\ s.answer = r.answer
  BY <1>1 DEF EntryOK, EntryFields
<1>3. EntryOK(e, s) /\ GivesUp(e, s, wire \cup also) /\ s.state # "none" /\ s.state # "uploading"
  BY <1>2 DEF EntryOK, GivesUp
<1>4. Pump([entry EXCEPT ![e] = s], active - 1, also)
  BY <1>1 DEF Leaves
<1>5. QED
  BY <1>3, <1>4, EntryPumps

\* So does its error being caught and tried again, once its wait is over.
LEMMA CaughtKeeps ==
  ASSUME PageInv, UNCHANGED serverVars,
         NEW e \in Entry, NEW r, NEW also,
         entry[e].state = "uploading", r.state = "uploading", EntryOK(e, r), GivesUp(e, r, wire \cup also),
         Caught(e, r, also)
  PROVE  PageInv'
<1>1. CASE r.aborted
  BY <1>1, LeavesKeeps DEF Caught
<1>2. CASE ~r.aborted /\ r.tries < MaxRetries
  <2>1. PICK s : s = [r EXCEPT !.tries = @ + 1, !.at = "backoff"]
    OBVIOUS
  <2>2. /\ DOMAIN s = EntryFields /\ s.state = "uploading" /\ s.at = "backoff" /\ s.upload = r.upload
        /\ s.aborted = r.aborted /\ s.known = r.known /\ s.answer = r.answer
    BY <2>1 DEF EntryOK, EntryFields
  <2>3. EntryOK(e, s) /\ GivesUp(e, s, wire \cup also)
    BY <2>2 DEF EntryOK, GivesUp
  <2>4. Pump([entry EXCEPT ![e] = s], active, also)
    BY <1>2, <2>1 DEF Caught
  <2>5. QED
    BY <2>2, <2>3, <2>4, EntryPumps
<1>3. CASE ~r.aborted /\ ~(r.tries < MaxRetries)
  BY <1>3, LeavesKeeps DEF Caught
<1>4. QED
  BY <1>1, <1>2, <1>3

\* mediaAPI.upload goes on to its next request or timer.
LEMMA RunsOn ==
  ASSUME PageInv, UNCHANGED serverVars,
         NEW e \in Entry, NEW r, NEW s,
         entry[e].state = "uploading", EntryOK(e, r), GivesUp(e, r, wire),
         DOMAIN s = EntryFields, s.state = "uploading", s.upload = r.upload, s.aborted = r.aborted,
         s.known = r.known, s.answer = r.answer, s.at \notin {"init", "simple"},
         Pumped(e, s)
  PROVE  PageInv'
<1>1. EntryOK(e, s) /\ GivesUp(e, s, wire \cup {})
  BY DEF EntryOK, GivesUp
<1>2. QED
  BY <1>1, EntryPumps DEF Pumped

\* Whatever answer an upload gets, the invariant stays.
LEMMA GoesKeeps ==
  ASSUME PageInv, UNCHANGED serverVars,
         NEW e \in Entry, NEW r, NEW answer,
         entry[e].state = "uploading", r.state = "uploading", EntryOK(e, r), GivesUp(e, r, wire),
         answer = "done" => e \in stored,
         Goes(e, r, answer)
  PROVE  PageInv'
<1>1. GivesUp(e, r, wire \cup {})
  BY DEF GivesUp
<1>2. ASSUME Caught(e, r, {}) PROVE PageInv'
  BY <1>1, <1>2, CaughtKeeps
<1>3. DOMAIN r = EntryFields
  BY DEF EntryOK
<1>4. ASSUME NEW q, chunkLoop(e, q), q.state = "uploading", GivesUp(e, q, wire),
             IF q.aborted THEN EntryOK(e, q)
             ELSE /\ DOMAIN q = EntryFields /\ q.upload \in Nat /\ q.known \subseteq 1..q.upload
                  /\ q.answer = "done" => e \in stored
      PROVE  PageInv'
  <2>1. GivesUp(e, q, wire \cup {}) /\ DOMAIN q = EntryFields
    BY <1>4 DEF GivesUp, EntryOK
  <2>2. CASE q.aborted
    BY <1>4, <2>1, <2>2, CaughtKeeps DEF chunkLoop
  <2>3. CASE ~q.aborted
    <3>1. PICK s : s = [q EXCEPT !.chunk = @ + 1, !.attempt = 1, !.at = "chunk"]
      OBVIOUS
    <3>2. /\ DOMAIN s = EntryFields /\ s.state = "uploading" /\ s.at = "chunk" /\ s.upload = q.upload
          /\ s.aborted = q.aborted /\ s.known = q.known /\ s.answer = q.answer
      BY <1>4, <2>1, <3>1 DEF EntryFields
    <3>3. Pumped(e, s)
      BY <1>4, <2>3, <3>1 DEF chunkLoop
    <3>4. EntryOK(e, s) /\ GivesUp(e, s, wire \cup {})
      BY <1>4, <2>3, <3>2 DEF EntryOK, GivesUp
    <3>5. QED
      BY <1>4, <3>2, <3>3, <3>4, EntryPumps DEF Pumped
  <2>4. QED
    BY <2>2, <2>3
<1>5. ASSUME NEW at \in {"chunkwait", "complete", "pollwait", "status"}, Pumped(e, [r EXCEPT !.at = at])
      PROVE  PageInv'
  <2>1. PICK s : s = [r EXCEPT !.at = at]
    OBVIOUS
  <2>2. /\ DOMAIN s = EntryFields /\ s.state = "uploading" /\ s.at = at /\ s.upload = r.upload
        /\ s.aborted = r.aborted /\ s.known = r.known /\ s.answer = r.answer
    BY <1>3, <2>1 DEF EntryFields
  <2>3. QED
    BY <1>5, <2>1, <2>2, RunsOn
<1>6. CASE r.at = "chunk"
  <2>1. Pump([entry EXCEPT ![e] = [r EXCEPT !.at = "chunkwait"]], active, {}) => Pumped(e, [r EXCEPT !.at = "chunkwait"])
    BY DEF Pumped
  <2>2. QED
    BY <1>2, <1>3, <1>4, <1>5, <1>6, <2>1 DEF Goes, _uploadChunkWithRetry, ChunkAgain, EntryOK
<1>7. CASE r.at = "status"
  <2>1. CASE answer = "done"
    BY <1>1, <1>7, <2>1, LeavesKeeps DEF Goes, _pollCompletionStatus
  <2>2. CASE answer # "done"
    BY <1>2, <1>5, <1>7, <2>2 DEF Goes, _pollCompletionStatus
  <2>3. QED
    BY <2>1, <2>2
<1>8. CASE r.at = "simple"
  <2>1. e \in Small
    BY <1>8 DEF EntryOK
  <2>2. QED
    BY <1>1, <1>2, <1>8, <2>1, LeavesKeeps DEF Goes, _simpleUpload
<1>9. CASE r.at = "init" /\ answer = "2xx"
  <2>1. CASE r.aborted
    BY <1>4, <1>9, <2>1 DEF Goes
  <2>2. CASE ~r.aborted
    <3>1. PICK s : s = [r EXCEPT !.known = @ \cup {r.upload}]
      OBVIOUS
    <3>2. /\ DOMAIN s = EntryFields /\ s.state = "uploading" /\ s.at = "init" /\ s.upload = r.upload
          /\ ~s.aborted /\ s.known = r.known \cup {r.upload} /\ s.answer = r.answer
      BY <1>3, <1>9, <2>2, <3>1 DEF EntryFields
    <3>3. chunkLoop(e, s)
      BY <1>9, <2>2, <3>1 DEF Goes
    <3>4. s.upload \in Nat /\ s.known \subseteq 1..s.upload /\ (s.answer = "done" => e \in stored)
      BY <1>9, <3>2 DEF EntryOK
    <3>5. QED
      BY <1>4, <3>2, <3>3, <3>4 DEF GivesUp
  <2>3. QED
    BY <2>1, <2>2
<1>10. CASE r.at = "complete" /\ answer = "2xx"
  BY <1>2, <1>5, <1>10 DEF Goes
<1>11. QED
  BY <1>2, <1>6, <1>7, <1>8, <1>9, <1>10 DEF Goes

\* The editor chooses a file, cancels it, tries it again; the timers fire; an
\* answer is there.
LEMMA CallbackKeeps ==
  ASSUME PageInv, NEW e \in Entry,
         enqueue(e) \/ cancel(e) \/ retry(e) \/ Backoff(e) \/ Timer(e) \/ Arrives(e)
  PROVE  PageInv'
<1>1. UNCHANGED serverVars
  BY DEF enqueue, cancel, retry, Backoff, Timer, Arrives
<1>2. EntryOK(e, entry[e]) /\ GivesUp(e, entry[e], wire)
  BY DEF PageInv, EntriesOK, GivingUp
<1>3. DOMAIN entry[e] = EntryFields /\ entry[e].upload \in Nat
  BY <1>2 DEF EntryOK
<1>4. CASE enqueue(e)
  <2>1. PICK s : s = [Fresh EXCEPT !.state = "queued"]
    OBVIOUS
  <2>2. /\ DOMAIN s = EntryFields /\ s.state = "queued" /\ s.at = "none" /\ s.upload = 0
        /\ ~s.aborted /\ s.known = {} /\ s.answer = Nothing
    BY <2>1 DEF Fresh, EntryFields
  <2>3. EntryOK(e, s) /\ GivesUp(e, s, wire \cup {})
    BY <2>2 DEF EntryOK, GivesUp, Nothing
  <2>4. QED
    BY <1>1, <1>4, <2>1, <2>2, <2>3, EntryPumps DEF enqueue, Pumped
<1>5. CASE retry(e)
  <2>1. PICK s : s = [Fresh EXCEPT !.state = "queued", !.upload = entry[e].upload]
    OBVIOUS
  <2>2. /\ DOMAIN s = EntryFields /\ s.state = "queued" /\ s.at = "none" /\ s.upload = entry[e].upload
        /\ ~s.aborted /\ s.known = {} /\ s.answer = Nothing
    BY <2>1 DEF Fresh, EntryFields
  <2>3. EntryOK(e, s) /\ GivesUp(e, s, wire \cup {})
    BY <1>3, <2>2 DEF EntryOK, GivesUp, Nothing
  <2>4. QED
    BY <1>1, <1>5, <2>1, <2>2, <2>3, EntryPumps DEF retry, Pumped
<1>6. CASE Backoff(e)
  <2>1. PICK s : s = upload(e, entry[e])
    OBVIOUS
  <2>2. entry[e].state = "uploading"
    BY <1>2, <1>6 DEF Backoff, EntryOK
  <2>3. /\ DOMAIN s = EntryFields /\ s.state = "uploading" /\ s.upload = entry[e].upload + 1
        /\ s.at = IF e \notin Small THEN "init" ELSE IF entry[e].aborted THEN "hung" ELSE "simple"
        /\ s.aborted = entry[e].aborted /\ s.known = entry[e].known /\ s.answer = entry[e].answer
    BY <1>3, <2>1, <2>2 DEF EntryFields, upload
  <2>4. EntryOK(e, s) /\ GivesUp(e, s, wire \cup {})
    BY <1>2, <1>3, <2>3 DEF EntryOK, GivesUp
  <2>5. QED
    BY <1>1, <1>6, <2>1, <2>2, <2>3, <2>4, EntryPumps DEF Backoff
<1>7. CASE cancel(e)
  <2>1. PICK r : r = [entry[e] EXCEPT !.aborted = TRUE]
    OBVIOUS
  <2>2. /\ DOMAIN r = EntryFields /\ r.state = entry[e].state /\ r.at = entry[e].at
        /\ r.upload = entry[e].upload /\ r.aborted /\ r.known = entry[e].known
        /\ r.answer = entry[e].answer
    BY <1>3, <2>1 DEF EntryFields
  <2>3. EntryOK(e, r) /\ GivesUp(e, r, wire \cup abort(e))
    BY <1>2, <2>2 DEF EntryOK, GivesUp, abort, AbortOf
  <2>4. CASE r.state = "queued"
    <3>1. PICK s : s = [r EXCEPT !.state = "cancelled"]
      OBVIOUS
    <3>2. /\ DOMAIN s = EntryFields /\ s.state = "cancelled" /\ s.at = r.at /\ s.upload = r.upload
          /\ s.aborted /\ s.known = r.known /\ s.answer = r.answer
      BY <2>2, <3>1 DEF EntryFields
    <3>3. EntryOK(e, s) /\ GivesUp(e, s, wire \cup {})
      BY <2>3, <2>4, <3>2 DEF EntryOK, GivesUp
    <3>4. Pumped(e, s)
      BY <1>7, <2>1, <2>4, <3>1 DEF cancel
    <3>5. QED
      BY <1>1, <2>2, <2>4, <3>2, <3>3, <3>4, EntryPumps DEF Pumped
  <2>5. CASE r.state # "queued" /\ r.at \in {"chunk", "simple", "status"}
    <3>1. Caught(e, r, abort(e)) /\ r.state = "uploading"
      BY <1>7, <2>1, <2>2, <2>5 DEF cancel
    <3>2. QED
      BY <1>1, <2>2, <2>3, <3>1, CaughtKeeps
  <2>6. CASE r.state # "queued" /\ r.at \notin {"chunk", "simple", "status"}
    <3>1. Pump([entry EXCEPT ![e] = r], active, abort(e)) /\ r.state = "uploading"
      BY <1>7, <2>1, <2>2, <2>6 DEF cancel
    <3>2. QED
      BY <1>1, <2>2, <2>3, <3>1, EntryPumps
  <2>7. QED
    BY <2>4, <2>5, <2>6
<1>8. CASE Timer(e)
  <2>1. entry[e].state = "uploading" /\ GivesUp(e, entry[e], wire \cup {})
    BY <1>2, <1>8 DEF Timer, EntryOK, GivesUp
  <2>2. CASE Caught(e, entry[e], {})
    BY <1>1, <1>2, <2>1, <2>2, CaughtKeeps
  <2>3. CASE Pumped(e, [entry[e] EXCEPT !.attempt = @ + 1, !.at = "chunk"])
    <3>1. PICK s : s = [entry[e] EXCEPT !.attempt = @ + 1, !.at = "chunk"]
      OBVIOUS
    <3>2. /\ DOMAIN s = EntryFields /\ s.state = "uploading" /\ s.at = "chunk"
          /\ s.upload = entry[e].upload
          /\ s.aborted = entry[e].aborted /\ s.known = entry[e].known /\ s.answer = entry[e].answer
      BY <1>3, <2>1, <3>1 DEF EntryFields
    <3>3. QED
      BY <1>1, <1>2, <2>1, <2>3, <3>1, <3>2, RunsOn
  <2>4. CASE Pumped(e, [entry[e] EXCEPT !.at = "status"])
    <3>1. PICK s : s = [entry[e] EXCEPT !.at = "status"]
      OBVIOUS
    <3>2. /\ DOMAIN s = EntryFields /\ s.state = "uploading" /\ s.at = "status"
          /\ s.upload = entry[e].upload
          /\ s.aborted = entry[e].aborted /\ s.known = entry[e].known /\ s.answer = entry[e].answer
      BY <1>3, <2>1, <3>1 DEF EntryFields
    <3>3. QED
      BY <1>1, <1>2, <2>1, <2>4, <3>1, <3>2, RunsOn
  <2>5. QED
    BY <1>8, <2>2, <2>3, <2>4 DEF Timer
<1>9. CASE Arrives(e)
  <2>1. PICK r : r = [entry[e] EXCEPT !.answer = Nothing]
    OBVIOUS
  <2>2. PICK answer \in {entry[e].answer, "none"} \ {Nothing} : Goes(e, r, answer)
    BY <1>9, <2>1 DEF Arrives
  <2>3. entry[e].state = "uploading" /\ (answer = "done" => e \in stored)
    BY <1>2, <1>9, <2>2 DEF Arrives, Requesting, EntryOK
  <2>4. /\ DOMAIN r = EntryFields /\ r.state = entry[e].state /\ r.at = entry[e].at
        /\ r.upload = entry[e].upload /\ r.aborted = entry[e].aborted /\ r.known = entry[e].known
        /\ r.answer = Nothing
    BY <1>3, <2>1 DEF EntryFields
  <2>5. EntryOK(e, r) /\ GivesUp(e, r, wire)
    BY <1>2, <2>4 DEF EntryOK, GivesUp, Nothing
  <2>6. QED
    BY <1>1, <2>2, <2>3, <2>4, <2>5, GoesKeeps
<1>10. QED
  BY <1>4, <1>5, <1>6, <1>7, <1>8, <1>9

\* The server answers: nothing is stored that was not, and only the request of an
\* upload that waits for it opens a session.
LEMMA AnswersKeep ==
  ASSUME PageInv, NEW m, NEW answer, NEW sessions, Answers(m, answer, sessions),
         answer = "done" => m.e \in stored, stored \subseteq stored', JobsTrue',
         \A s \in sessions : IsOpen(s.id) \/ (m.what = "init" /\ s.id = Id(m)),
         m.what = "abort" => \A s \in sessions : s.id # Id(m)
  PROVE  PageInv'
<1>1. /\ m \in wire /\ session' = sessions /\ UNCHANGED active
      /\ wire' = Mattering(wire \ {m}, sessions, entry)
      /\ entry' = IF m \in Asks(entry) THEN [entry EXCEPT ![m.e].answer = answer] ELSE entry
  BY DEF Answers
<1>2. entry = [e \in Entry |-> entry[e]] /\ \A e \in Entry : EntryOK(e, entry[e])
  BY DEF PageInv, EntriesOK
<1>3. \A e \in Entry :
        /\ DOMAIN entry'[e] = EntryFields /\ entry'[e].state = entry[e].state
        /\ entry'[e].at = entry[e].at
        /\ entry'[e].upload = entry[e].upload /\ entry'[e].chunk = entry[e].chunk
        /\ entry'[e].aborted = entry[e].aborted /\ entry'[e].known = entry[e].known
        /\ entry'[e].answer = "done" => e \in stored
  BY <1>1, <1>2 DEF EntryOK, EntryFields
<1>4. EntriesOK'
  <2>1. entry' = [e \in Entry |-> entry'[e]]
    BY <1>1, <1>2
  <2>2. \A e \in Entry : EntryOK(e, entry[e])'
    BY <1>2, <1>3 DEF EntryOK
  <2>3. QED
    BY <2>1, <2>2 DEF EntriesOK
<1>5. Asks(entry') = Asks(entry)
  BY <1>3 DEF Asks, Message
<1>6. IsFiniteSet(Chosen(entry')) /\ SlotsUsed' /\ active' \in Nat
  <2>1. Chosen(entry') = Chosen(entry)
    BY <1>3 DEF Chosen
  <2>2. /\ InState(entry', "uploading") = InState(entry, "uploading")
        /\ InState(entry', "queued") = InState(entry, "queued")
    BY <1>3 DEF InState
  <2>3. SlotsUsed'
    BY <1>1, <2>2 DEF PageInv, SlotsUsed, InState
  <2>4. QED
    BY <1>1, <2>1, <2>3 DEF PageInv
<1>7. GivingUp'
  <2> SUFFICES ASSUME NEW e \in Entry, entry[e].aborted, NEW n \in entry[e].known, IsOpen(<<e, n>>)'
               PROVE  AbortOf(e, n) \in wire'
    BY <1>3 DEF GivingUp, GivesUp
  <2>1. PICK s \in sessions : s.id = <<e, n>>
    BY <1>1 DEF IsOpen
  <2>2. ASSUME m.what = "init", s.id = Id(m)
        PROVE  FALSE
    <3>1. PICK x \in Entry : m = Message(x, entry[x], entry[x].at)
      BY <1>1, <2>2 DEF PageInv, InitsAsked, Asks
    <3>2. x = e /\ entry[e].at = "init" /\ entry[e].upload = n
      BY <2>1, <2>2, <3>1 DEF Message, Id
    <3>3. QED
      BY <1>2, <3>2 DEF EntryOK
  <2>3. AbortOf(e, n) \in wire
    BY <2>1, <2>2 DEF PageInv, GivingUp, GivesUp
  <2>4. AbortOf(e, n) # m
    BY <2>1 DEF AbortOf, Id
  <2>5. QED
    BY <1>1, <2>1, <2>3, <2>4 DEF Mattering, AbortOf, Id
<1>8. InitsAsked'
  BY <1>1, <1>5 DEF InitsAsked, Mattering
<1>9. QED
  BY <1>4, <1>6, <1>7, <1>8 DEF PageInv

\* What the server does with a request, or with a job, or when it starts anew.
LEMMA ServerKeeps ==
  ASSUME PageInv,
         \/ \E m \in wire : \/ initUpload(m) \/ uploadChunk(m) \/ completeUpload(m) \/ abortUpload(m)
                            \/ getStatus(m) \/ uploadFiles(m) \/ Fails(m)
         \/ \E j \in job : JobEnds(j.id)
         \/ Forgets
  PROVE  PageInv'
<1>1. JobsTrue /\ \A u : \A s \in Without(u) : IsOpen(s.id) /\ s.id # u
  BY DEF PageInv, Without, IsOpen
<1>2. \A s \in session : IsOpen(s.id)
  BY DEF IsOpen
<1>3. ASSUME NEW m \in wire, initUpload(m) PROVE PageInv'
  <2>1. JobsTrue' /\ stored \subseteq stored'
    BY <1>1, <1>3 DEF initUpload, JobsTrue
  <2>2. PICK sessions : sessions = session \cup {[id |-> Id(m), chunks |-> {}]}
    OBVIOUS
  <2>3. Answers(m, "2xx", sessions)
        /\ \A s \in sessions : IsOpen(s.id) \/ (m.what = "init" /\ s.id = Id(m))
    BY <1>2, <1>3, <2>2 DEF initUpload
  <2>4. QED
    BY <1>3, <2>1, <2>3, AnswersKeep DEF initUpload
<1>4. ASSUME NEW m \in wire, uploadChunk(m) PROVE PageInv'
  <2>1. JobsTrue' /\ stored \subseteq stored'
    BY <1>1, <1>4 DEF uploadChunk, JobsTrue
  <2>2. CASE IsOpen(Id(m))
    <3>1. PICK sessions : sessions = Without(Id(m)) \cup {[id |-> Id(m), chunks |-> Received(Id(m)) \cup {m.chunk}]}
      OBVIOUS
    <3>2. Answers(m, "2xx", sessions) /\ \A s \in sessions : IsOpen(s.id)
      BY <1>1, <1>4, <2>2, <3>1 DEF uploadChunk
    <3>3. QED
      BY <1>4, <2>1, <3>2, AnswersKeep DEF uploadChunk
  <2>3. CASE ~IsOpen(Id(m))
    BY <1>2, <1>4, <2>1, <2>3, AnswersKeep DEF uploadChunk
  <2>4. QED
    BY <2>2, <2>3
<1>5. ASSUME NEW m \in wire, completeUpload(m) PROVE PageInv'
  <2>1. JobsTrue' /\ stored \subseteq stored'
    BY <1>1, <1>5 DEF completeUpload, JobsTrue
  <2>2. \/ Answers(m, "2xx", Without(Id(m)))
        \/ Answers(m, "4xx", session)
    BY <1>5 DEF completeUpload
  <2>3. QED
    BY <1>1, <1>2, <1>5, <2>1, <2>2, AnswersKeep DEF completeUpload
<1>6. ASSUME NEW m \in wire, abortUpload(m) PROVE PageInv'
  <2>1. JobsTrue' /\ stored \subseteq stored'
    BY <1>1, <1>6 DEF abortUpload, JobsTrue
  <2>2. QED
    BY <1>1, <1>6, <2>1, AnswersKeep DEF abortUpload
<1>7. ASSUME NEW m \in wire, getStatus(m) PROVE PageInv'
  <2>1. JobsTrue' /\ stored \subseteq stored'
    BY <1>1, <1>7 DEF getStatus, JobsTrue
  <2>2. CASE Answers(m, "4xx", session)
    BY <1>2, <1>7, <2>1, <2>2, AnswersKeep DEF getStatus
  <2>3. ASSUME NEW state \in JobOf(Id(m)), Answers(m, IF state = "queued" THEN "202" ELSE state, session)
        PROVE  PageInv'
    <3>1. state = "done" => m.e \in stored
      BY <1>1 DEF JobOf, JobsTrue, Id
    <3>2. PICK answer : answer = IF state = "queued" THEN "202" ELSE state
      OBVIOUS
    <3>3. QED
      BY <1>2, <1>7, <2>1, <2>3, <3>1, <3>2, AnswersKeep DEF getStatus
  <2>4. QED
    BY <1>7, <2>2, <2>3 DEF getStatus
<1>8. ASSUME NEW m \in wire, uploadFiles(m) PROVE PageInv'
  <2>1. JobsTrue' /\ stored \subseteq stored'
    BY <1>1, <1>8 DEF uploadFiles, JobsTrue
  <2>2. QED
    BY <1>2, <1>8, <2>1, AnswersKeep DEF uploadFiles
<1>9. ASSUME NEW m \in wire, Fails(m) PROVE PageInv'
  <2>1. JobsTrue' /\ stored \subseteq stored'
    BY <1>1, <1>9 DEF Fails, JobsTrue
  <2>2. QED
    BY <1>1, <1>2, <1>9, <2>1, AnswersKeep DEF Fails
<1>10. ASSUME NEW u, JobEnds(u) PROVE PageInv'
  <2>1. stored \subseteq stored' /\ UNCHANGED <<entry, active, wire, session>>
    BY <1>10 DEF JobEnds
  <2>2. JobsTrue'
    BY <1>1, <1>10 DEF JobEnds, JobsTrue
  <2>3. EntriesOK'
    BY <2>1 DEF PageInv, EntriesOK, EntryOK
  <2>4. QED
    BY <2>1, <2>2, <2>3 DEF PageInv, Chosen, SlotsUsed, GivingUp, GivesUp, IsOpen, InitsAsked, Asks,
       Message
<1>11. CASE Forgets
  <2>1. session' = {} /\ UNCHANGED <<entry, active, wire, job, stored>>
    BY <1>11 DEF Forgets
  <2>2. EntriesOK'
    BY <2>1 DEF PageInv, EntriesOK, EntryOK
  <2>3. QED
    BY <2>1, <2>2 DEF PageInv, Chosen, SlotsUsed, GivingUp, GivesUp, IsOpen, InitsAsked, Asks, Message,
       JobsTrue
<1>12. QED
  BY <1>3, <1>4, <1>5, <1>6, <1>7, <1>8, <1>9, <1>10, <1>11

\* The library's requests and a crash leave the page as it was; so it starts.
LEMMA PageStays ==
  ASSUME PageInv, UNCHANGED pageVars
  PROVE  PageInv'
<1>1. UNCHANGED <<entry, active, wire, session, job, stored>>
  BY DEF pageVars, serverVars
<1>2. EntriesOK'
  BY <1>1 DEF PageInv, EntriesOK, EntryOK
<1>3. QED
  BY <1>1, <1>2 DEF PageInv, Chosen, SlotsUsed, GivingUp, GivesUp, IsOpen, InitsAsked, Asks, Message,
     JobsTrue

LEMMA PageStarts ==
  ASSUME InitPage
  PROVE  PageInv
<1>1. PICK s : s = Fresh
  OBVIOUS
<1>2. /\ DOMAIN s = EntryFields /\ s.state = "none" /\ s.at = "none" /\ s.upload = 0
      /\ ~s.aborted /\ s.known = {} /\ s.answer = Nothing
  BY <1>1 DEF Fresh, EntryFields
<1>3. entry = [e \in Entry |-> s] /\ active = 0 /\ wire = {} /\ session = {} /\ job = {}
  BY <1>1 DEF InitPage
<1>4. EntriesOK /\ GivingUp
  BY <1>2, <1>3 DEF EntriesOK, EntryOK, GivingUp, GivesUp, Nothing
<1>5. Chosen(entry) = {} /\ InState(entry, "uploading") = {} /\ InState(entry, "queued") = {}
  BY <1>2, <1>3 DEF Chosen, InState
<1>6. Cardinality({}) = 0 /\ IsFiniteSet({}) /\ Concurrency \in Nat
  BY FS_EmptySet, PageAssumption
<1>7. SlotsUsed
  BY <1>3, <1>5, <1>6 DEF SlotsUsed, InState
<1>8. QED
  BY <1>3, <1>4, <1>5, <1>6, <1>7 DEF PageInv, InitsAsked, JobsTrue

\* What the page shows of its uploads is so (app.js 195-420, 1460-1690): no slot of
\* the queue is lost or taken twice, a large file shown as done is in the library,
\* and of a cancelled one no session stays but for a lost request. For any files
\* in any number, slots and retries.
THEOREM PageCorrect == Spec => []PageTrue
<1>1. Init => PageInv
  BY PageStarts DEF Init
<1>2. PageInv /\ [Next]_vars => PageInv'
  <2>1. CASE UNCHANGED pageVars
    BY <2>1, PageStays
  <2>2. CASE StepPage
    BY <2>2, CallbackKeeps, ServerKeeps DEF StepPage
  <2>3. QED
    BY <2>1, <2>2 DEF Next, vars, Crash
<1>3. PageInv => PageTrue
  <2> SUFFICES ASSUME PageInv PROVE PageTrue
    OBVIOUS
  <2>1. \A e \in Entry : EntryOK(e, entry[e]) /\ GivesUp(e, entry[e], wire)
    BY DEF PageInv, EntriesOK, GivingUp
  <2>2. DoneIsStored /\ CancelTakesBack
    BY <2>1 DEF DoneIsStored, CancelTakesBack, EntryOK, GivesUp, AbortOf
  <2>3. QED
    BY <2>2 DEF PageTrue, PageInv
<1> QED
  BY <1>1, <1>2, <1>3, PTL DEF Spec

(***************************************************************************)
(* The library's rows and requests                                         *)
(***************************************************************************)
RequestFields == {"op", "at", "on", "arg", "list", "k", "was", "alone", "sound"}
ItemFields == {"id", "pl", "media", "idx"}
TrackFields == {"id", "media", "kind", "stream", "def", "file"}
FolderFields == {"id", "name", "parent", "path"}

ItemsOK(rows) ==
  IsFiniteSet(rows) /\ \A i \in rows : /\ DOMAIN i = ItemFields /\ i.id \in 1..(nextItem - 1)
                                       /\ i.pl \in Playlist /\ i.media \in Media /\ i.idx \in Int
TracksOK ==
  \A t \in tracks : /\ DOMAIN t = TrackFields /\ t.id \in 1..(nextTrack - 1)
                    /\ t.media \in Media /\ t.def \in BOOLEAN
                    /\ t.kind = "external" => t.file = t.id
FoldersOK(rows) ==
  \A f \in rows : DOMAIN f = FolderFields /\ f.id \in 1..(nextFolder - 1) /\ f.parent \in 0..MaxFolders

\* What a request of each kind knows while it is worked off.
PlaylistRequestOK(r) ==
  /\ r.op = "add" => /\ r.on \in Playlist /\ r.arg \in Seq(Media) /\ r.arg # <<>>
                     /\ r.k \in Int
  /\ r.op \in {"remove", "reorder"} =>
       /\ r.on \in Playlist /\ Len(r.arg) \in Nat \ {0} /\ r.k \in Nat
       /\ r.at = "order" => Len(r.list) \in Nat /\ r.k < Len(Reordering(r.list))
       /\ r.at \in {"validate", "delete", "remaining"} => r.k = 0
       /\ r.was # <<>> => ItemsOK(r.was[1])
  /\ r.op = "update" => r.arg[2] \in Int
  /\ r.op = "decide" => r.on \in Media /\ r.arg[1] \in {"approved", "rejected"}
FolderRequestOK(r) ==
  /\ r.op = "create" => r.on \in 0..MaxFolders
  /\ r.op = "edit" =>
       /\ Parent(r) \in 0..MaxFolders \cup {None}
       /\ r.at \in {"name", "parent"} => Len(r.list) = 1
       /\ r.at \in {"move", "below", "paths"} \/ (r.at = "own" /\ Len(r.list) > 1) => Parent(r) \in 0..MaxFolders
       /\ r.was # <<>> => FoldersOK(r.was[1])
SubtitleRequestOK(r) ==
  /\ r.op = "attach" =>
       /\ r.on \in Media /\ r.arg[1] \in BOOLEAN
       /\ r.at \in {"clear", "insert", "made", "unlink"} => r.k \in 1..(nextTrack - 1)
  /\ r.op = "embed" => r.on \in Media
       /\ (r.at # "prune" => r.arg \in Seq([stream : Int, def : BOOLEAN]) /\ r.arg # <<>>)
  /\ r.op = "patch" => r.arg[1] \in BOOLEAN
  /\ r.op = "detach" => r.on \in 1..(nextTrack - 1)
  /\ r.op \in {"attach", "embed", "patch", "detach"} => backend # "mssql"
RequestOK(r) ==
  /\ DOMAIN r = RequestFields /\ r.alone \in BOOLEAN /\ r.sound \in BOOLEAN
  /\ r.at \notin Answered => PlaylistRequestOK(r) /\ FolderRequestOK(r) /\ SubtitleRequestOK(r)

CountersOK ==
  /\ <<part, backend>> \in Studied /\ begun \in 0..MaxRequests /\ crashes \in 0..MaxCrashes
  /\ nextItem \in Nat \ {0} /\ nextTrack \in Nat \ {0} /\ nextFolder \in 1..(MaxFolders + 1)
  /\ playlists \subseteq Playlist /\ media \subseteq Media
  /\ approval \in [Media -> {"pending", "approved", "rejected"}]
  /\ logged \in [Media -> {"pending", "approved", "rejected"}]
RequestsOK == req = [h \in Handlers |-> req[h]] /\ \A h \in Handlers : RequestOK(req[h])

\* On SQLite one handler at most is between two statements.
SqliteTurns ==
  backend = "sqlite" => \A h, g \in Handlers : Open(h) /\ Open(g) /\ h # g => {req[h].at, req[g].at} \cap Away # {}

Handles(h, op, ats) == req[h].op = op /\ req[h].at \in ats
HasFile(h) == Handles(h, "attach", {"clear", "insert", "made", "unlink"})

\* The number of a file that waits for its row is that of no row, of no other such
\* file and of no row that is being deleted; the file is there until the row is made.
NotYetRows ==
  \A h \in Handlers : Handles(h, "attach", {"clear", "insert", "unlink"}) => \A t \in tracks : t.id # req[h].k
Stored == \A h \in Handlers : Handles(h, "attach", {"clear", "insert"}) => req[h].k \in files
FilesDiffer == \A h, g \in Handlers : HasFile(h) /\ HasFile(g) /\ h # g => req[h].k # req[g].k
NoneTaken ==
  \A h, g \in Handlers :
    Handles(h, "attach", {"clear", "insert"})
    /\ Handles(g, "detach", {"unlink", "row"}) => req[h].k # req[g].on

\* A file that is taken away is the row's that is to go after it.
TakenOwn == \A g \in Handlers : Handles(g, "detach", {"unlink"}) => req[g].list[1].file = req[g].on
RowFiles ==
  crashes = 0 =>
    \A t \in tracks : t.kind = "external" =>
      t.file \in files \/ \E g \in Handlers : Handles(g, "detach", {"row"}) /\ req[g].on = t.id
FilesOK == NotYetRows /\ Stored /\ FilesDiffer /\ NoneTaken /\ TakenOwn /\ RowFiles
LibInv ==
  /\ CountersOK /\ ItemsOK(items) /\ TracksOK /\ FoldersOK(folders)
  /\ RequestsOK /\ SqliteTurns /\ FilesOK

Growing == nextItem <= nextItem' /\ nextTrack <= nextTrack' /\ nextFolder <= nextFolder'
Rows == CountersOK /\ ItemsOK(items) /\ TracksOK /\ FoldersOK(folders)

\* What a request knows stays so: ids are only ever added.
LEMMA RequestStays ==
  ASSUME LibInv, CountersOK', Growing, UNCHANGED backend, NEW q, RequestOK(q)
  PROVE  RequestOK(q)'
<1>1. /\ nextItem \in Int /\ nextTrack \in Int /\ nextFolder \in Int
      /\ nextItem' \in Int /\ nextTrack' \in Int /\ nextFolder' \in Int
  BY FoldersAssumption DEF LibInv, CountersOK
<1>2. ASSUME NEW rows, ItemsOK(rows) PROVE ItemsOK(rows)'
  BY <1>1, <1>2 DEF ItemsOK, Growing
<1>3. ASSUME NEW rows, FoldersOK(rows) PROVE FoldersOK(rows)'
  BY <1>1, <1>3 DEF FoldersOK, Growing
<1>4. \A list : Reordering(list)' = Reordering(list)
  BY DEF Reordering
<1>5. ASSUME q.at \notin Answered
      PROVE  PlaylistRequestOK(q)' /\ FolderRequestOK(q)' /\ SubtitleRequestOK(q)'
  <2>1. PlaylistRequestOK(q) /\ FolderRequestOK(q) /\ SubtitleRequestOK(q)
    BY <1>5 DEF RequestOK
  <2>2. PlaylistRequestOK(q)'
    BY <1>2, <1>4, <2>1 DEF PlaylistRequestOK
  <2>3. FolderRequestOK(q)'
    BY <1>3, <2>1 DEF FolderRequestOK, Parent
  <2>4. SubtitleRequestOK(q)'
    BY <1>1, <2>1 DEF SubtitleRequestOK, Growing
  <2>5. QED
    BY <2>2, <2>3, <2>4
<1>6. QED
  BY <1>5 DEF RequestOK

\* The state of every handler after one has taken a step.
LEMMA AfterGoOn ==
  ASSUME LibInv, NEW h \in Handlers, NEW r, GoOn(h, r)
  PROVE  /\ req' = [g \in Handlers |-> req'[g]]
         /\ \A g \in Handlers \ {h} : req'[g] = req[g]
         /\ r.at \notin Answered => req'[h] = r
         /\ r.at \in Answered => /\ DOMAIN req'[h] = RequestFields /\ req'[h].at = r.at
                                 /\ req'[h].alone \in BOOLEAN /\ req'[h].sound \in BOOLEAN
                                 /\ req'[h].op = r.op
         /\ UNCHANGED <<backend, begun, crashes>>
<1>1. PICK q : q = IF r.at \in Answered THEN [NoRequest EXCEPT !.op = r.op, !.at = r.at] ELSE r
  OBVIOUS
<1>2. r.at \in Answered => /\ DOMAIN q = RequestFields /\ q.at = r.at /\ q.op = r.op
                           /\ q.alone \in BOOLEAN /\ q.sound \in BOOLEAN
  BY <1>1 DEF NoRequest, RequestFields
<1>3. req' = [req EXCEPT ![h] = q] /\ UNCHANGED <<backend, begun, crashes>>
  BY <1>1 DEF GoOn
<1>4. req = [g \in Handlers |-> req[g]]
  BY DEF LibInv, RequestsOK
<1>5. QED
  BY <1>1, <1>2, <1>3, <1>4

\* A request's step keeps the invariant when the rows, the files and what it itself
\* knows do: of the other requests nothing changes but what ids there are.
LEMMA StepKeeps ==
  ASSUME LibInv, NEW h \in Handlers, NEW r, GoOn(h, r), Open(h), Turn(h),
         r.at \notin Answered => RequestOK(r)',
         Rows', Growing, FilesOK'
  PROVE  LibInv'
<1>1. /\ req' = [g \in Handlers |-> req'[g]]
      /\ \A g \in Handlers \ {h} : req'[g] = req[g]
      /\ r.at \notin Answered => req'[h] = r
      /\ r.at \in Answered => /\ DOMAIN req'[h] = RequestFields /\ req'[h].at = r.at
                              /\ req'[h].alone \in BOOLEAN /\ req'[h].sound \in BOOLEAN
                              /\ req'[h].op = r.op
      /\ UNCHANGED <<backend, begun, crashes>>
  BY AfterGoOn
<1>2. ASSUME NEW g \in Handlers PROVE RequestOK(req[g])'
  <2>1. CASE g # h
    <3>1. PICK q : q = req[g] /\ q = req'[g]
      BY <1>1, <2>1
    <3>2. RequestOK(q)
      BY <3>1 DEF LibInv, RequestsOK
    <3>3. QED
      BY <1>1, <3>1, <3>2, RequestStays DEF Rows
  <2>2. CASE g = h /\ r.at \in Answered
    BY <1>1, <2>2 DEF RequestOK
  <2>3. CASE g = h /\ r.at \notin Answered
    BY <1>1, <2>3
  <2>4. QED
    BY <2>1, <2>2, <2>3
<1>3. SqliteTurns'
  BY <1>1 DEF LibInv, SqliteTurns, Turn, Others, Open
<1>4. QED
  BY <1>1, <1>2, <1>3 DEF LibInv, Rows, RequestsOK

\* What of the handlers other than one stays as it was.
LEMMA Elsewhere ==
  ASSUME NEW h \in Handlers,
         \A g \in Handlers \ {h} :
           /\ req'[g].op = req[g].op /\ req'[g].at = req[g].at
           /\ req'[g].on = req[g].on /\ req'[g].k = req[g].k /\ req'[g].list = req[g].list
  PROVE  /\ \A g \in Handlers \ {h} : \A op, ats : Handles(g, op, ats)' <=> Handles(g, op, ats)
         /\ \A g \in Handlers \ {h} : HasFile(g)' <=> HasFile(g)
  BY DEF Handles, HasFile

\* The files that wait have numbers that were given.
LEMMA Numbered ==
  ASSUME LibInv
  PROVE  /\ nextTrack \in Nat \ {0}
         /\ \A g \in Handlers : HasFile(g) => req[g].k \in 1..(nextTrack - 1)
         /\ \A g \in Handlers : Handles(g, "detach", {"unlink", "row"}) => req[g].on \in 1..(nextTrack - 1)
<1>1. ASSUME NEW g \in Handlers, Open(g) PROVE SubtitleRequestOK(req[g])
  BY <1>1 DEF LibInv, RequestsOK, RequestOK, Open
<1>2. QED
  BY <1>1 DEF LibInv, CountersOK, SubtitleRequestOK, HasFile, Handles, Open, Answered

\* A step that has to do with no file leaves files and their tracks alone.
LEMMA FilesAside ==
  ASSUME LibInv, NEW h \in Handlers,
         \A g \in Handlers \ {h} :
           /\ req'[g].op = req[g].op /\ req'[g].at = req[g].at
           /\ req'[g].on = req[g].on /\ req'[g].k = req[g].k /\ req'[g].list = req[g].list,
         ~Handles(h, "detach", {"row"}),
         req'[h].op \in {"attach", "detach"} => req'[h].at \notin {"clear", "insert", "made", "unlink", "row"},
         \A t \in tracks' : \/ t.id = nextTrack /\ t.kind # "external"
                            \/ \E s \in tracks : s.id = t.id /\ s.kind = t.kind /\ s.file = t.file,
         UNCHANGED <<files, crashes>>
  PROVE  FilesOK'
<1>1. /\ \A g \in Handlers \ {h} : \A op, ats : Handles(g, op, ats)' <=> Handles(g, op, ats)
      /\ \A g \in Handlers \ {h} : HasFile(g)' <=> HasFile(g)
  BY Elsewhere
<1>2. /\ ~Handles(h, "attach", {"clear", "insert", "unlink"})'
      /\ ~Handles(h, "attach", {"clear", "insert"})'
      /\ ~HasFile(h)' /\ ~Handles(h, "detach", {"unlink", "row"})' /\ ~Handles(h, "detach", {"unlink"})'
  BY DEF Handles, HasFile
<1>3. /\ nextTrack \in Nat \ {0}
      /\ \A g \in Handlers : HasFile(g) => req[g].k \in 1..(nextTrack - 1)
  BY Numbered
<1>4. \A g \in Handlers : Handles(g, "attach", {"clear", "insert", "unlink"}) => HasFile(g)
  BY DEF Handles, HasFile
<1>5. NotYetRows'
  BY <1>1, <1>2, <1>3, <1>4 DEF LibInv, FilesOK, NotYetRows
<1>6. Stored' /\ TakenOwn'
  BY <1>1, <1>2 DEF LibInv, FilesOK, Stored, TakenOwn
<1>7. FilesDiffer' /\ NoneTaken'
  BY <1>1, <1>2 DEF LibInv, FilesOK, FilesDiffer, NoneTaken
<1>8. RowFiles'
  BY <1>1, <1>2 DEF LibInv, FilesOK, RowFiles
<1>9. QED
  BY <1>5, <1>6, <1>7, <1>8 DEF FilesOK

\* So does a step that has nothing to do with external tracks, when it keeps the rows.
LEMMA AsideKeeps ==
  ASSUME LibInv, NEW h \in Handlers, NEW r, GoOn(h, r), Open(h), Turn(h),
         r.at \notin Answered => RequestOK(r)',
         Rows', Growing, r.op = req[h].op, r.op \notin {"attach", "detach"},
         \/ tracks' \subseteq tracks
         \/ \A t \in tracks' : \/ t.id = nextTrack /\ t.kind # "external"
                               \/ \E s \in tracks : s.id = t.id /\ s.kind = t.kind /\ s.file = t.file,
         UNCHANGED files
  PROVE  LibInv'
<1>1. /\ \A g \in Handlers \ {h} : req'[g] = req[g]
      /\ req'[h].op = r.op /\ UNCHANGED crashes
  BY AfterGoOn
<1>2. ~Handles(h, "detach", {"row"})
  BY DEF Handles
<1>3. \A t \in tracks' : \/ t.id = nextTrack /\ t.kind # "external"
                         \/ \E s \in tracks : s.id = t.id /\ s.kind = t.kind /\ s.file = t.file
  OBVIOUS
<1>4. FilesOK'
  BY <1>1, <1>2, <1>3, FilesAside
<1>5. QED
  BY <1>4, StepKeeps

\* What a handler at work on a request of this kind may take for granted.
LEMMA Knows ==
  ASSUME LibInv, NEW h \in Handlers, Open(h)
  PROVE  /\ RequestOK(req[h]) /\ DOMAIN req[h] = RequestFields
         /\ PlaylistRequestOK(req[h]) /\ FolderRequestOK(req[h]) /\ SubtitleRequestOK(req[h])
  BY DEF LibInv, RequestsOK, RequestOK, Open

\* The fields of a request that goes on with one or two of them changed.
LEMMA GoesTo ==
  ASSUME LibInv, NEW h \in Handlers, Open(h), NEW at, GoTo(h, at), NEW r, r = [req[h] EXCEPT !.at = at]
  PROVE  /\ GoOn(h, r)
         /\ DOMAIN r = RequestFields /\ r.at = at /\ r.op = req[h].op /\ r.on = req[h].on
         /\ r.arg = req[h].arg
         /\ r.list = req[h].list /\ r.k = req[h].k /\ r.was = req[h].was
         /\ r.alone = req[h].alone /\ r.sound = req[h].sound
  BY Knows DEF GoTo, RequestFields

\* What is known of a sequence by its domain.
LEMMA LenOf ==
  ASSUME NEW n \in Nat, NEW s, s = [i \in 1..n |-> s[i]]
  PROVE  Len(s) = n /\ (s # <<>> => n # 0)
<1>1. DOMAIN s = 1..n
  OBVIOUS
<1>2. s \in Seq({s[i] : i \in 1..n})
  OBVIOUS
<1>3. Len(s) = n
  BY <1>1, <1>2
<1>4. n = 0 => s = <<>>
  BY <1>2, <1>3
<1>5. QED
  BY <1>3, <1>4

\* What is left of a sequence of several elements.
LEMMA TailOf ==
  ASSUME NEW S, NEW s \in Seq(S), s # <<>>, Len(s) # 1
  PROVE  Tail(s) \in Seq(S) /\ Tail(s) # <<>>
<1>1. Len(s) \in Nat \ {0}
  BY EmptySeq
<1>2. PICK t : t = Tail(s)
  OBVIOUS
<1>3. t \in Seq(S) /\ Len(t) = Len(s) - 1
  BY <1>2, HeadTailProperties
<1>4. Len(t) # 0
  BY <1>1, <1>3
<1>5. t # <<>>
  BY <1>4, EmptySeq, Zenon
<1>6. QED
  BY <1>2, <1>3, <1>5

\* Some items of a finite set, or all with another index, are as well formed.
LEMMA FewerItems ==
  ASSUME NEW rows, ItemsOK(rows), NEW less \in SUBSET rows
  PROVE  ItemsOK(less)
  BY FS_Subset DEF ItemsOK

\* A row that is given another index is as good as it was.
LEMMA IndexedOK ==
  ASSUME ItemsOK(items), NEW id, NEW idx \in Int
  PROVE  ItemsOK(Indexed(id, idx))
<1> DEFINE new(i) == IF i.id = id THEN [i EXCEPT !.idx = idx] ELSE i
           f == [i \in items |-> new(i)]
<1>1. f \in Surjection(items, Indexed(id, idx))
  BY DEF Surjection, Indexed
<1>2. IsFiniteSet(Indexed(id, idx))
  BY <1>1, FS_Surjection DEF ItemsOK
<1>3. ASSUME NEW i \in items
      PROVE  /\ DOMAIN new(i) = ItemFields /\ new(i).id \in 1..(nextItem - 1)
             /\ new(i).pl \in Playlist /\ new(i).media \in Media /\ new(i).idx \in Int
  BY DEF ItemsOK, ItemFields
<1>4. QED
  BY <1>2, <1>3 DEF ItemsOK, Indexed

(***************************************************************************)
(* Playlists and approvals                                                 *)
(***************************************************************************)
LEMMA PlaylistRows ==
  ASSUME LibInv, UNCHANGED <<approvalVars, subtitleVars, folderVars, part, backend, begun, crashes>>,
         ItemsOK(items)', playlists' \subseteq playlists, media' \subseteq media, nextItem' \in {nextItem, nextItem + 1}
  PROVE  Rows' /\ Growing /\ tracks' \subseteq tracks /\ UNCHANGED <<files, nextTrack>>
<1>1. UNCHANGED <<approval, logged, tracks, files, nextTrack, folders, nextFolder, part, backend, begun, crashes>>
  BY DEF approvalVars, subtitleVars, folderVars
<1>2. nextItem \in Nat \ {0} /\ nextItem' \in Nat \ {0} /\ nextItem <= nextItem'
  BY DEF LibInv, CountersOK
<1>3. CountersOK' /\ TracksOK' /\ FoldersOK(folders)'
  BY <1>1, <1>2 DEF LibInv, CountersOK, TracksOK, FoldersOK
<1>4. QED
  BY <1>1, <1>2, <1>3, FoldersAssumption DEF Rows, Growing, LibInv, CountersOK

\* The statements of a reorder: how many they are, and that each names an index.
LEMMA ReorderingOf ==
  ASSUME NEW list, Len(list) \in Nat
  PROVE  /\ Len(Reordering(list)) \in Nat
         /\ Len(list) # 0 => 0 < Len(Reordering(list))
         /\ \A n \in 1..Len(Reordering(list)) : Reordering(list)[n][2] \in Int
<1>1. ASSUME NEW n \in Nat, NEW s, s = [i \in 1..n |-> s[i]]
      PROVE  Len(s) = n
  BY <1>1, LenOf
<1>2. CASE backend = "mongodb"
  <2>1. PICK s : s = [n \in 1..Len(list) |-> <<list[n], n - 1>>]
    OBVIOUS
  <2>2. Reordering(list) = s /\ Len(s) = Len(list)
    BY <1>1, <1>2, <2>1 DEF Reordering, mongoReorder
  <2>3. QED
    BY <2>1, <2>2
<1>3. CASE backend # "mongodb"
  <2>1. PICK s : s = [n \in 1..(2 * Len(list)) |->
                        IF n <= Len(list) THEN <<list[n], -n>> ELSE <<list[n - Len(list)], n - Len(list) - 1>>]
    OBVIOUS
  <2>2. Reordering(list) = s /\ Len(s) = 2 * Len(list)
    BY <1>1, <1>3, <2>1 DEF Reordering, sqlReorder
  <2>3. QED
    BY <2>1, <2>2
<1>4. QED
  BY <1>2, <1>3

\* Every statement of the requests on playlists (playlist.routes.ts).
LEMMA PlaylistKeeps ==
  ASSUME LibInv, NEW h \in Handlers, StepPlaylists(h),
         UNCHANGED <<approvalVars, subtitleVars, folderVars, part>>
  PROVE  LibInv'
<1>1. Open(h) /\ Turn(h)
  BY DEF StepPlaylists, CountItems, CheckMedia, addPlaylistItem, DeleteItemRow, RemainingItems,
     ValidateItems, Order, UpdateItemRow, mongoDeleteItems, DeletePlaylistRow, At, Open, Answered
<1>2. /\ RequestOK(req[h]) /\ DOMAIN req[h] = RequestFields /\ PlaylistRequestOK(req[h])
      /\ req[h].alone \in BOOLEAN /\ req[h].sound \in BOOLEAN
  BY <1>1, Knows DEF RequestOK
<1>3. ItemsOK(items) /\ nextItem \in Nat \ {0}
  BY DEF LibInv, CountersOK
<1>4. ASSUME NEW r, GoOn(h, r), r.op = req[h].op,
             r.op \in {"add", "remove", "reorder", "update", "drop"},
             r.at \notin Answered =>
               /\ DOMAIN r = RequestFields /\ r.alone = req[h].alone /\ r.sound = req[h].sound
               /\ PlaylistRequestOK(r)',
             ItemsOK(items)', playlists' \subseteq playlists, media' \subseteq media,
             nextItem' \in {nextItem, nextItem + 1}
      PROVE  LibInv'
  <2>1. UNCHANGED <<backend, begun, crashes>>
    BY <1>4 DEF GoOn
  <2>2. Rows' /\ Growing /\ tracks' \subseteq tracks /\ UNCHANGED <<files, nextTrack>>
    BY <1>4, <2>1, PlaylistRows
  <2>3. r.at \notin Answered => RequestOK(r)'
    BY <1>2, <1>4 DEF RequestOK, FolderRequestOK, SubtitleRequestOK
  <2>4. QED
    BY <1>1, <1>4, <2>2, <2>3, AsideKeeps
<1>5. ASSUME NEW r, GoOn(h, r), r.op = req[h].op,
             r.op \in {"add", "remove", "reorder", "update", "drop"},
             r.at \notin Answered =>
               /\ DOMAIN r = RequestFields /\ r.alone = req[h].alone /\ r.sound = req[h].sound
               /\ PlaylistRequestOK(r),
             UNCHANGED playlistVars
      PROVE  LibInv'
  <2>1. UNCHANGED <<items, playlists, media, nextItem, backend>>
    BY <1>5 DEF GoOn, playlistVars
  <2>2. \A list : Reordering(list)' = Reordering(list)
    BY <2>1 DEF Reordering
  <2>3. \A rows : ItemsOK(rows)' <=> ItemsOK(rows)
    BY <2>1 DEF ItemsOK
  <2>4. PlaylistRequestOK(r) => PlaylistRequestOK(r)'
    BY <2>2, <2>3 DEF PlaylistRequestOK
  <2>5. ItemsOK(items)'
    BY <1>3, <2>1 DEF ItemsOK
  <2>6. QED
    BY <1>4, <1>5, <2>1, <2>4, <2>5
<1>6. ASSUME NEW at, GoTo(h, at), req[h].op \in {"add", "remove", "reorder", "update", "drop"},
             at \in Answered, ItemsOK(items)', playlists' \subseteq playlists, UNCHANGED <<media, nextItem>>
      PROVE  LibInv'
  <2>1. PICK r : r = [req[h] EXCEPT !.at = at]
    OBVIOUS
  <2>2. GoOn(h, r) /\ r.op = req[h].op /\ r.at = at
    BY <1>1, <1>6, <2>1, GoesTo
  <2>3. QED
    BY <1>4, <1>6, <2>2
<1>7. CASE CountItems(h)
  <2>1. PICK r : r = [req[h] EXCEPT !.k = Cardinality(ItemsOf(req[h].on)), !.at = "media"]
    OBVIOUS
  <2>2. Cardinality(ItemsOf(req[h].on)) \in Nat
    BY <1>3, FS_Subset, FS_CardinalityType DEF ItemsOK, ItemsOf
  <2>3. /\ DOMAIN r = RequestFields /\ r.alone = req[h].alone /\ r.sound = req[h].sound
        /\ r.op = "add" /\ r.on = req[h].on /\ r.arg = req[h].arg /\ r.k \in Int
    BY <1>2, <1>7, <2>1, <2>2 DEF RequestFields, CountItems, At
  <2>4. PlaylistRequestOK(r)
    BY <1>2, <1>7, <2>3 DEF PlaylistRequestOK, CountItems, At
  <2>5. QED
    BY <1>5, <1>7, <2>1, <2>3, <2>4 DEF CountItems, At
<1>8. CASE CheckMedia(h)
  <2>1. PICK at : at \in {"insert", "error"} /\ GoTo(h, at)
    BY <1>8 DEF CheckMedia
  <2>2. PICK r : r = [req[h] EXCEPT !.at = at]
    OBVIOUS
  <2>3. /\ GoOn(h, r) /\ DOMAIN r = RequestFields /\ r.alone = req[h].alone /\ r.sound = req[h].sound
        /\ r.op = req[h].op /\ r.on = req[h].on /\ r.arg = req[h].arg /\ r.k = req[h].k
    BY <1>1, <2>1, <2>2, GoesTo
  <2>4. PlaylistRequestOK(r) /\ r.op = "add"
    BY <1>2, <1>8, <2>3 DEF PlaylistRequestOK, CheckMedia, At
  <2>5. QED
    BY <1>5, <1>8, <2>3, <2>4 DEF CheckMedia
<1>9. CASE addPlaylistItem(h)
  <2>1. req[h].op = "add" /\ req[h].on \in Playlist /\ req[h].arg \in Seq(Media)
        /\ req[h].arg # <<>> /\ req[h].k \in Int
    BY <1>2, <1>9 DEF addPlaylistItem, At, PlaylistRequestOK
  <2>2. CASE GoTo(h, "error") /\ UNCHANGED playlistVars
    BY <1>3, <1>6, <2>1, <2>2 DEF playlistVars, Answered, ItemsOK
  <2>3. CASE ~(GoTo(h, "error") /\ UNCHANGED playlistVars)
    <3>1. PICK i : i = [id |-> nextItem, pl |-> req[h].on, media |-> Head(req[h].arg), idx |-> req[h].k]
      OBVIOUS
    <3>2. PICK r : r = [req[h] EXCEPT !.arg = Tail(@), !.k = @ + 1,
                                      !.at = IF Len(req[h].arg) = 1 THEN "ok" ELSE "media"]
      OBVIOUS
    <3>3. items' = items \cup {i} /\ nextItem' = nextItem + 1 /\ GoOn(h, r)
          /\ UNCHANGED <<playlists, media>>
      BY <1>9, <2>3, <3>1, <3>2 DEF addPlaylistItem
    <3>4. ItemsOK(items)'
      <4>1. DOMAIN i = ItemFields /\ i.id \in 1..nextItem /\ i.pl \in Playlist /\ i.media \in Media
            /\ i.idx \in Int
        <5>1. Head(req[h].arg) \in Media /\ nextItem \in 1..nextItem
          BY <1>3, <2>1
        <5>2. QED
          BY <2>1, <3>1, <5>1 DEF ItemFields
      <4>2. IsFiniteSet(items')
        BY <1>3, <3>3, FS_AddElement DEF ItemsOK
      <4>3. QED
        BY <1>3, <3>3, <4>1, <4>2 DEF ItemsOK
    <3>5. /\ DOMAIN r = RequestFields /\ r.alone = req[h].alone /\ r.sound = req[h].sound
          /\ r.op = "add" /\ r.on = req[h].on /\ r.arg = Tail(req[h].arg) /\ r.k \in Int
          /\ r.at = IF Len(req[h].arg) = 1 THEN "ok" ELSE "media"
      BY <1>2, <2>1, <3>2 DEF RequestFields
    <3>6. r.at \notin Answered => PlaylistRequestOK(r)'
      <4>1. Len(req[h].arg) # 1 => Tail(req[h].arg) \in Seq(Media) /\ Tail(req[h].arg) # <<>>
        BY <2>1, TailOf
      <4>2. r.at \notin Answered => r.arg \in Seq(Media) /\ r.arg # <<>>
        BY <3>5, <4>1 DEF Answered
      <4>3. r.op = "add" /\ r.on \in Playlist /\ r.k \in Int
        BY <2>1, <3>5
      <4>4. QED
        BY <4>2, <4>3 DEF PlaylistRequestOK
    <3>7. QED
      BY <1>4, <2>1, <3>3, <3>4, <3>5, <3>6
  <2>4. QED
    BY <2>2, <2>3
<1>10. CASE DeleteItemRow(h)
  <2>1. PICK r : r = [req[h] EXCEPT !.at = "remaining"]
    OBVIOUS
  <2>2. /\ GoOn(h, r) /\ DOMAIN r = RequestFields /\ r.alone = req[h].alone /\ r.sound = req[h].sound
        /\ r.op = "remove" /\ r.at = "remaining" /\ r.on = req[h].on /\ r.arg = req[h].arg
        /\ r.k = req[h].k /\ r.was = req[h].was
    BY <1>1, <1>10, <2>1, GoesTo DEF DeleteItemRow, At
  <2>3. ItemsOK(items')
    BY <1>3, <1>10, FewerItems DEF DeleteItemRow
  <2>4. UNCHANGED <<playlists, media, nextItem, backend>>
    BY <1>10 DEF DeleteItemRow, GoTo, GoOn
  <2>5. ItemsOK(items)' /\ \A rows : ItemsOK(rows)' <=> ItemsOK(rows)
    BY <2>3, <2>4 DEF ItemsOK
  <2>6. PlaylistRequestOK(r)'
    BY <1>2, <1>10, <2>2, <2>5 DEF PlaylistRequestOK, DeleteItemRow, At
  <2>7. QED
    BY <1>4, <1>10, <2>2, <2>4, <2>5, <2>6 DEF DeleteItemRow, At
<1>11. CASE RemainingItems(h)
  <2>1. PICK left : left = InOrder(ItemsOf(req[h].on))
    OBVIOUS
  <2>2. PICK r : r = [req[h] EXCEPT !.list = left, !.was = Savepoint(items), !.at = IF left = <<>> THEN "ok" ELSE "order"]
    OBVIOUS
  <2>3. GoOn(h, r) /\ UNCHANGED playlistVars
    BY <1>11, <2>1, <2>2 DEF RemainingItems
  <2>4. /\ DOMAIN r = RequestFields /\ r.alone = req[h].alone /\ r.sound = req[h].sound
        /\ r.op = "remove" /\ r.on = req[h].on /\ r.arg = req[h].arg /\ r.list = left /\ r.k = req[h].k
        /\ r.was = Savepoint(items) /\ r.at = IF left = <<>> THEN "ok" ELSE "order"
    BY <1>2, <1>11, <2>2 DEF RequestFields, RemainingItems, At
  <2>5. Len(left) \in Nat /\ (left # <<>> => Len(left) # 0)
    <3>1. Cardinality(ItemsOf(req[h].on)) \in Nat
      BY <1>3, FS_Subset, FS_CardinalityType DEF ItemsOK, ItemsOf
    <3>2. left = [n \in 1..Cardinality(ItemsOf(req[h].on)) |-> left[n]]
      BY <2>1 DEF InOrder
    <3>3. QED
      BY <3>1, <3>2, LenOf
  <2>6. r.k = 0 /\ r.on \in Playlist /\ Len(r.arg) \in Nat \ {0}
    BY <1>2, <1>11, <2>4 DEF PlaylistRequestOK, RemainingItems, At
  <2>7. r.was # <<>> => ItemsOK(r.was[1])
    BY <1>3, <2>4 DEF Savepoint
  <2>8. r.at = "order" => r.k < Len(Reordering(r.list))
    BY <2>4, <2>5, <2>6, ReorderingOf
  <2>9. r.at \notin Answered => PlaylistRequestOK(r)
    BY <2>4, <2>5, <2>6, <2>7, <2>8 DEF PlaylistRequestOK, Answered
  <2>10. QED
    BY <1>5, <1>11, <2>3, <2>4, <2>9 DEF RemainingItems, At
<1>12. CASE ValidateItems(h)
  <2>1. req[h].op = "reorder" /\ req[h].k = 0 /\ req[h].on \in Playlist /\ Len(req[h].arg) \in Nat \ {0}
    BY <1>2, <1>12 DEF PlaylistRequestOK, ValidateItems, At
  <2>2. PICK r : r = [req[h] EXCEPT !.list = req[h].arg, !.was = Savepoint(items), !.at = "order"]
    OBVIOUS
  <2>3. CASE GoOn(h, r)
    <3>1. /\ DOMAIN r = RequestFields /\ r.alone = req[h].alone /\ r.sound = req[h].sound
          /\ r.op = "reorder" /\ r.on = req[h].on /\ r.arg = req[h].arg /\ r.list = req[h].arg
          /\ r.k = 0
          /\ r.was = Savepoint(items) /\ r.at = "order"
      BY <1>2, <2>1, <2>2 DEF RequestFields
    <3>2. r.was # <<>> => ItemsOK(r.was[1])
      BY <1>3, <3>1 DEF Savepoint
    <3>3. r.k < Len(Reordering(r.list)) /\ Len(r.list) \in Nat
      BY <2>1, <3>1, ReorderingOf
    <3>4. PlaylistRequestOK(r)
      BY <2>1, <3>1, <3>2, <3>3 DEF PlaylistRequestOK
    <3>5. QED
      BY <1>5, <1>12, <2>1, <2>3, <3>1, <3>4 DEF ValidateItems
  <2>4. CASE GoTo(h, "error")
    BY <1>3, <1>6, <1>12, <2>1, <2>4 DEF ValidateItems, playlistVars, Answered, ItemsOK
  <2>5. QED
    BY <1>12, <2>2, <2>3, <2>4 DEF ValidateItems, GoTo
<1>13. CASE Order(h)
  <2>1. PICK statements : statements = Reordering(req[h].list)
    OBVIOUS
  <2>2. /\ req[h].op \in {"remove", "reorder"} /\ req[h].at = "order" /\ Len(req[h].list) \in Nat
        /\ req[h].k \in Nat /\ req[h].k < Len(statements)
        /\ req[h].was # <<>> => ItemsOK(req[h].was[1])
    BY <1>2, <1>13, <2>1 DEF PlaylistRequestOK, Order, At
  <2>3. PICK s : s = statements[req[h].k + 1]
    OBVIOUS
  <2>4. Len(statements) \in Nat /\ s[2] \in Int
    BY <2>1, <2>2, <2>3, ReorderingOf
  <2>5. UNCHANGED <<playlists, media, nextItem>>
    BY <1>13 DEF Order
  <2>6. \A rows : ItemsOK(rows)' <=> ItemsOK(rows)
    BY <2>5 DEF ItemsOK
  <2>7. CASE items' = Undone(req[h], items) /\ GoTo(h, "error")
    <3>1. ItemsOK(items')
      BY <1>3, <2>2, <2>7 DEF Undone
    <3>2. ItemsOK(items)'
      BY <2>5, <3>1 DEF ItemsOK
    <3>3. QED
      BY <1>6, <2>2, <2>5, <2>7, <3>2 DEF Answered
  <2>8. PICK r : r = [req[h] EXCEPT !.k = @ + 1, !.at = IF req[h].k + 1 = Len(statements) THEN "ok" ELSE "order"]
    OBVIOUS
  <2>9. CASE items' = Indexed(s[1], s[2]) /\ GoOn(h, r)
    <3>1. ItemsOK(items')
      BY <1>3, <2>4, <2>9, IndexedOK
    <3>2. ItemsOK(items)'
      BY <2>5, <3>1 DEF ItemsOK
    <3>3. /\ DOMAIN r = RequestFields /\ r.alone = req[h].alone /\ r.sound = req[h].sound
          /\ r.op = req[h].op /\ r.on = req[h].on /\ r.arg = req[h].arg /\ r.list = req[h].list
          /\ r.k = req[h].k + 1
          /\ r.was = req[h].was /\ r.at = IF req[h].k + 1 = Len(statements) THEN "ok" ELSE "order"
      BY <1>2, <2>8 DEF RequestFields
    <3>4. UNCHANGED backend
      BY <2>9 DEF GoOn
    <3>5. Reordering(r.list)' = statements
      BY <2>1, <3>3, <3>4 DEF Reordering
    <3>6. r.at \notin Answered => r.k \in Nat /\ r.k < Len(Reordering(r.list)')
      BY <2>2, <2>4, <3>3, <3>5 DEF Answered
    <3>7. r.at \notin Answered => PlaylistRequestOK(r)'
      BY <1>2, <2>2, <2>6, <3>3, <3>6 DEF PlaylistRequestOK, Answered
    <3>8. QED
      BY <1>4, <2>2, <2>5, <2>9, <3>2, <3>3, <3>7
  <2>10. QED
    BY <1>13, <2>1, <2>3, <2>7, <2>8, <2>9 DEF Order
<1>14. CASE UpdateItemRow(h)
  <2>1. req[h].op = "update" /\ req[h].arg[2] \in Int
    BY <1>2, <1>14 DEF PlaylistRequestOK, UpdateItemRow, At
  <2>2. items' = items \/ items' = Indexed(req[h].arg[1], req[h].arg[2])
    BY <1>14 DEF UpdateItemRow
  <2>3. ItemsOK(items')
    BY <1>3, <2>1, <2>2, IndexedOK
  <2>4. UNCHANGED <<playlists, media, nextItem>>
    BY <1>14 DEF UpdateItemRow
  <2>5. ItemsOK(items)'
    BY <2>3, <2>4 DEF ItemsOK
  <2>6. QED
    BY <1>6, <1>14, <2>1, <2>4, <2>5 DEF UpdateItemRow, Answered
<1>15. CASE mongoDeleteItems(h)
  <2>1. PICK r : r = [req[h] EXCEPT !.at = "row"]
    OBVIOUS
  <2>2. /\ GoOn(h, r) /\ DOMAIN r = RequestFields /\ r.alone = req[h].alone /\ r.sound = req[h].sound
        /\ r.op = "drop" /\ r.at = "row"
    BY <1>1, <1>15, <2>1, GoesTo DEF mongoDeleteItems, At
  <2>3. ItemsOK(items')
    BY <1>3, <1>15, FewerItems DEF mongoDeleteItems
  <2>4. UNCHANGED <<playlists, media, nextItem>>
    BY <1>15 DEF mongoDeleteItems
  <2>5. ItemsOK(items)'
    BY <2>3, <2>4 DEF ItemsOK
  <2>6. PlaylistRequestOK(r)'
    BY <2>2 DEF PlaylistRequestOK
  <2>7. QED
    BY <1>4, <1>15, <2>2, <2>4, <2>5, <2>6 DEF mongoDeleteItems, At
<1>16. CASE DeletePlaylistRow(h)
  <2>1. ItemsOK(items')
    BY <1>3, <1>16, FewerItems DEF DeletePlaylistRow
  <2>2. UNCHANGED <<media, nextItem>> /\ playlists' \subseteq playlists
    BY <1>16 DEF DeletePlaylistRow
  <2>3. ItemsOK(items)'
    BY <2>1, <2>2 DEF ItemsOK
  <2>4. QED
    BY <1>6, <1>16, <2>2, <2>3 DEF DeletePlaylistRow, At, Answered
<1>17. QED
  BY <1>7, <1>8, <1>9, <1>10, <1>11, <1>12, <1>13, <1>14, <1>15, <1>16 DEF StepPlaylists

\* Those of an approval or a rejection (media-approval.routes.ts).
LEMMA ApprovalKeeps ==
  ASSUME LibInv, NEW h \in Handlers, StepApprovals(h), UNCHANGED <<subtitleVars, folderVars, part>>
  PROVE  LibInv'
<1>1. Open(h) /\ Turn(h) /\ req[h].op = "decide"
  BY DEF StepApprovals, updateMediaApproval, createApprovalLog, At, Open, Answered
<1>2. /\ req[h].on \in Media /\ req[h].arg[1] \in {"approved", "rejected"}
      /\ req[h].alone \in BOOLEAN /\ req[h].sound \in BOOLEAN
  BY <1>1, Knows DEF PlaylistRequestOK, RequestOK
<1>3. PICK at : GoTo(h, at) /\ at \in {"log", "ok", "error"}
  BY DEF StepApprovals, updateMediaApproval, createApprovalLog
<1>4. PICK r : r = [req[h] EXCEPT !.at = at]
  OBVIOUS
<1>5. /\ GoOn(h, r) /\ DOMAIN r = RequestFields /\ r.at = at /\ r.op = "decide" /\ r.on = req[h].on
      /\ r.arg = req[h].arg /\ r.alone = req[h].alone /\ r.sound = req[h].sound
  BY <1>1, <1>3, <1>4, GoesTo
<1>6. RequestOK(r)'
  BY <1>2, <1>5 DEF RequestOK, PlaylistRequestOK, FolderRequestOK, SubtitleRequestOK
<1>7. UNCHANGED <<playlists, media, items, nextItem, tracks, files, nextTrack, folders, nextFolder,
                  part, backend, begun, crashes>>
  BY <1>5 DEF StepApprovals, updateMediaApproval, createApprovalLog, playlistVars, subtitleVars,
     folderVars, GoOn
<1>8. /\ approval' \in [Media -> {"pending", "approved", "rejected"}]
      /\ logged' \in [Media -> {"pending", "approved", "rejected"}]
  BY <1>2 DEF StepApprovals, updateMediaApproval, createApprovalLog, LibInv, CountersOK
<1>9. Rows' /\ Growing
  BY <1>7, <1>8, FoldersAssumption DEF LibInv, Rows, CountersOK, ItemsOK, TracksOK, FoldersOK, Growing
<1>10. QED
  BY <1>1, <1>5, <1>6, <1>7, <1>9, AsideKeeps

\* The deletion of media, whose rows go along.
LEMMA MediaKeeps ==
  ASSUME LibInv, NEW h \in Handlers, mongoDeleteRefs(h) \/ DeleteMediaRow(h),
         UNCHANGED <<approvalVars, folderVars, part>>
  PROVE  LibInv'
<1>1. Open(h) /\ Turn(h) /\ req[h].op = "purge"
  BY DEF mongoDeleteRefs, DeleteMediaRow, At, Open, Answered
<1>2. req[h].alone \in BOOLEAN /\ req[h].sound \in BOOLEAN
  BY <1>1, Knows DEF RequestOK
<1>3. PICK at : GoTo(h, at) /\ at \in {"tracks", "row", "ok"}
  BY DEF mongoDeleteRefs, DeleteMediaRow
<1>4. PICK r : r = [req[h] EXCEPT !.at = at]
  OBVIOUS
<1>5. /\ GoOn(h, r) /\ DOMAIN r = RequestFields /\ r.at = at /\ r.op = "purge"
      /\ r.alone = req[h].alone /\ r.sound = req[h].sound
  BY <1>1, <1>3, <1>4, GoesTo
<1>6. RequestOK(r)'
  BY <1>2, <1>5 DEF RequestOK, PlaylistRequestOK, FolderRequestOK, SubtitleRequestOK
<1>7. /\ UNCHANGED <<playlists, nextItem, files, nextTrack, approval, logged, folders, nextFolder,
                     part, backend, begun, crashes>>
      /\ media' \subseteq media /\ items' \subseteq items /\ tracks' \subseteq tracks
  BY <1>5 DEF mongoDeleteRefs, DeleteMediaRow, approvalVars, folderVars, GoOn
<1>8. ItemsOK(items')
  BY <1>7, FewerItems DEF LibInv
<1>9. Rows' /\ Growing
  BY <1>7, <1>8, FoldersAssumption DEF LibInv, Rows, CountersOK, ItemsOK, TracksOK, FoldersOK, Growing
<1>10. QED
  BY <1>1, <1>5, <1>6, <1>7, <1>9, AsideKeeps

(***************************************************************************)
(* Folders                                                                 *)
(***************************************************************************)
\* A folder with another name or path, or fewer folders, are as well formed.
LEMMA SetOK ==
  ASSUME FoldersOK(folders), NEW f, NEW field \in {"name", "path"}, NEW value
  PROVE  FoldersOK(Set(f, field, value))
<1>1. ASSUME NEW x \in folders, NEW y, y = [x EXCEPT ![field] = value]
      PROVE  DOMAIN y = FolderFields /\ y.id = x.id /\ y.parent = x.parent
  BY <1>1 DEF FoldersOK, FolderFields
<1>2. ASSUME NEW y \in Set(f, field, value)
      PROVE  DOMAIN y = FolderFields /\ y.id \in 1..(nextFolder - 1) /\ y.parent \in 0..MaxFolders
  <2>1. PICK x \in folders : y = IF x.id = f THEN [x EXCEPT ![field] = value] ELSE x
    BY <1>2 DEF Set
  <2>2. QED
    BY <1>1, <2>1 DEF FoldersOK
<1>3. QED
  BY <1>2 DEF FoldersOK

\* Those of the requests on folders (folder.routes.ts, filing of media).
LEMMA FolderKeeps ==
  ASSUME LibInv, NEW h \in Handlers, StepFolders(h),
         UNCHANGED <<playlistVars, approvalVars, subtitleVars, part>>
  PROVE  LibInv'
<1> DEFINE Kinds == {"create", "edit", "delete", "file"}
           Moved(r, at) == /\ DOMAIN r = RequestFields /\ r.at = at /\ r.op = req[h].op
                           /\ r.on = req[h].on
                           /\ r.arg = req[h].arg /\ r.list = req[h].list /\ r.was = req[h].was
<1>1. Open(h) /\ Turn(h) /\ req[h].op \in Kinds
  BY DEF StepFolders, ReadParent, InsertFolder, WritePath, ReadFolder, Rename, NewParent, Move,
     Descendants, MovePath, mongoOwn, Counts, CollectMedia, Detach, DeleteRow, mongoBelow, mongoDetach,
     mongoDeleteRows, moveMediaToFolder, At, Open, Answered
<1>2. /\ DOMAIN req[h] = RequestFields /\ FolderRequestOK(req[h])
      /\ req[h].alone \in BOOLEAN /\ req[h].sound \in BOOLEAN
  BY <1>1, Knows DEF RequestOK
<1>3. FoldersOK(folders) /\ nextFolder \in 1..(MaxFolders + 1) /\ MaxFolders \in Nat
  BY FoldersAssumption DEF LibInv, CountersOK
<1>4. ASSUME NEW r, GoOn(h, r), r.op = req[h].op,
             r.at \notin Answered =>
               /\ DOMAIN r = RequestFields /\ r.alone = req[h].alone /\ r.sound = req[h].sound
               /\ FolderRequestOK(r)',
             FoldersOK(folders)', nextFolder' \in {nextFolder, nextFolder + 1} \cap 1..(MaxFolders + 1)
      PROVE  LibInv'
  <2>1. UNCHANGED <<playlists, media, items, nextItem, approval, logged, tracks, files, nextTrack, part,
                    backend, begun, crashes>>
    BY <1>4 DEF GoOn, playlistVars, approvalVars, subtitleVars
  <2>2. Rows' /\ Growing
    BY <1>3, <1>4, <2>1 DEF LibInv, Rows, CountersOK, ItemsOK, TracksOK, Growing
  <2>3. r.at \notin Answered => RequestOK(r)'
    BY <1>1, <1>2, <1>4 DEF RequestOK, PlaylistRequestOK, SubtitleRequestOK
  <2>4. QED
    BY <1>1, <1>4, <2>1, <2>2, <2>3, AsideKeeps
<1>5. ASSUME NEW r, GoOn(h, r), r.op = req[h].op,
             r.at \notin Answered =>
               /\ DOMAIN r = RequestFields /\ r.alone = req[h].alone /\ r.sound = req[h].sound
               /\ FolderRequestOK(r),
             FoldersOK(folders'), UNCHANGED nextFolder
      PROVE  LibInv'
  <2>1. \A rows : FoldersOK(rows)' <=> FoldersOK(rows)
    BY <1>5 DEF FoldersOK
  <2>2. FolderRequestOK(r) => FolderRequestOK(r)'
    BY <2>1 DEF FolderRequestOK, Parent
  <2>3. FoldersOK(folders)'
    BY <1>5 DEF FoldersOK
  <2>4. QED
    BY <1>3, <1>4, <1>5, <2>2, <2>3
<1>6. ASSUME NEW at, GoTo(h, at), FoldersOK(folders'), UNCHANGED nextFolder,
             at \notin Answered =>
               \A r : Moved(r, at) => FolderRequestOK(r)
      PROVE  LibInv'
  <2>1. PICK r : r = [req[h] EXCEPT !.at = at]
    OBVIOUS
  <2>2. /\ GoOn(h, r) /\ DOMAIN r = RequestFields /\ r.at = at /\ r.op = req[h].op /\ r.on = req[h].on
        /\ r.arg = req[h].arg /\ r.list = req[h].list /\ r.was = req[h].was
        /\ r.alone = req[h].alone /\ r.sound = req[h].sound
    BY <1>1, <1>6, <2>1, GoesTo
  <2>3. QED
    BY <1>5, <1>6, <2>2
\* what is undone is what was read when the transaction began
<1>7. ASSUME req[h].op = "edit" PROVE FoldersOK(Undone(req[h], folders))
  BY <1>2, <1>3, <1>7 DEF FolderRequestOK, Undone
<1>8. CASE ReadParent(h)
  <2>1. req[h].op = "create" /\ req[h].on \in 0..MaxFolders /\ UNCHANGED <<folders, nextFolder>>
    BY <1>2, <1>8 DEF ReadParent, At, FolderRequestOK, folderVars
  <2>2. PICK r : /\ GoOn(h, r)
                 /\ \/ \E at : r = [req[h] EXCEPT !.at = at]
                    \/ \E path : r = [req[h] EXCEPT !.list = path, !.at = "insert"]
    BY <1>8 DEF ReadParent
  <2>3. /\ DOMAIN r = RequestFields /\ r.alone = req[h].alone /\ r.sound = req[h].sound
        /\ r.op = "create" /\ r.on \in 0..MaxFolders
    BY <1>2, <2>1, <2>2 DEF RequestFields
  <2>4. FolderRequestOK(r)
    BY <2>3 DEF FolderRequestOK
  <2>5. QED
    BY <1>3, <1>5, <2>1, <2>2, <2>3, <2>4
<1>9. CASE InsertFolder(h)
  <2>1. req[h].op = "create" /\ req[h].on \in 0..MaxFolders
    BY <1>2, <1>9 DEF InsertFolder, At, FolderRequestOK
  <2>2. CASE GoTo(h, "error") /\ UNCHANGED folderVars
    BY <1>3, <1>6, <2>2 DEF folderVars, Answered
  <2>3. CASE ~(GoTo(h, "error") /\ UNCHANGED folderVars)
    <3>1. PICK f, at :
          /\ \E path : f = [id |-> nextFolder, name |-> req[h].arg[1], parent |-> req[h].on, path |-> path]
          /\ folders' = folders \cup {f} /\ nextFolder' = nextFolder + 1
          /\ nextFolder <= MaxFolders
          /\ GoOn(h, [req[h] EXCEPT !.k = nextFolder, !.at = at])
      BY <1>9, <2>3 DEF InsertFolder
    <3>2. PICK r : r = [req[h] EXCEPT !.k = nextFolder, !.at = at]
      OBVIOUS
    <3>3. /\ DOMAIN r = RequestFields /\ r.alone = req[h].alone /\ r.sound = req[h].sound
          /\ r.op = "create" /\ r.on \in 0..MaxFolders
      BY <1>2, <2>1, <3>2 DEF RequestFields
    <3>4. FolderRequestOK(r)'
      BY <3>3 DEF FolderRequestOK
    <3>5. FoldersOK(folders)' /\ nextFolder' \in {nextFolder, nextFolder + 1} \cap 1..(MaxFolders + 1)
      <4>1. DOMAIN f = FolderFields /\ f.id = nextFolder /\ f.parent \in 0..MaxFolders
        BY <2>1, <3>1 DEF FolderFields
      <4>2. \A x \in folders' : /\ DOMAIN x = FolderFields /\ x.id \in 1..(nextFolder' - 1)
                                 /\ x.parent \in 0..MaxFolders
        <5>1. \A x \in folders : /\ DOMAIN x = FolderFields /\ x.id \in 1..(nextFolder - 1)
                                 /\ x.parent \in 0..MaxFolders
          BY <1>3 DEF FoldersOK
        <5>2. folders' = folders \cup {f} /\ nextFolder' = nextFolder + 1
          BY <3>1
        <5>3. QED
          BY <1>3, <4>1, <5>1, <5>2
      <4>3. nextFolder' \in {nextFolder, nextFolder + 1} \cap 1..(MaxFolders + 1)
        BY <1>3, <3>1
      <4>4. QED
        BY <4>2, <4>3 DEF FoldersOK
    <3>6. QED
      BY <1>4, <2>1, <3>1, <3>2, <3>3, <3>4, <3>5
  <2>4. QED
    BY <2>2, <2>3
<1>10. CASE WritePath(h)
  BY <1>3, <1>6, <1>10, SetOK DEF WritePath, Found, Answered
<1>11. CASE ReadFolder(h)
  <2>1. req[h].op = "edit" /\ Parent(req[h]) \in 0..MaxFolders \cup {None}
        /\ UNCHANGED <<folders, nextFolder>>
    BY <1>2, <1>11 DEF ReadFolder, At, FolderRequestOK, folderVars
  <2>2. CASE GoOn(h, [req[h] EXCEPT !.at = "error"])
    BY <1>3, <1>6, <2>1, <2>2 DEF GoTo, Answered
  <2>3. CASE ~GoOn(h, [req[h] EXCEPT !.at = "error"])
    <3>1. PICK at \in {"parent", "name"} :
            GoOn(h, [req[h] EXCEPT !.list = <<Folder(req[h].on)>>, !.was = Savepoint(folders), !.at = at])
      BY <1>11, <2>3 DEF ReadFolder
    <3>2. PICK r : r = [req[h] EXCEPT !.list = <<Folder(req[h].on)>>, !.was = Savepoint(folders), !.at = at]
      OBVIOUS
    <3>3. /\ DOMAIN r = RequestFields /\ r.alone = req[h].alone /\ r.sound = req[h].sound
          /\ r.op = "edit" /\ r.arg = req[h].arg /\ r.list = <<Folder(req[h].on)>>
          /\ r.was = Savepoint(folders)
          /\ r.at = at
      BY <1>2, <2>1, <3>2 DEF RequestFields
    <3>4. r.was # <<>> => FoldersOK(r.was[1])
      BY <1>3, <3>3 DEF Savepoint
    <3>5. Len(r.list) = 1 /\ Parent(r) = Parent(req[h])
      BY <3>3 DEF Parent
    <3>6. FolderRequestOK(r)
      BY <2>1, <3>1, <3>3, <3>4, <3>5 DEF FolderRequestOK
    <3>7. QED
      BY <1>3, <1>5, <2>1, <3>1, <3>2, <3>3, <3>6
  <2>4. QED
    BY <2>2, <2>3
<1>12. CASE Rename(h)
  <2>1. req[h].op = "edit" /\ req[h].at = "name" /\ UNCHANGED nextFolder
    BY <1>12 DEF Rename, At
  <2>2. CASE folders' = Undone(req[h], folders) /\ GoTo(h, "error")
    BY <1>6, <1>7, <2>1, <2>2 DEF Answered
  <2>3. CASE folders' = Set(req[h].on, "name", Name(req[h])) /\ GoTo(h, "parent")
    <3>1. \A r : Moved(r, "parent") => FolderRequestOK(r)
      BY <1>2, <2>1 DEF FolderRequestOK, Parent
    <3>2. FoldersOK(folders')
      BY <1>3, <2>3, SetOK
    <3>3. QED
      BY <1>6, <2>1, <2>3, <3>1, <3>2
  <2>4. QED
    BY <1>12, <2>2, <2>3 DEF Rename
<1>13. CASE NewParent(h)
  <2>1. /\ req[h].op = "edit" /\ req[h].at = "parent" /\ Len(req[h].list) = 1 /\ UNCHANGED nextFolder
        /\ Parent(req[h]) \in 0..MaxFolders \cup {None}
    BY <1>2, <1>13 DEF NewParent, At, FolderRequestOK
  <2>2. CASE Parent(req[h]) \in {None, WasParent(req[h])}
    <3>1. PICK at : GoTo(h, at) /\ at \in {"own"} \cup Answered /\ UNCHANGED folders
      BY <1>13, <2>2 DEF NewParent, Found, Answered
    <3>2. ASSUME NEW r, Moved(r, "own") PROVE FolderRequestOK(r)
      <4>1. Len(r.list) = 1 /\ ~(1 > 1) /\ r.at = "own" /\ r.op = "edit" /\ Parent(r) = Parent(req[h])
        BY <2>1, <3>2 DEF Parent
      <4>2. r.was # <<>> => FoldersOK(r.was[1])
        BY <1>2, <2>1, <3>2 DEF FolderRequestOK
      <4>3. QED
        BY <2>1, <4>1, <4>2 DEF FolderRequestOK
    <3>3. QED
      BY <1>3, <1>6, <2>1, <3>1, <3>2
  <2>3. CASE folders' = Undone(req[h], folders) /\ GoTo(h, "error")
    BY <1>6, <1>7, <2>1, <2>3 DEF Answered
  <2>4. CASE /\ Parent(req[h]) \notin {None, WasParent(req[h])}
             /\ ~(folders' = Undone(req[h], folders) /\ GoTo(h, "error"))
    <3>1. PICK at, path : /\ at \in {"below", "move"} /\ UNCHANGED folders
                          /\ GoOn(h, [req[h] EXCEPT !.list = <<@[1], path>>, !.at = at])
      BY <1>13, <2>4 DEF NewParent
    <3>2. PICK r : r = [req[h] EXCEPT !.list = <<@[1], path>>, !.at = at]
      OBVIOUS
    <3>3. /\ DOMAIN r = RequestFields /\ r.alone = req[h].alone /\ r.sound = req[h].sound
          /\ r.op = "edit" /\ r.arg = req[h].arg /\ r.was = req[h].was /\ r.at = at
      BY <1>2, <2>1, <3>2 DEF RequestFields
    <3>4. Parent(r) \in 0..MaxFolders
      BY <2>1, <2>4, <3>3 DEF Parent
    <3>5. FolderRequestOK(r)
      BY <1>2, <2>1, <3>1, <3>3, <3>4 DEF FolderRequestOK
    <3>6. QED
      BY <1>3, <1>5, <2>1, <3>1, <3>2, <3>3, <3>5
  <2>5. QED
    BY <1>13, <2>2, <2>3, <2>4 DEF NewParent
<1>14. CASE Move(h)
  <2>1. /\ req[h].op = "edit" /\ req[h].at = "move" /\ UNCHANGED nextFolder
        /\ Parent(req[h]) \in 0..MaxFolders
    BY <1>2, <1>14 DEF Move, At, FolderRequestOK
  <2>2. CASE folders' = Undone(req[h], folders) /\ GoTo(h, "error")
    BY <1>6, <1>7, <2>1, <2>2 DEF Answered
  <2>3. CASE ~(folders' = Undone(req[h], folders) /\ GoTo(h, "error"))
    <3>1. /\ folders' = {IF x.id = req[h].on THEN [x EXCEPT !.parent = Parent(req[h]), !.path = NewPath(req[h])] ELSE x :
                           x \in folders}
          /\ GoTo(h, "below")
      BY <1>14, <2>3 DEF Move
    <3>2. ASSUME NEW x \in folders, NEW y, y = [x EXCEPT !.parent = Parent(req[h]), !.path = NewPath(req[h])]
          PROVE  DOMAIN y = FolderFields /\ y.id \in 1..(nextFolder - 1) /\ y.parent \in 0..MaxFolders
      BY <1>3, <2>1, <3>2 DEF FoldersOK, FolderFields
    <3>3. FoldersOK(folders')
      BY <1>3, <3>1, <3>2 DEF FoldersOK
    <3>4. \A r : Moved(r, "below") => FolderRequestOK(r)
      BY <1>2, <2>1 DEF FolderRequestOK, Parent
    <3>5. QED
      BY <1>6, <2>1, <3>1, <3>3, <3>4
  <2>4. QED
    BY <2>2, <2>3
<1>15. CASE Descendants(h)
  <2>1. /\ req[h].op = "edit" /\ req[h].at = "below" /\ UNCHANGED <<folders, nextFolder>>
        /\ Parent(req[h]) \in 0..MaxFolders
    BY <1>2, <1>15 DEF Descendants, At, FolderRequestOK, folderVars
  <2>2. PICK list : GoOn(h, [req[h] EXCEPT !.list = list, !.at = "paths"])
    BY <1>15 DEF Descendants
  <2>3. PICK r : r = [req[h] EXCEPT !.list = list, !.at = "paths"]
    OBVIOUS
  <2>4. /\ DOMAIN r = RequestFields /\ r.alone = req[h].alone /\ r.sound = req[h].sound
        /\ r.op = "edit" /\ r.arg = req[h].arg /\ r.was = req[h].was /\ r.at = "paths"
    BY <1>2, <2>1, <2>3 DEF RequestFields
  <2>5. FolderRequestOK(r)
    BY <1>2, <2>1, <2>4 DEF FolderRequestOK, Parent
  <2>6. QED
    BY <1>3, <1>5, <2>1, <2>2, <2>3, <2>4, <2>5
<1>16. CASE MovePath(h)
  <2>1. /\ req[h].op = "edit" /\ req[h].at = "paths" /\ UNCHANGED nextFolder
        /\ Parent(req[h]) \in 0..MaxFolders
    BY <1>2, <1>16 DEF MovePath, At, FolderRequestOK
  <2>2. CASE req[h].list[3] = {}
    <3>1. PICK at : GoTo(h, at) /\ at \in {"own"} \cup Answered /\ UNCHANGED folders
      BY <1>16, <2>2 DEF MovePath, Found, Answered
    <3>2. at = "own" =>
            \A r : Moved(r, at) => FolderRequestOK(r)
      BY <1>2, <2>1 DEF FolderRequestOK, Parent
    <3>3. QED
      BY <1>3, <1>6, <2>1, <3>1, <3>2
  <2>3. CASE req[h].list[3] # {}
    <3>1. PICK d, list : /\ folders' = Set(d[1], "path", d[2])
                         /\ GoOn(h, [req[h] EXCEPT !.list = list])
      BY <1>16, <2>3 DEF MovePath
    <3>2. PICK r : r = [req[h] EXCEPT !.list = list]
      OBVIOUS
    <3>3. /\ DOMAIN r = RequestFields /\ r.alone = req[h].alone /\ r.sound = req[h].sound
          /\ r.op = "edit" /\ r.arg = req[h].arg /\ r.was = req[h].was /\ r.at = "paths"
      BY <1>2, <2>1, <3>2 DEF RequestFields
    <3>4. FolderRequestOK(r)
      BY <1>2, <2>1, <3>3 DEF FolderRequestOK, Parent
    <3>5. FoldersOK(folders')
      BY <1>3, <3>1, SetOK
    <3>6. QED
      BY <1>5, <2>1, <3>1, <3>2, <3>3, <3>4, <3>5
  <2>4. QED
    BY <2>2, <2>3
<1>17. CASE mongoOwn(h)
  <2>1. /\ req[h].op = "edit" /\ req[h].at = "own" /\ UNCHANGED nextFolder
        /\ Len(req[h].list) > 1 => Parent(req[h]) \in 0..MaxFolders
    BY <1>2, <1>17 DEF mongoOwn, At, FolderRequestOK
  <2>2. CASE GoTo(h, "error") /\ UNCHANGED folders
    BY <1>3, <1>6, <2>1, <2>2 DEF Answered
  <2>3. CASE ~(GoTo(h, "error") /\ UNCHANGED folders)
    <3> DEFINE r == req[h]
               new(x) == [x EXCEPT !.name = IF Name(r) = NoName THEN @ ELSE Name(r),
                                   !.parent = IF Len(r.list) > 1 THEN Parent(r) ELSE @,
                                   !.path = IF Len(r.list) > 1 THEN NewPath(r) ELSE @]
    <3>1. folders' = {IF x.id = r.on THEN new(x) ELSE x : x \in folders} /\ GoTo(h, Found(r.on))
      BY <1>17, <2>3 DEF mongoOwn
    <3>2. ASSUME NEW x \in folders
          PROVE  DOMAIN new(x) = FolderFields /\ new(x).id \in 1..(nextFolder - 1)
                 /\ new(x).parent \in 0..MaxFolders
      BY <1>3, <2>1 DEF FoldersOK, FolderFields
    <3>3. FoldersOK(folders')
      <4> HIDE DEF new
      <4>1. QED
        BY <1>3, <3>1, <3>2 DEF FoldersOK
    <3>4. Found(r.on) \in Answered
      BY DEF Found, Answered
    <3>5. QED
      BY <1>6, <2>1, <3>1, <3>3, <3>4
  <2>4. QED
    BY <2>2, <2>3
<1>18. ASSUME req[h].op \in {"delete", "file"}, NEW r, GoOn(h, r), NEW list, NEW at,
              r = [req[h] EXCEPT !.list = list, !.at = at],
              folders' \subseteq folders, UNCHANGED nextFolder
       PROVE  LibInv'
  <2>1. /\ DOMAIN r = RequestFields /\ r.alone = req[h].alone /\ r.sound = req[h].sound
        /\ r.op = req[h].op
    BY <1>2, <1>18 DEF RequestFields
  <2>2. FolderRequestOK(r)
    BY <1>18, <2>1 DEF FolderRequestOK
  <2>3. FoldersOK(folders')
    BY <1>3, <1>18 DEF FoldersOK
  <2>4. QED
    BY <1>5, <1>18, <2>1, <2>2, <2>3
<1>19. ASSUME req[h].op \in {"delete", "file"}, NEW at, GoTo(h, at), folders' \subseteq folders, UNCHANGED nextFolder
       PROVE  LibInv'
  <2>1. \A r : DOMAIN r = RequestFields /\ r.op = req[h].op => FolderRequestOK(r)
    BY <1>19 DEF FolderRequestOK
  <2>2. FoldersOK(folders')
    BY <1>3, <1>19 DEF FoldersOK
  <2>3. QED
    BY <1>6, <1>19, <2>1, <2>2
<1>20. CASE Counts(h)
  BY <1>19, <1>20 DEF Counts, At, folderVars
<1>21. CASE CollectMedia(h)
  <2>1. PICK list : GoOn(h, [req[h] EXCEPT !.list = list, !.at = "detach"])
    BY <1>21 DEF CollectMedia
  <2>2. QED
    BY <1>18, <1>21, <2>1 DEF CollectMedia, At, folderVars
<1>22. CASE Detach(h)
  BY <1>19, <1>22 DEF Detach, At
<1>23. CASE DeleteRow(h)
  BY <1>19, <1>23 DEF DeleteRow, At
<1>24. CASE mongoBelow(h)
  <2>1. CASE GoTo(h, "ok")
    BY <1>19, <1>24, <2>1 DEF mongoBelow, At, folderVars
  <2>2. CASE ~GoTo(h, "ok")
    <3>1. PICK list : GoOn(h, [req[h] EXCEPT !.list = list, !.at = "media"])
      BY <1>24, <2>2 DEF mongoBelow, GoTo
    <3>2. QED
      BY <1>18, <1>24, <3>1 DEF mongoBelow, At, folderVars
  <2>3. QED
    BY <2>1, <2>2
<1>25. CASE mongoDetach(h)
  BY <1>19, <1>25 DEF mongoDetach, At
<1>26. CASE mongoDeleteRows(h)
  BY <1>19, <1>26 DEF mongoDeleteRows, At
<1>27. CASE moveMediaToFolder(h)
  BY <1>19, <1>27 DEF moveMediaToFolder, At
<1>28. QED
  BY <1>8, <1>9, <1>10, <1>11, <1>12, <1>13, <1>14, <1>15, <1>16, <1>17, <1>20, <1>21, <1>22, <1>23, <1>24,
     <1>25, <1>26, <1>27, SMTT(30) DEF StepFolders

(***************************************************************************)
(* Subtitles                                                               *)
(***************************************************************************)
\* The rows after a step that has to do with tracks only.
LEMMA TrackRows ==
  ASSUME LibInv, UNCHANGED <<playlistVars, approvalVars, folderVars, part, backend, begun, crashes>>,
         TracksOK', nextTrack' \in {nextTrack, nextTrack + 1}
  PROVE  Rows' /\ Growing
<1>1. UNCHANGED <<playlists, media, items, nextItem, approval, logged, folders, nextFolder, part,
                  backend, begun, crashes>>
  BY DEF playlistVars, approvalVars, folderVars
<1>2. nextTrack \in Nat \ {0} /\ nextTrack' \in Nat \ {0} /\ nextTrack <= nextTrack'
  BY DEF LibInv, CountersOK
<1>3. nextItem \in Nat \ {0} /\ nextFolder \in Int
  BY FoldersAssumption DEF LibInv, CountersOK
<1>4. QED
  BY <1>1, <1>2, <1>3 DEF LibInv, Rows, CountersOK, ItemsOK, FoldersOK, Growing

\* Tracks whose default flags have been set anew are as well formed.
LEMMA FlagsOK ==
  ASSUME TracksOK, NEW def \in BOOLEAN, NEW now,
         \A t \in now : \E s \in tracks : t = s \/ t = [s EXCEPT !.def = def]
  PROVE  \A t \in now : /\ DOMAIN t = TrackFields /\ t.id \in 1..(nextTrack - 1)
                        /\ t.media \in Media /\ t.def \in BOOLEAN
                        /\ t.kind = "external" => t.file = t.id
                        /\ \E s \in tracks : s.id = t.id /\ s.kind = t.kind /\ s.file = t.file
<1>1. ASSUME NEW s \in tracks, NEW t, t = [s EXCEPT !.def = def]
      PROVE  /\ DOMAIN t = TrackFields /\ t.id = s.id /\ t.media = s.media /\ t.def \in BOOLEAN
             /\ t.kind = s.kind /\ t.file = s.file
  BY <1>1 DEF TracksOK, TrackFields
<1>2. QED
  BY <1>1 DEF TracksOK

\* What a handler at work on tracks knows.
LEMMA SubtitleKnows ==
  ASSUME LibInv, NEW h \in Handlers, StepSubtitles(h)
  PROVE  /\ Open(h) /\ Turn(h) /\ req[h].op \in {"attach", "embed", "patch", "detach"}
         /\ DOMAIN req[h] = RequestFields /\ SubtitleRequestOK(req[h])
         /\ req[h].alone \in BOOLEAN /\ req[h].sound \in BOOLEAN
         /\ TracksOK /\ nextTrack \in Nat \ {0} /\ backend # "mssql"
<1>1. Open(h) /\ Turn(h) /\ req[h].op \in {"attach", "embed", "patch", "detach"}
  BY DEF StepSubtitles, CheckParent, saveSubtitle, clearDefaultFlagSiblings, createExternalSubtitle,
     ReadBack, FindStream, createEmbeddedSubtitle, pruneEmbeddedSubtitles, ReadTrack, updateSubtitle,
     deleteFile, deleteSubtitle, At, Open, Answered
<1>2. DOMAIN req[h] = RequestFields /\ SubtitleRequestOK(req[h]) /\ req[h].alone \in BOOLEAN
      /\ req[h].sound \in BOOLEAN
  BY <1>1, Knows DEF RequestOK
<1>3. QED
  BY <1>1, <1>2, SMTT(30) DEF LibInv, CountersOK, SubtitleRequestOK

\* Requests to register streams or to change a flag have to do with no file.
LEMMA StreamsKeep ==
  ASSUME LibInv, NEW h \in Handlers, StepSubtitles(h), req[h].op \in {"embed", "patch"},
         UNCHANGED <<playlistVars, approvalVars, folderVars, part>>
  PROVE  LibInv'
<1>1. /\ Open(h) /\ Turn(h)
      /\ DOMAIN req[h] = RequestFields /\ SubtitleRequestOK(req[h])
      /\ req[h].alone \in BOOLEAN /\ req[h].sound \in BOOLEAN
      /\ TracksOK /\ nextTrack \in Nat \ {0} /\ backend # "mssql"
  BY SubtitleKnows
<1>2. ASSUME NEW r, GoOn(h, r), r.op = req[h].op,
             r.at \notin Answered =>
               /\ DOMAIN r = RequestFields /\ r.alone = req[h].alone /\ r.sound = req[h].sound
               /\ r.op = "embed" => r.on \in Media
                    /\ (r.at # "prune" => r.arg \in Seq([stream : Int, def : BOOLEAN]) /\ r.arg # <<>>)
               /\ r.op = "patch" => r.arg[1] \in BOOLEAN,
             TracksOK', nextTrack' \in {nextTrack, nextTrack + 1}, UNCHANGED files,
             \/ tracks' \subseteq tracks
             \/ \A t \in tracks' : \/ t.id = nextTrack /\ t.kind # "external"
                                   \/ \E s \in tracks : s.id = t.id /\ s.kind = t.kind /\ s.file = t.file
      PROVE  LibInv'
  <2>1. UNCHANGED <<backend, begun, crashes>>
    BY <1>2 DEF GoOn
  <2>2. Rows' /\ Growing
    BY <1>2, <2>1, TrackRows
  <2>3. r.at \notin Answered => RequestOK(r)'
    BY <1>1, <1>2, <2>1 DEF RequestOK, PlaylistRequestOK, FolderRequestOK, SubtitleRequestOK
  <2>4. QED
    BY <1>1, <1>2, <2>2, <2>3, AsideKeeps
<1>3. ASSUME NEW r, GoOn(h, r), UNCHANGED subtitleVars, r.op = req[h].op,
             r.at \notin Answered =>
               /\ DOMAIN r = RequestFields /\ r.alone = req[h].alone /\ r.sound = req[h].sound
               /\ r.op = "embed" => r.on \in Media
                    /\ (r.at # "prune" => r.arg \in Seq([stream : Int, def : BOOLEAN]) /\ r.arg # <<>>)
               /\ r.op = "patch" => r.arg[1] \in BOOLEAN
      PROVE  LibInv'
  <2>1. UNCHANGED <<tracks, files, nextTrack>> /\ TracksOK'
    BY <1>1, <1>3 DEF subtitleVars, TracksOK
  <2>2. QED
    BY <1>2, <1>3, <2>1
<1>4. /\ req[h].op = "embed" => req[h].on \in Media
      /\ req[h].op = "embed" /\ req[h].at # "prune" => req[h].arg \in Seq([stream : Int, def : BOOLEAN]) /\ req[h].arg # <<>>
      /\ req[h].op = "patch" => req[h].arg[1] \in BOOLEAN
  BY <1>1 DEF SubtitleRequestOK
<1>5. ASSUME req[h].op = "embed", req[h].at # "prune"
      PROVE  Head(req[h].arg).def \in BOOLEAN /\ Head(req[h].arg) \in [stream : Int, def : BOOLEAN]
  <2>1. Head(req[h].arg) \in [stream : Int, def : BOOLEAN]
    BY <1>4, <1>5, HeadTailProperties
  <2>2. QED
    BY <2>1
<1>6. ASSUME req[h].at # "prune" PROVE WantsDefault(req[h]) \in BOOLEAN
  BY <1>4, <1>5, <1>6 DEF WantsDefault
\* when the row is written the next stream is looked for, if there is one
<1>7. ASSUME NEW r, r = Done(req[h]) \/ r = Failed(req[h]), req[h].at # "prune"
      PROVE  /\ r.op = req[h].op
             /\ r.at \notin Answered =>
                  /\ DOMAIN r = RequestFields /\ r.alone = req[h].alone /\ r.sound = req[h].sound
                  /\ r.op = "embed" => r.on \in Media
                       /\ (r.at # "prune" => r.arg \in Seq([stream : Int, def : BOOLEAN]) /\ r.arg # <<>>)
                  /\ r.op = "patch" => r.arg[1] \in BOOLEAN
  <2>1. CASE r = Done(req[h]) /\ req[h].op = "embed"
    <3>1. /\ DOMAIN r = RequestFields /\ r.alone = req[h].alone /\ r.sound = req[h].sound
          /\ r.op = "embed"
          /\ r.on = req[h].on /\ r.arg = Tail(req[h].arg)
          /\ r.at = IF Len(req[h].arg) = 1 THEN "prune" ELSE "find"
      BY <1>1, <2>1 DEF Done, RequestFields
    <3>2. Len(req[h].arg) # 1 => Tail(req[h].arg) \in Seq([stream : Int, def : BOOLEAN]) /\ Tail(req[h].arg) # <<>>
      BY <1>4, <1>7, <2>1, TailOf
    <3>3. r.at # "prune" => r.arg \in Seq([stream : Int, def : BOOLEAN]) /\ r.arg # <<>>
      BY <3>1, <3>2
    <3>4. QED
      BY <1>4, <2>1, <3>1, <3>3
  <2>2. CASE ~(r = Done(req[h]) /\ req[h].op = "embed")
    <3>1. r.op = req[h].op /\ r.at \in Answered
      BY <1>1, <1>7, <2>2 DEF Done, Failed, RequestFields, Answered
    <3>2. QED
      BY <3>1
  <2>3. QED
    BY <2>1, <2>2
<1>8. CASE clearDefaultFlagSiblings(h)
  <2>1. PICK at \in {"insert", "set"} : GoTo(h, at) /\ req[h].at = "clear"
    BY <1>8 DEF clearDefaultFlagSiblings, At
  <2>2. PICK r : r = [req[h] EXCEPT !.at = at]
    OBVIOUS
  <2>3. /\ GoOn(h, r) /\ DOMAIN r = RequestFields /\ r.op = req[h].op /\ r.on = req[h].on
        /\ r.arg = req[h].arg
        /\ r.alone = req[h].alone /\ r.sound = req[h].sound
    BY <1>1, <2>1, <2>2, GoesTo
  <2>4. UNCHANGED <<files, nextTrack>>
    BY <1>8 DEF clearDefaultFlagSiblings
  <2>5. /\ TracksOK'
        /\ \A t \in tracks' : \E s \in tracks : s.id = t.id /\ s.kind = t.kind /\ s.file = t.file
    <3>1. PICK now : now = tracks' /\ \A t \in now : \E s \in tracks : t = s \/ t = [s EXCEPT !.def = FALSE]
      BY <1>8 DEF clearDefaultFlagSiblings
    <3>2. \A t \in now : /\ DOMAIN t = TrackFields /\ t.id \in 1..(nextTrack - 1)
                         /\ t.media \in Media /\ t.def \in BOOLEAN
                         /\ t.kind = "external" => t.file = t.id
                         /\ \E s \in tracks : s.id = t.id /\ s.kind = t.kind /\ s.file = t.file
      BY <1>1, <3>1, FlagsOK
    <3>3. QED
      BY <2>4, <3>1, <3>2 DEF TracksOK
  <2>6. QED
    BY <1>2, <1>4, <2>1, <2>3, <2>4, <2>5
<1>9. CASE ReadBack(h)
  <2>1. PICK r : GoOn(h, r) /\ (r = Done(req[h]) \/ r = Failed(req[h])) /\ req[h].at # "prune" /\ UNCHANGED subtitleVars
    BY <1>9 DEF ReadBack, At
  <2>2. QED
    BY <1>3, <1>7, <2>1
<1>10. CASE FindStream(h)
  <2>1. \E k, at : at \in {"clear", "insert", "set"} /\ GoOn(h, [req[h] EXCEPT !.k = k, !.at = at])
    BY <1>10 DEF FindStream
  <2>2. req[h].op = "embed" /\ req[h].at = "find" /\ UNCHANGED subtitleVars
    BY <1>10 DEF FindStream, At
  <2>3. PICK k, at, r : at \in {"clear", "insert", "set"} /\ r = [req[h] EXCEPT !.k = k, !.at = at] /\ GoOn(h, r)
    BY <2>1
  <2>4. /\ DOMAIN r = RequestFields /\ r.op = "embed" /\ r.on = req[h].on /\ r.arg = req[h].arg
        /\ r.alone = req[h].alone /\ r.sound = req[h].sound
    BY <1>1, <2>2, <2>3 DEF RequestFields
  <2>5. QED
    BY <1>3, <1>4, <2>1, <2>2, <2>3, <2>4
<1>11. CASE createEmbeddedSubtitle(h)
  <2>1. req[h].op = "embed" /\ req[h].at = "insert" /\ UNCHANGED files
    BY <1>11 DEF createEmbeddedSubtitle, At
  <2>2. CASE GoOn(h, Failed(req[h])) /\ UNCHANGED <<tracks, nextTrack>>
    <3>1. TracksOK'
      BY <1>1, <2>2 DEF TracksOK
    <3>2. QED
      BY <1>2, <1>7, <2>1, <2>2, <3>1
  <2>3. CASE ~(GoOn(h, Failed(req[h])) /\ UNCHANGED <<tracks, nextTrack>>)
    <3>1. PICK t :
          /\ t = [id |-> nextTrack, media |-> req[h].on, kind |-> "embedded", stream |-> Head(req[h].arg).stream,
                           def |-> Head(req[h].arg).def, file |-> 0]
                   /\ tracks' = tracks \cup {t} /\ nextTrack' = nextTrack + 1
      BY <1>11, <2>3 DEF createEmbeddedSubtitle
    <3>2. /\ DOMAIN t = TrackFields /\ t.id = nextTrack /\ t.media \in Media /\ t.kind = "embedded"
          /\ t.def \in BOOLEAN
      BY <1>4, <1>5, <2>1, <3>1 DEF TrackFields
    <3>3. TracksOK'
      <4>1. /\ \A s \in tracks : /\ DOMAIN s = TrackFields /\ s.id \in 1..(nextTrack - 1)
                                 /\ s.media \in Media /\ s.def \in BOOLEAN
                                 /\ s.kind = "external" => s.file = s.id
            /\ nextTrack \in Nat \ {0}
        BY <1>1 DEF TracksOK
      <4>2. tracks' = tracks \cup {t} /\ nextTrack' = nextTrack + 1
        BY <3>1
      <4>3. QED
        BY <3>2, <4>1, <4>2 DEF TracksOK
    <3>4. \A s \in tracks' : \/ s.id = nextTrack /\ s.kind # "external"
                             \/ \E q \in tracks : q.id = s.id /\ q.kind = s.kind /\ q.file = s.file
      BY <3>1, <3>2
    <3>5. CASE GoOn(h, Done(req[h]))
      BY <1>2, <1>7, <2>1, <3>1, <3>3, <3>4, <3>5
    <3>6. CASE GoOn(h, [req[h] EXCEPT !.k = nextTrack, !.at = "made"])
      <4>1. PICK r : r = [req[h] EXCEPT !.k = nextTrack, !.at = "made"]
        OBVIOUS
      <4>2. /\ DOMAIN r = RequestFields /\ r.op = "embed" /\ r.on = req[h].on /\ r.arg = req[h].arg
            /\ r.alone = req[h].alone /\ r.sound = req[h].sound
        BY <1>1, <2>1, <4>1 DEF RequestFields
      <4>3. QED
        BY <1>2, <1>4, <2>1, <3>1, <3>3, <3>4, <3>6, <4>1, <4>2
    <3>7. QED
      BY <1>11, <2>3, <3>5, <3>6 DEF createEmbeddedSubtitle
  <2>4. QED
    BY <2>2, <2>3
<1>12. CASE pruneEmbeddedSubtitles(h)
  <2>1. tracks' \subseteq tracks /\ UNCHANGED <<files, nextTrack>> /\ GoTo(h, "ok")
    BY <1>12 DEF pruneEmbeddedSubtitles
  <2>2. TracksOK'
    BY <1>1, <2>1 DEF TracksOK
  <2>3. PICK r : r = [req[h] EXCEPT !.at = "ok"]
    OBVIOUS
  <2>4. GoOn(h, r) /\ r.op = req[h].op /\ r.at = "ok"
    BY <1>1, <2>1, <2>3, GoesTo
  <2>5. QED
    BY <1>2, <2>1, <2>2, <2>4 DEF Answered
<1>13. CASE ReadTrack(h)
  <2>1. req[h].op = "patch" /\ UNCHANGED subtitleVars
    BY <1>13 DEF ReadTrack
  <2>2. CASE GoTo(h, "error")
    <3>1. PICK r : r = [req[h] EXCEPT !.at = "error"]
      OBVIOUS
    <3>2. GoOn(h, r) /\ r.op = req[h].op /\ r.at = "error"
      BY <1>1, <2>2, <3>1, GoesTo
    <3>3. QED
      BY <1>3, <2>1, <3>2 DEF Answered
  <2>3. CASE ~GoTo(h, "error")
    <3>1. PICK list, k, at : GoOn(h, [req[h] EXCEPT !.list = list, !.k = k, !.at = at])
      BY <1>13, <2>3 DEF ReadTrack
    <3>2. PICK r : r = [req[h] EXCEPT !.list = list, !.k = k, !.at = at]
      OBVIOUS
    <3>3. /\ DOMAIN r = RequestFields /\ r.op = "patch" /\ r.arg = req[h].arg
          /\ r.alone = req[h].alone /\ r.sound = req[h].sound
      BY <1>1, <2>1, <3>2 DEF RequestFields
    <3>4. QED
      BY <1>3, <1>4, <2>1, <3>1, <3>2, <3>3
  <2>4. QED
    BY <2>2, <2>3
<1>14. CASE updateSubtitle(h)
  <2>1. req[h].at # "prune" /\ UNCHANGED <<files, nextTrack>>
    BY <1>14 DEF updateSubtitle, At
  <2>2. /\ TracksOK'
        /\ \A t \in tracks' : \E s \in tracks : s.id = t.id /\ s.kind = t.kind /\ s.file = t.file
    <3>1. PICK def \in BOOLEAN : def = WantsDefault(req[h])
      BY <1>6, <2>1
    <3>2. PICK now : now = tracks' /\ \A t \in now : \E s \in tracks : t = s \/ t = [s EXCEPT !.def = def]
      BY <1>14, <3>1 DEF updateSubtitle
    <3>3. \A t \in now : /\ DOMAIN t = TrackFields /\ t.id \in 1..(nextTrack - 1)
                         /\ t.media \in Media /\ t.def \in BOOLEAN
                         /\ t.kind = "external" => t.file = t.id
                         /\ \E s \in tracks : s.id = t.id /\ s.kind = t.kind /\ s.file = t.file
      BY <1>1, <3>2, FlagsOK
    <3>4. QED
      BY <2>1, <3>2, <3>3 DEF TracksOK
  <2>3. PICK r : GoOn(h, r) /\ (r = Done(req[h]) \/ r = Failed(req[h]))
    BY <1>14 DEF updateSubtitle
  <2>4. QED
    BY <1>2, <1>7, <2>1, <2>2, <2>3
<1>15. QED
  BY <1>8, <1>9, <1>10, <1>11, <1>12, <1>13, <1>14 DEF StepSubtitles, CheckParent, saveSubtitle,
     createExternalSubtitle, deleteFile, deleteSubtitle, At

\* A step of a handler that has stored a file: the row it makes has that file.
LEMMA FilesStay ==
  ASSUME LibInv, NEW h \in Handlers, HasFile(h),
         \A g \in Handlers \ {h} :
           /\ req'[g].op = req[g].op /\ req'[g].at = req[g].at
           /\ req'[g].on = req[g].on /\ req'[g].k = req[g].k /\ req'[g].list = req[g].list,
         req'[h].op = "attach",
         Handles(h, "attach", {"clear", "insert"})' => Handles(h, "attach", {"clear", "insert"}),
         Handles(h, "attach", {"clear", "insert", "unlink"})' => \A t \in tracks' : t.id # req'[h].k,
         HasFile(h)' => req'[h].k = req[h].k,
         \A t \in tracks' : \/ t.id = req[h].k /\ t.file \in files
                            \/ \E s \in tracks : s.id = t.id /\ s.kind = t.kind /\ s.file = t.file,
         UNCHANGED <<files, crashes>>
  PROVE  FilesOK'
<1>1. /\ \A g \in Handlers \ {h} : \A op, ats : Handles(g, op, ats)' <=> Handles(g, op, ats)
      /\ \A g \in Handlers \ {h} : HasFile(g)' <=> HasFile(g)
  BY Elsewhere
<1>2. ~Handles(h, "detach", {"unlink", "row"})' /\ ~Handles(h, "detach", {"unlink"})'
      /\ ~Handles(h, "detach", {"row"})
  BY DEF Handles, HasFile
<1>3. \A g \in Handlers : Handles(g, "attach", {"clear", "insert", "unlink"}) => HasFile(g)
  BY DEF Handles, HasFile
<1>4. NotYetRows'
  <2>1. ASSUME NEW g \in Handlers \ {h}, Handles(g, "attach", {"clear", "insert", "unlink"}), NEW t \in tracks'
        PROVE  t.id # req[g].k
    BY <1>3, <2>1 DEF LibInv, FilesOK, NotYetRows, FilesDiffer
  <2>2. QED
    BY <1>1, <2>1 DEF NotYetRows
<1>5. Stored' /\ TakenOwn'
  <2>1. Handles(h, "attach", {"clear", "insert"})' => HasFile(h)'
    BY DEF Handles, HasFile
  <2>2. QED
    BY <1>1, <1>2, <2>1 DEF LibInv, FilesOK, Stored, TakenOwn
<1>6. FilesDiffer' /\ NoneTaken'
  <2>1. Handles(h, "attach", {"clear", "insert"})' => HasFile(h)'
    BY DEF Handles, HasFile
  <2>2. FilesDiffer'
    BY <1>1 DEF LibInv, FilesOK, FilesDiffer
  <2>3. NoneTaken'
    BY <1>1, <1>2, <2>1 DEF LibInv, FilesOK, NoneTaken
  <2>4. QED
    BY <2>2, <2>3
<1>7. RowFiles'
  BY <1>1, <1>2, SMTT(30) DEF LibInv, FilesOK, RowFiles
<1>8. QED
  BY <1>4, <1>5, <1>6, <1>7 DEF FilesOK

\* An external track, its file, and the deletion of both.
LEMMA FileKeeps ==
  ASSUME LibInv, NEW h \in Handlers, StepSubtitles(h), req[h].op \in {"attach", "detach"},
         UNCHANGED <<playlistVars, approvalVars, folderVars, part>>
  PROVE  LibInv'
<1>1. /\ Open(h) /\ Turn(h)
      /\ DOMAIN req[h] = RequestFields /\ SubtitleRequestOK(req[h])
      /\ req[h].alone \in BOOLEAN /\ req[h].sound \in BOOLEAN
      /\ TracksOK /\ nextTrack \in Nat \ {0} /\ backend # "mssql"
  BY SubtitleKnows
<1>2. ASSUME NEW r, GoOn(h, r), r.op = req[h].op,
             r.at \notin Answered =>
               /\ DOMAIN r = RequestFields /\ r.alone = req[h].alone /\ r.sound = req[h].sound
               /\ r.op = "attach" => /\ r.on \in Media /\ r.arg[1] \in BOOLEAN
                                     /\ r.at \in {"clear", "insert", "made", "unlink"} => r.k \in 1..(nextTrack' - 1)
               /\ r.op = "detach" => r.on \in 1..(nextTrack' - 1),
             TracksOK', nextTrack' \in {nextTrack, nextTrack + 1}, FilesOK'
      PROVE  LibInv'
  <2>1. UNCHANGED <<backend, begun, crashes>>
    BY <1>2 DEF GoOn
  <2>2. Rows' /\ Growing
    BY <1>2, <2>1, TrackRows
  <2>3. r.at \notin Answered => RequestOK(r)'
    BY <1>1, <1>2, <2>1 DEF RequestOK, PlaylistRequestOK, FolderRequestOK, SubtitleRequestOK
  <2>4. QED
    BY <1>1, <1>2, <2>2, <2>3, StepKeeps
<1>3. /\ req[h].op = "attach" => req[h].on \in Media /\ req[h].arg[1] \in BOOLEAN
      /\ HasFile(h) => req[h].k \in 1..(nextTrack - 1)
      /\ req[h].op = "detach" => req[h].on \in 1..(nextTrack - 1)
  BY <1>1, Numbered DEF SubtitleRequestOK
\* the others, and this one, after the step
<1>4. ASSUME NEW r, GoOn(h, r), r.op = req[h].op
      PROVE  /\ \A g \in Handlers \ {h} :
                  /\ req'[g].op = req[g].op /\ req'[g].at = req[g].at
                  /\ req'[g].on = req[g].on /\ req'[g].k = req[g].k /\ req'[g].list = req[g].list
             /\ req'[h].op = r.op /\ req'[h].at = r.at
             /\ r.at \notin Answered => req'[h] = r
             /\ UNCHANGED crashes
  BY <1>4, AfterGoOn
<1>5. FilesOK /\ NotYetRows /\ Stored /\ FilesDiffer /\ NoneTaken /\ TakenOwn /\ RowFiles
  BY DEF LibInv, FilesOK
<1>6. \A g \in Handlers : Handles(g, "attach", {"clear", "insert", "unlink"}) => HasFile(g)
  BY DEF Handles, HasFile
\* an answer, or a step before there is a file
<1>7. ASSUME NEW r, GoOn(h, r), r.op = req[h].op, UNCHANGED subtitleVars, req[h].at # "row",
             \/ r.at \in Answered
             \/ /\ r.op = "attach" /\ r.at = "file"
                /\ DOMAIN r = RequestFields /\ r.alone = req[h].alone /\ r.sound = req[h].sound
                /\ r.on = req[h].on /\ r.arg = req[h].arg
      PROVE  LibInv'
  <2>1. UNCHANGED <<tracks, files, nextTrack>>
    BY <1>7 DEF subtitleVars
  <2>2. ~Handles(h, "detach", {"row"})
    BY <1>7 DEF Handles
  <2>3. FilesOK'
    BY <1>4, <1>7, <2>1, <2>2, FilesAside DEF Answered
  <2>4. TracksOK'
    BY <1>1, <2>1 DEF TracksOK
  <2>5. QED
    BY <1>2, <1>3, <1>7, <2>1, <2>3, <2>4
<1>8. CASE CheckParent(h)
  <2>1. PICK at \in {"file", "error"} : GoTo(h, at)
    BY <1>8 DEF CheckParent
  <2>2. PICK r : r = [req[h] EXCEPT !.at = at]
    OBVIOUS
  <2>3. /\ GoOn(h, r) /\ DOMAIN r = RequestFields /\ r.at = at /\ r.op = req[h].op /\ r.on = req[h].on
        /\ r.arg = req[h].arg /\ r.alone = req[h].alone /\ r.sound = req[h].sound
    BY <1>1, <2>1, <2>2, GoesTo
  <2>4. QED
    BY <1>7, <1>8, <2>3 DEF CheckParent, At, Answered
<1>9. CASE saveSubtitle(h)
  <2>1. PICK at, r :
        /\ at \in {"clear", "insert"} /\ r = [req[h] EXCEPT !.k = nextTrack, !.at = at] /\ GoOn(h, r)
    BY <1>9 DEF saveSubtitle
  <2>2. /\ req[h].op = "attach" /\ req[h].at = "file"
        /\ files' = files \cup {nextTrack} /\ nextTrack' = nextTrack + 1 /\ UNCHANGED tracks
    BY <1>9 DEF saveSubtitle, StoreFile, At
  <2>3. /\ DOMAIN r = RequestFields /\ r.op = "attach" /\ r.at = at /\ r.on = req[h].on
        /\ r.arg = req[h].arg
        /\ r.k = nextTrack /\ r.alone = req[h].alone /\ r.sound = req[h].sound
    BY <1>1, <2>1, <2>2 DEF RequestFields
  <2>4. /\ \A g \in Handlers \ {h} :
             /\ req'[g].op = req[g].op /\ req'[g].at = req[g].at
             /\ req'[g].on = req[g].on /\ req'[g].k = req[g].k /\ req'[g].list = req[g].list
        /\ req'[h] = r /\ UNCHANGED crashes
    BY <1>4, <2>1, <2>2, <2>3 DEF Answered
  <2>5. /\ \A g \in Handlers \ {h} : \A op, ats : Handles(g, op, ats)' <=> Handles(g, op, ats)
        /\ \A g \in Handlers \ {h} : HasFile(g)' <=> HasFile(g)
    BY <2>4, Elsewhere
  <2>6. /\ ~Handles(h, "detach", {"unlink", "row"})' /\ ~Handles(h, "detach", {"unlink"})'
        /\ ~Handles(h, "detach", {"row"}) /\ req'[h].k = nextTrack
    BY <2>2, <2>3, <2>4 DEF Handles
  <2>7. /\ \A g \in Handlers : HasFile(g) => req[g].k # nextTrack
        /\ \A g \in Handlers : Handles(g, "detach", {"unlink", "row"}) => req[g].on # nextTrack
        /\ \A t \in tracks : t.id # nextTrack
    BY <1>1, Numbered DEF TracksOK
  <2>8. NotYetRows' /\ Stored'
    BY <1>5, <2>2, <2>4, <2>5, <2>6, <2>7 DEF NotYetRows, Stored
  <2>9. FilesDiffer'
    BY <1>5, <2>4, <2>5, <2>6, <2>7 DEF FilesDiffer
  <2>10. NoneTaken'
    BY <1>5, <2>4, <2>5, <2>6, <2>7 DEF NoneTaken
  <2>11. TakenOwn' /\ RowFiles'
    BY <1>5, <2>2, <2>4, <2>5, <2>6 DEF TakenOwn, RowFiles
  <2>12. FilesOK' /\ TracksOK'
    BY <1>1, <2>2, <2>8, <2>9, <2>10, <2>11 DEF FilesOK, TracksOK
  <2>13. r.k \in 1..(nextTrack' - 1)
    BY <1>1, <2>2, <2>3
  <2>14. QED
    BY <1>2, <1>3, <2>1, <2>2, <2>3, <2>12, <2>13
\* a handler with a file goes on
<1>10. ASSUME NEW r, GoOn(h, r), r.op = req[h].op, req[h].op = "attach", HasFile(h),
              r.at \in Answered \cup {"insert", "made", "unlink"},
              r.at \notin Answered =>
                /\ DOMAIN r = RequestFields /\ r.alone = req[h].alone /\ r.sound = req[h].sound
                /\ r.on = req[h].on /\ r.arg = req[h].arg /\ r.k = req[h].k,
              r.at = "insert" => req[h].at \in {"clear", "insert"},
              r.at \in {"insert", "unlink"} => \A t \in tracks' : t.id # req[h].k,
              \A t \in tracks' : \/ t.id = req[h].k /\ t.file \in files
                                 \/ \E s \in tracks : s.id = t.id /\ s.kind = t.kind /\ s.file = t.file,
              TracksOK', UNCHANGED <<files, nextTrack>>
       PROVE  LibInv'
  <2>1. /\ \A g \in Handlers \ {h} :
             /\ req'[g].op = req[g].op /\ req'[g].at = req[g].at
             /\ req'[g].on = req[g].on /\ req'[g].k = req[g].k /\ req'[g].list = req[g].list
        /\ req'[h].op = "attach" /\ req'[h].at = r.at
        /\ r.at \notin Answered => req'[h] = r
        /\ UNCHANGED crashes
    BY <1>4, <1>10
  <2>2. /\ Handles(h, "attach", {"clear", "insert"})' => Handles(h, "attach", {"clear", "insert"})
        /\ Handles(h, "attach", {"clear", "insert", "unlink"})' => \A t \in tracks' : t.id # req'[h].k
        /\ HasFile(h)' => req'[h].k = req[h].k
    BY <1>10, <2>1 DEF Handles, HasFile, Answered
  <2>3. FilesOK'
    BY <1>10, <2>1, <2>2, FilesStay
  <2>4. QED
    BY <1>2, <1>3, <1>10, <2>3
<1>11. CASE clearDefaultFlagSiblings(h)
  <2>1. req[h].op = "attach" /\ req[h].at = "clear" /\ GoTo(h, "insert")
        /\ UNCHANGED <<files, nextTrack>>
    BY <1>11 DEF clearDefaultFlagSiblings, At, Existing
  <2>2. PICK now : now = tracks' /\ \A t \in now : \E s \in tracks : t = s \/ t = [s EXCEPT !.def = FALSE]
    BY <1>11 DEF clearDefaultFlagSiblings
  <2>3. \A t \in now : /\ DOMAIN t = TrackFields /\ t.id \in 1..(nextTrack - 1)
                       /\ t.media \in Media /\ t.def \in BOOLEAN
                       /\ t.kind = "external" => t.file = t.id
                       /\ \E s \in tracks : s.id = t.id /\ s.kind = t.kind /\ s.file = t.file
    BY <1>1, <2>2, FlagsOK
  <2>4. PICK r : r = [req[h] EXCEPT !.at = "insert"]
    OBVIOUS
  <2>5. /\ GoOn(h, r) /\ DOMAIN r = RequestFields /\ r.at = "insert" /\ r.op = req[h].op
        /\ r.on = req[h].on
        /\ r.arg = req[h].arg /\ r.k = req[h].k /\ r.alone = req[h].alone /\ r.sound = req[h].sound
    BY <1>1, <2>1, <2>4, GoesTo
  <2>6. HasFile(h) /\ \A t \in tracks : t.id # req[h].k
    BY <1>5, <2>1 DEF HasFile, Handles, NotYetRows
  <2>7. TracksOK' /\ \A t \in tracks' : t.id # req[h].k
    BY <2>1, <2>2, <2>3, <2>6 DEF TracksOK
  <2>8. QED
    BY <1>10, <2>1, <2>2, <2>3, <2>5, <2>6, <2>7
<1>12. CASE createExternalSubtitle(h)
  <2>1. /\ req[h].op = "attach" /\ req[h].at = "insert" /\ HasFile(h) /\ UNCHANGED <<files, nextTrack>>
        /\ req[h].k \in files /\ \A t \in tracks : t.id # req[h].k
    BY <1>5, <1>12 DEF createExternalSubtitle, At, HasFile, Handles, Stored, NotYetRows
  <2>2. CASE GoOn(h, Failed(req[h])) /\ UNCHANGED tracks
    <3>1. PICK r : r = Failed(req[h])
      OBVIOUS
    <3>2. /\ DOMAIN r = RequestFields /\ r.at = "unlink" /\ r.op = req[h].op /\ r.on = req[h].on
          /\ r.arg = req[h].arg /\ r.k = req[h].k /\ r.alone = req[h].alone /\ r.sound = req[h].sound
      BY <1>1, <2>1, <3>1 DEF Failed, RequestFields
    <3>3. TracksOK'
      BY <1>1, <2>1, <2>2 DEF TracksOK
    <3>4. QED
      BY <1>10, <2>1, <2>2, <3>1, <3>2, <3>3
  <2>3. CASE ~(GoOn(h, Failed(req[h])) /\ UNCHANGED tracks)
    <3>1. PICK t : t = ExternalTrack(req[h]) /\ tracks' = tracks \cup {t}
      BY <1>12, <2>3 DEF createExternalSubtitle
    <3>2. /\ DOMAIN t = TrackFields /\ t.id = req[h].k /\ t.media \in Media /\ t.def \in BOOLEAN
          /\ t.file = req[h].k
      BY <1>3, <2>1, <3>1 DEF ExternalTrack, WantsDefault, TrackFields
    <3>3. \A s \in tracks' : \/ s.id = req[h].k /\ s.file \in files
                             \/ \E q \in tracks : q.id = s.id /\ q.kind = s.kind /\ q.file = s.file
      BY <2>1, <3>1, <3>2
    <3>4. TracksOK'
      <4>1. \A s \in tracks : /\ DOMAIN s = TrackFields /\ s.id \in 1..(nextTrack - 1)
                              /\ s.media \in Media /\ s.def \in BOOLEAN
                              /\ s.kind = "external" => s.file = s.id
        BY <1>1 DEF TracksOK
      <4>2. t.id \in 1..(nextTrack - 1)
        BY <1>3, <2>1, <3>2
      <4>3. QED
        BY <2>1, <3>1, <3>2, <4>1, <4>2 DEF TracksOK
    <3>5. PICK r : GoOn(h, r) /\ (r = [req[h] EXCEPT !.at = "ok"] \/ r = [req[h] EXCEPT !.at = "made"])
      BY <1>12, <2>1, <2>3 DEF createExternalSubtitle, Done, GoTo
    <3>6. /\ r.op = req[h].op /\ r.at \in {"ok", "made"}
          /\ DOMAIN r = RequestFields /\ r.alone = req[h].alone /\ r.sound = req[h].sound
          /\ r.on = req[h].on /\ r.arg = req[h].arg /\ r.k = req[h].k
      BY <1>1, <3>5 DEF RequestFields
    <3>7. QED
      BY <1>10, <2>1, <3>3, <3>4, <3>5, <3>6 DEF Answered
  <2>4. QED
    BY <2>2, <2>3
<1>13. CASE ReadBack(h)
  <2>1. /\ req[h].op = "attach" /\ req[h].at = "made" /\ HasFile(h)
        /\ UNCHANGED <<tracks, files, nextTrack>>
    BY <1>13 DEF ReadBack, At, HasFile, Handles, subtitleVars
  <2>2. PICK r : /\ GoOn(h, r)
                 /\ \/ r = [req[h] EXCEPT !.at = "ok"]
                    \/ r = [req[h] EXCEPT !.at = "unlink"] /\ ~IsTrack(req[h].k)
    BY <1>1, <1>13, <2>1 DEF ReadBack, Done, Failed
  <2>3. /\ r.op = req[h].op /\ r.at \in {"ok", "unlink"} /\ (r.at = "unlink" => ~IsTrack(req[h].k))
        /\ DOMAIN r = RequestFields /\ r.alone = req[h].alone /\ r.sound = req[h].sound
        /\ r.on = req[h].on /\ r.arg = req[h].arg /\ r.k = req[h].k
    BY <1>1, <2>2 DEF RequestFields
  <2>4. TracksOK' /\ (r.at = "unlink" => \A t \in tracks' : t.id # req[h].k)
    BY <1>1, <2>1, <2>3 DEF TracksOK, IsTrack
  <2>5. QED
    BY <1>10, <2>1, <2>2, <2>3, <2>4 DEF Answered
<1>14. CASE ReadTrack(h)
  <2>1. /\ req[h].op = "detach" /\ req[h].at = "read" /\ UNCHANGED <<tracks, files, nextTrack>>
        /\ UNCHANGED subtitleVars
    BY <1>14 DEF ReadTrack, At, subtitleVars
  <2>2. CASE GoTo(h, "error")
    <3>1. PICK r : r = [req[h] EXCEPT !.at = "error"]
      OBVIOUS
    <3>2. GoOn(h, r) /\ r.op = req[h].op /\ r.at = "error"
      BY <1>1, <2>2, <3>1, GoesTo
    <3>3. QED
      BY <1>7, <2>1, <3>2 DEF Answered
  <2>3. CASE ~GoTo(h, "error")
    <3>1. PICK t \in tracks : t.id = req[h].on /\ t = Track(req[h].on)
      BY <1>14, <2>3 DEF ReadTrack, IsTrack, Track
    <3>2. PICK at, r : /\ at = IF t.kind = "external" THEN "unlink" ELSE "row"
                       /\ r = [req[h] EXCEPT !.list = <<t>>, !.k = t.id, !.at = at] /\ GoOn(h, r)
      BY <1>14, <2>1, <2>3, <3>1 DEF ReadTrack
    <3>3. /\ DOMAIN r = RequestFields /\ r.op = "detach" /\ r.at = at /\ r.on = req[h].on
          /\ r.list = <<t>>
          /\ r.alone = req[h].alone /\ r.sound = req[h].sound
          /\ GoOn(h, r) /\ r.op = req[h].op /\ r.at \notin Answered
      BY <1>1, <2>1, <3>2 DEF RequestFields, Answered
    <3>4. /\ \A g \in Handlers \ {h} :
               /\ req'[g].op = req[g].op /\ req'[g].at = req[g].at
               /\ req'[g].on = req[g].on /\ req'[g].k = req[g].k /\ req'[g].list = req[g].list
          /\ req'[h] = r /\ UNCHANGED crashes
      BY <1>4, <3>3
    <3>5. /\ \A g \in Handlers \ {h} : \A op, ats : Handles(g, op, ats)' <=> Handles(g, op, ats)
          /\ \A g \in Handlers \ {h} : HasFile(g)' <=> HasFile(g)
      BY <3>4, Elsewhere
    <3>6. /\ ~Handles(h, "attach", {"clear", "insert", "unlink"})'
          /\ ~Handles(h, "attach", {"clear", "insert"})'
          /\ ~HasFile(h)' /\ ~Handles(h, "detach", {"row"}) /\ req'[h].on = t.id
          /\ Handles(h, "detach", {"unlink"})' => t.kind = "external" /\ req'[h].list[1].file = t.file
      BY <2>1, <3>1, <3>2, <3>3, <3>4 DEF Handles, HasFile
    <3>7. NotYetRows' /\ Stored' /\ FilesDiffer'
      BY <1>5, <2>1, <3>4, <3>5, <3>6 DEF NotYetRows, Stored, FilesDiffer
    <3>8. \A g \in Handlers : Handles(g, "attach", {"clear", "insert"}) => req[g].k # t.id
      BY <1>5, <3>1 DEF NotYetRows, Handles
    <3>9. NoneTaken'
      BY <1>5, <3>4, <3>5, <3>6, <3>8 DEF NoneTaken
    <3>10. TakenOwn'
      BY <1>1, <1>5, <3>1, <3>4, <3>5, <3>6 DEF TakenOwn, TracksOK
    <3>11. RowFiles'
      BY <1>5, <2>1, <3>4, <3>5, <3>6 DEF RowFiles
    <3>12. FilesOK' /\ TracksOK'
      BY <1>1, <2>1, <3>7, <3>9, <3>10, <3>11 DEF FilesOK, TracksOK
    <3>13. QED
      BY <1>2, <1>3, <2>1, <3>2, <3>3, <3>12
  <2>4. QED
    BY <2>2, <2>3
<1>15. CASE deleteFile(h) /\ req[h].op = "attach"
  <2>1. /\ req[h].at = "unlink" /\ files' = files \ {req[h].k} /\ GoTo(h, "error")
        /\ UNCHANGED <<tracks, nextTrack>>
    BY <1>15 DEF deleteFile, At
  <2>2. PICK r : r = [req[h] EXCEPT !.at = "error"]
    OBVIOUS
  <2>3. GoOn(h, r) /\ r.op = req[h].op /\ r.at = "error"
    BY <1>1, <2>1, <2>2, GoesTo
  <2>4. /\ \A g \in Handlers \ {h} :
             /\ req'[g].op = req[g].op /\ req'[g].at = req[g].at
             /\ req'[g].on = req[g].on /\ req'[g].k = req[g].k /\ req'[g].list = req[g].list
        /\ req'[h].op = "attach" /\ req'[h].at = "error" /\ UNCHANGED crashes
    BY <1>4, <1>15, <2>3
  <2>5. /\ \A g \in Handlers \ {h} : \A op, ats : Handles(g, op, ats)' <=> Handles(g, op, ats)
        /\ \A g \in Handlers \ {h} : HasFile(g)' <=> HasFile(g)
    BY <2>4, Elsewhere
  <2>6. /\ ~Handles(h, "attach", {"clear", "insert", "unlink"})'
        /\ ~Handles(h, "attach", {"clear", "insert"})'
        /\ ~HasFile(h)' /\ ~Handles(h, "detach", {"unlink", "row"})'
        /\ ~Handles(h, "detach", {"unlink"})'
        /\ ~Handles(h, "detach", {"row"}) /\ HasFile(h)
        /\ Handles(h, "attach", {"clear", "insert", "unlink"})
    BY <1>15, <2>1, <2>4 DEF Handles, HasFile
  <2>7. /\ \A t \in tracks : t.id # req[h].k
        /\ \A g \in Handlers \ {h} : HasFile(g) => req[g].k # req[h].k
        /\ \A g \in Handlers : Handles(g, "attach", {"clear", "insert"}) => HasFile(g)
    BY <1>5, <2>6 DEF NotYetRows, FilesDiffer, Handles, HasFile
  <2>8. NotYetRows' /\ FilesDiffer' /\ NoneTaken' /\ TakenOwn'
    BY <1>5, <2>1, <2>4, <2>5, <2>6 DEF NotYetRows, FilesDiffer, NoneTaken, TakenOwn
  <2>9. Stored'
    BY <1>5, <2>1, <2>4, <2>5, <2>6, <2>7 DEF Stored
  <2>10. RowFiles'
    <3>1. \A t \in tracks : t.kind = "external" => t.file # req[h].k
      BY <1>1, <2>7 DEF TracksOK
    <3>2. QED
      BY <1>5, <2>1, <2>4, <2>5, <2>6, <3>1 DEF RowFiles
  <2>11. FilesOK' /\ TracksOK'
    BY <1>1, <2>1, <2>8, <2>9, <2>10 DEF FilesOK, TracksOK
  <2>12. QED
    BY <1>2, <2>1, <2>3, <2>11 DEF Answered
<1>16. CASE deleteFile(h) /\ req[h].op = "detach"
  <2>1. /\ req[h].at = "unlink" /\ files' = files \ {req[h].list[1].file} /\ GoTo(h, "row")
        /\ UNCHANGED <<tracks, nextTrack>>
    BY <1>16 DEF deleteFile, At
  <2>2. PICK r : r = [req[h] EXCEPT !.at = "row"]
    OBVIOUS
  <2>3. /\ GoOn(h, r) /\ DOMAIN r = RequestFields /\ r.at = "row" /\ r.op = req[h].op
        /\ r.on = req[h].on
        /\ r.alone = req[h].alone /\ r.sound = req[h].sound
    BY <1>1, <2>1, <2>2, GoesTo
  <2>4. /\ \A g \in Handlers \ {h} :
             /\ req'[g].op = req[g].op /\ req'[g].at = req[g].at
             /\ req'[g].on = req[g].on /\ req'[g].k = req[g].k /\ req'[g].list = req[g].list
        /\ req'[h] = r /\ UNCHANGED crashes
    BY <1>4, <2>3 DEF Answered
  <2>5. /\ \A g \in Handlers \ {h} : \A op, ats : Handles(g, op, ats)' <=> Handles(g, op, ats)
        /\ \A g \in Handlers \ {h} : HasFile(g)' <=> HasFile(g)
    BY <2>4, Elsewhere
  <2>6. /\ ~Handles(h, "attach", {"clear", "insert", "unlink"})'
        /\ ~Handles(h, "attach", {"clear", "insert"})'
        /\ ~HasFile(h)' /\ ~Handles(h, "detach", {"unlink"})' /\ ~Handles(h, "detach", {"row"})
        /\ Handles(h, "detach", {"row"})' /\ Handles(h, "detach", {"unlink", "row"})
        /\ Handles(h, "detach", {"unlink"})
        /\ req'[h].on = req[h].on
    BY <1>16, <2>1, <2>3, <2>4 DEF Handles, HasFile
  <2>7. /\ req[h].list[1].file = req[h].on
        /\ \A g \in Handlers : Handles(g, "attach", {"clear", "insert"}) => req[g].k # req[h].on
    BY <1>5, <2>6 DEF TakenOwn, NoneTaken
  <2>8. NotYetRows' /\ FilesDiffer' /\ TakenOwn'
    BY <1>5, <2>1, <2>4, <2>5, <2>6 DEF NotYetRows, FilesDiffer, TakenOwn
  <2>9. Stored' /\ NoneTaken'
    BY <1>5, <2>1, <2>4, <2>5, <2>6, <2>7 DEF Stored, NoneTaken
  <2>10. RowFiles'
    <3>1. \A t \in tracks : t.kind = "external" /\ t.file = req[h].on => t.id = req'[h].on
      BY <1>1, <2>6 DEF TracksOK
    <3>2. QED
      BY <1>5, <2>1, <2>4, <2>5, <2>6, <2>7, <3>1 DEF RowFiles
  <2>11. FilesOK' /\ TracksOK'
    BY <1>1, <2>1, <2>8, <2>9, <2>10 DEF FilesOK, TracksOK
  <2>12. QED
    BY <1>2, <1>3, <1>16, <2>1, <2>3, <2>11
<1>17. CASE deleteSubtitle(h)
  <2>1. /\ req[h].op = "detach" /\ req[h].at = "row"
        /\ tracks' = {t \in tracks : t.id # req[h].on} /\ GoTo(h, "ok")
        /\ UNCHANGED <<files, nextTrack>>
    BY <1>17 DEF deleteSubtitle, At
  <2>2. PICK r : r = [req[h] EXCEPT !.at = "ok"]
    OBVIOUS
  <2>3. GoOn(h, r) /\ r.op = req[h].op /\ r.at = "ok"
    BY <1>1, <2>1, <2>2, GoesTo
  <2>4. /\ \A g \in Handlers \ {h} :
             /\ req'[g].op = req[g].op /\ req'[g].at = req[g].at
             /\ req'[g].on = req[g].on /\ req'[g].k = req[g].k /\ req'[g].list = req[g].list
        /\ req'[h].at = "ok" /\ UNCHANGED crashes
    BY <1>4, <2>3
  <2>5. /\ \A g \in Handlers \ {h} : \A op, ats : Handles(g, op, ats)' <=> Handles(g, op, ats)
        /\ \A g \in Handlers \ {h} : HasFile(g)' <=> HasFile(g)
    BY <2>4, Elsewhere
  <2>6. /\ ~Handles(h, "attach", {"clear", "insert", "unlink"})'
        /\ ~Handles(h, "attach", {"clear", "insert"})'
        /\ ~HasFile(h)' /\ ~Handles(h, "detach", {"unlink", "row"})'
        /\ ~Handles(h, "detach", {"unlink"})'
    BY <2>4 DEF Handles, HasFile
  <2>7. NotYetRows' /\ FilesDiffer' /\ NoneTaken' /\ TakenOwn' /\ Stored'
    BY <1>5, <2>1, <2>4, <2>5, <2>6 DEF NotYetRows, FilesDiffer, NoneTaken, TakenOwn, Stored
  <2>8. RowFiles'
    BY <1>5, <2>1, <2>4, <2>5 DEF RowFiles
  <2>9. FilesOK' /\ TracksOK'
    BY <1>1, <2>1, <2>7, <2>8 DEF FilesOK, TracksOK
  <2>10. QED
    BY <1>2, <2>1, <2>3, <2>9 DEF Answered
<1>18. QED
  BY <1>8, <1>9, <1>11, <1>12, <1>13, <1>14, <1>15, <1>16, <1>17 DEF StepSubtitles, FindStream,
     createEmbeddedSubtitle, pruneEmbeddedSubtitles, updateSubtitle, At

(***************************************************************************)
(* A request begins                                                        *)
(***************************************************************************)
\* What is asked is of its kind, whatever else is going on.
Asked(h, op, at, on, arg) ==
  \A r : (/\ DOMAIN r = RequestFields /\ r.op = op /\ r.at = at /\ r.on = on /\ r.arg = arg
          /\ r.list = <<>> /\ r.k = 0 /\ r.was = <<>>)
         => PlaylistRequestOK(r) /\ FolderRequestOK(r) /\ SubtitleRequestOK(r)

\* A request that begins knows nothing yet but what it was asked.
LEMMA BeginKeeps ==
  ASSUME LibInv, NEW h \in Handlers, NEW op, NEW at, NEW on, NEW arg, NEW sound \in BOOLEAN,
         Begin(h, op, at, on, arg, sound), Asked(h, op, at, on, arg),
         at \notin Answered, op \in {"attach", "detach"} => at \notin {"clear", "insert", "made", "unlink", "row"},
         UNCHANGED <<playlistVars, approvalVars, folderVars, part, tracks, files, nextTrack>>
  PROVE  LibInv'
<1>1. UNCHANGED <<backend, crashes>> /\ begun' = begun + 1 /\ begun < MaxRequests /\ ~Open(h) /\ Turn(h)
  BY DEF Begin, MayBegin
<1>2. UNCHANGED <<playlists, media, items, nextItem, approval, logged, folders, nextFolder>>
  BY DEF playlistVars, approvalVars, folderVars
<1>3. PICK q : q = [NoRequest EXCEPT !.op = op, !.at = at, !.on = on, !.arg = arg, !.sound = sound,
                                     !.alone = (Others(h) = {})]
  OBVIOUS
<1>4. /\ DOMAIN q = RequestFields /\ q.op = op /\ q.at = at /\ q.on = on /\ q.arg = arg
      /\ q.list = <<>> /\ q.k = 0 /\ q.was = <<>> /\ q.sound \in BOOLEAN /\ q.alone \in BOOLEAN
  BY <1>3 DEF NoRequest, RequestFields
<1>5. RequestOK(q)
  BY <1>4 DEF Asked, RequestOK
<1>6. /\ req' = [g \in Handlers |-> req'[g]] /\ req'[h] = q
      /\ \A g \in Handlers \ {h} : req'[g] = req[g] \/ req'[g] = [req[g] EXCEPT !.alone = FALSE]
  BY <1>3 DEF Begin
<1>7. ASSUME NEW r, RequestOK(r), NEW s, s = [r EXCEPT !.alone = FALSE]
      PROVE  /\ RequestOK(s) /\ s.op = r.op /\ s.at = r.at /\ s.on = r.on /\ s.k = r.k
      /\ s.list = r.list
  <2>1. /\ DOMAIN s = RequestFields /\ s.op = r.op /\ s.at = r.at /\ s.on = r.on /\ s.arg = r.arg
        /\ s.k = r.k /\ s.list = r.list /\ s.was = r.was /\ s.alone \in BOOLEAN /\ s.sound \in BOOLEAN
    BY <1>7 DEF RequestOK, RequestFields
  <2>2. Parent(s) = Parent(r)
    BY <2>1 DEF Parent
  <2>3. PlaylistRequestOK(r) => PlaylistRequestOK(s)
    BY <2>1 DEF PlaylistRequestOK
  <2>4. FolderRequestOK(r) => FolderRequestOK(s)
    BY <2>1, <2>2 DEF FolderRequestOK
  <2>5. SubtitleRequestOK(r) => SubtitleRequestOK(s)
    BY <2>1 DEF SubtitleRequestOK
  <2>6. QED
    BY <1>7, <2>1, <2>3, <2>4, <2>5 DEF RequestOK
<1>8. \A g \in Handlers \ {h} :
        /\ RequestOK(req'[g]) /\ req'[g].op = req[g].op /\ req'[g].at = req[g].at
        /\ req'[g].on = req[g].on /\ req'[g].k = req[g].k /\ req'[g].list = req[g].list
  BY <1>6, <1>7 DEF LibInv, RequestsOK
<1>9. Rows' /\ Growing
  BY <1>1, <1>2, RequestsAssumption, FoldersAssumption
     DEF LibInv, Rows, CountersOK, ItemsOK, TracksOK, FoldersOK, Growing
<1>10. RequestsOK'
  <2>1. ASSUME NEW g \in Handlers PROVE RequestOK(req[g])'
    <3>1. PICK r : r = req'[g]
      OBVIOUS
    <3>2. RequestOK(r)
      BY <1>5, <1>6, <1>8, <3>1
    <3>3. RequestOK(r)'
      BY <1>1, <1>9, <3>2, RequestStays DEF Rows
    <3>4. QED
      BY <3>1, <3>3
  <2>2. QED
    BY <1>6, <2>1 DEF RequestsOK
<1>11. SqliteTurns'
  BY <1>1, <1>6, <1>8 DEF LibInv, SqliteTurns, Turn, Others, Open
<1>12. FilesOK'
  <2>1. req'[h].op \in {"attach", "detach"} => req'[h].at \notin {"clear", "insert", "made", "unlink", "row"}
    BY <1>4, <1>6
  <2>2. ~Handles(h, "detach", {"row"})
    BY <1>1 DEF Handles, Open, Answered
  <2>3. QED
    BY <1>1, <1>8, <2>1, <2>2, FilesAside
<1>13. QED
  BY <1>9, <1>10, <1>11, <1>12 DEF LibInv, Rows

\* The requests that begin: on playlists, approvals, media, tracks and folders.
LEMMA PlaylistBegins ==
  ASSUME LibInv, NEW h \in Handlers, BeginPlaylists(h) \/ Adds(h),
         UNCHANGED <<approvalVars, folderVars, subtitleVars, part>>
  PROVE  LibInv'
<1>1. UNCHANGED <<playlistVars, tracks, files, nextTrack>>
  BY DEF BeginPlaylists, Adds, addPlaylistItems, deletePlaylistItem, updatePlaylistItem, deletePlaylist,
     reorderPlaylistItems, subtitleVars
<1>2. ItemsOK(items) /\ playlists \subseteq Playlist /\ \A p : Dense(p) \in BOOLEAN
  BY DEF LibInv, CountersOK, Dense
<1>3. CASE Adds(h)
  <2>1. PICK p \in Playlist, ms \in UNION {[1..n -> Media] : n \in 1..2} : addPlaylistItems(h, p, ms)
    BY <1>3 DEF Adds
  <2>2. PICK sound \in BOOLEAN : Begin(h, "add", "count", p, ms, sound)
    BY <1>2, <2>1 DEF addPlaylistItems
  <2>3. ms \in Seq(Media) /\ ms # <<>>
    <3>1. PICK n \in 1..2 : ms \in [1..n -> Media]
      BY <2>1
    <3>2. ms \in Seq(Media) /\ Len(ms) = n
      BY <3>1
    <3>3. ms # <<>>
      BY <3>2, EmptySeq
    <3>4. QED
      BY <3>2, <3>3
  <2>4. Asked(h, "add", "count", p, ms)
    BY <2>1, <2>3 DEF Asked, PlaylistRequestOK, FolderRequestOK, SubtitleRequestOK
  <2>5. QED
    BY <1>1, <2>2, <2>4, BeginKeeps DEF Answered
<1>4. ASSUME NEW i \in items, deletePlaylistItem(h, i) PROVE LibInv'
  <2>1. PICK sound \in BOOLEAN : Begin(h, "remove", "delete", i.pl, <<i.id>>, sound)
    BY <1>2, <1>4 DEF deletePlaylistItem
  <2>2. Asked(h, "remove", "delete", i.pl, <<i.id>>)
    BY <1>2, <1>4 DEF Asked, PlaylistRequestOK, FolderRequestOK, SubtitleRequestOK, ItemsOK
  <2>3. QED
    BY <1>1, <2>1, <2>2, BeginKeeps DEF Answered
<1>5. ASSUME NEW i \in items, NEW x \in Indexes, updatePlaylistItem(h, i, x) PROVE LibInv'
  <2>1. PICK sound \in BOOLEAN : Begin(h, "update", "update", i.pl, <<i.id, x>>, sound)
    BY <1>2, <1>5 DEF updatePlaylistItem
  <2>2. Asked(h, "update", "update", i.pl, <<i.id, x>>)
    BY PlaylistsAssumption DEF Asked, PlaylistRequestOK, FolderRequestOK, SubtitleRequestOK
  <2>3. QED
    BY <1>1, <2>1, <2>2, BeginKeeps DEF Answered
<1>6. ASSUME NEW p \in Playlist, deletePlaylist(h, p) PROVE LibInv'
  <2>1. PICK at \in {"items", "row"}, sound \in BOOLEAN : Begin(h, "drop", at, p, <<>>, sound)
    BY <1>2, <1>6 DEF deletePlaylist
  <2>2. Asked(h, "drop", at, p, <<>>)
    BY DEF Asked, PlaylistRequestOK, FolderRequestOK, SubtitleRequestOK
  <2>3. QED
    BY <1>1, <2>1, <2>2, BeginKeeps DEF Answered
<1>7. ASSUME NEW p \in Playlist, NEW ids \in Arrangements({i.id : i \in ItemsOf(p)}), reorderPlaylistItems(h, p, ids)
      PROVE  LibInv'
  <2>1. PICK sound \in BOOLEAN : Begin(h, "reorder", "validate", p, ids, sound)
    BY <1>2, <1>7 DEF reorderPlaylistItems
  <2>2. Len(ids) \in Nat \ {0}
    <3>1. PICK S : S = {i.id : i \in ItemsOf(p)}
      OBVIOUS
    <3>2. IsFiniteSet(S)
      <4>1. IsFiniteSet(ItemsOf(p))
        BY <1>2, FS_Subset DEF ItemsOK, ItemsOf
      <4>2. [i \in ItemsOf(p) |-> i.id] \in Surjection(ItemsOf(p), S)
        BY <3>1 DEF Surjection
      <4>3. QED
        BY <4>1, <4>2, FS_Surjection
    <3>3. PICK n \in 1..Cardinality(S) : ids \in [1..n -> S]
      BY <3>1 DEF Arrangements
    <3>4. n \in Nat \ {0}
      BY <3>2, <3>3, FS_CardinalityType
    <3>5. QED
      BY <3>3, <3>4
  <2>3. Asked(h, "reorder", "validate", p, ids)
    BY <2>2 DEF Asked, PlaylistRequestOK, FolderRequestOK, SubtitleRequestOK
  <2>4. QED
    BY <1>1, <2>1, <2>3, BeginKeeps DEF Answered
<1>8. QED
  BY <1>3, <1>4, <1>5, <1>6, <1>7 DEF BeginPlaylists

LEMMA ApprovalBegins ==
  ASSUME LibInv, NEW h \in Handlers, Decides(h), UNCHANGED <<folderVars, subtitleVars, part>>
  PROVE  LibInv'
<1>1. PICK m \in Media, status \in {"approved", "rejected"} : decide(h, m, status)
  BY DEF Decides
<1>2. PICK sound \in BOOLEAN : Begin(h, "decide", "status", m, <<status>>, sound)
  BY <1>1 DEF decide
<1>3. Asked(h, "decide", "status", m, <<status>>)
  BY DEF Asked, PlaylistRequestOK, FolderRequestOK, SubtitleRequestOK
<1>4. QED
  BY <1>1, <1>2, <1>3, BeginKeeps DEF Answered, decide, subtitleVars

LEMMA MediaBegins ==
  ASSUME LibInv, NEW h \in Handlers, NEW m \in Media, deleteMedia(h, m), UNCHANGED <<approvalVars, folderVars, part>>
  PROVE  LibInv'
<1>1. PICK at \in {"items", "row"} : Begin(h, "purge", at, m, <<>>, TRUE)
  BY DEF deleteMedia
<1>2. Asked(h, "purge", at, m, <<>>)
  BY DEF Asked, PlaylistRequestOK, FolderRequestOK, SubtitleRequestOK
<1>3. QED
  BY <1>1, <1>2, BeginKeeps DEF Answered, deleteMedia, subtitleVars

LEMMA SubtitleBegins ==
  ASSUME LibInv, NEW h \in Handlers, BeginSubtitles(h), backend # "mssql",
         UNCHANGED <<playlistVars, approvalVars, folderVars, part>>
  PROVE  LibInv'
<1>1. UNCHANGED <<tracks, files, nextTrack>>
  BY DEF BeginSubtitles, attachExternal, persistEmbeddedSubtitles, delete, update, subtitleVars
<1>2. TracksOK /\ media \subseteq Media /\ \A m : OneDefault(m) \in BOOLEAN
  BY DEF LibInv, CountersOK, OneDefault
<1>3. ASSUME NEW m \in Media, NEW d \in BOOLEAN, attachExternal(h, m, d) PROVE LibInv'
  <2>1. PICK sound \in BOOLEAN : Begin(h, "attach", "parent", m, <<d>>, sound)
    BY <1>2, <1>3 DEF attachExternal
  <2>2. Asked(h, "attach", "parent", m, <<d>>)
    BY DEF Asked, PlaylistRequestOK, FolderRequestOK, SubtitleRequestOK
  <2>3. QED
    BY <1>1, <2>1, <2>2, BeginKeeps DEF Answered
<1>4. ASSUME NEW m \in Media, NEW s \in Streams, persistEmbeddedSubtitles(h, m, s) PROVE LibInv'
  <2>1. PICK sound \in BOOLEAN : Begin(h, "embed", "find", m, s, sound)
    BY <1>2, <1>4 DEF persistEmbeddedSubtitles
  <2>2. s \in Seq([stream : Int, def : BOOLEAN]) /\ s # <<>>
    BY SubtitlesAssumption
  <2>3. Asked(h, "embed", "find", m, s)
    BY <2>2 DEF Asked, PlaylistRequestOK, FolderRequestOK, SubtitleRequestOK
  <2>4. QED
    BY <1>1, <2>1, <2>3, BeginKeeps DEF Answered
<1>5. ASSUME NEW t \in tracks, delete(h, t) PROVE LibInv'
  <2>1. PICK sound \in BOOLEAN : Begin(h, "detach", "read", t.id, <<>>, sound)
    BY <1>2, <1>5 DEF delete
  <2>2. Asked(h, "detach", "read", t.id, <<>>)
    BY <1>2 DEF Asked, PlaylistRequestOK, FolderRequestOK, SubtitleRequestOK, TracksOK
  <2>3. QED
    BY <1>1, <2>1, <2>2, BeginKeeps DEF Answered
<1>6. ASSUME NEW t \in tracks, NEW d \in BOOLEAN, update(h, t, d) PROVE LibInv'
  <2>1. PICK sound \in BOOLEAN : Begin(h, "patch", "read", t.id, <<d>>, sound)
    BY <1>2, <1>6 DEF update
  <2>2. Asked(h, "patch", "read", t.id, <<d>>)
    BY DEF Asked, PlaylistRequestOK, FolderRequestOK, SubtitleRequestOK
  <2>3. QED
    BY <1>1, <2>1, <2>2, BeginKeeps DEF Answered
<1>7. QED
  BY <1>3, <1>4, <1>5, <1>6 DEF BeginSubtitles

LEMMA FolderBegins ==
  ASSUME LibInv, NEW h \in Handlers, BeginFolders(h), UNCHANGED <<playlistVars, approvalVars, subtitleVars, part>>
  PROVE  LibInv'
<1>1. UNCHANGED <<tracks, files, nextTrack, folderVars>>
  BY DEF BeginFolders, createFolder, updateFolder, deleteFolder, moveMedia, subtitleVars
<1>2. \A f \in Ids \cup {Root} : f \in 0..MaxFolders
  BY FoldersAssumption DEF LibInv, CountersOK, FoldersOK, Ids, Root
<1>3. PICK sound \in BOOLEAN : sound = (Tree /\ PathsTrue)
  BY DEF Tree, PathsTrue
<1>4. ASSUME NEW p \in Ids \cup {Root}, NEW n \in Names, createFolder(h, p, n) PROVE LibInv'
  <2>1. PICK s \in BOOLEAN : Begin(h, "create", "parent", p, <<n>>, s)
    BY <1>3, <1>4 DEF createFolder
  <2>2. Asked(h, "create", "parent", p, <<n>>)
    BY <1>2 DEF Asked, PlaylistRequestOK, FolderRequestOK, SubtitleRequestOK
  <2>3. QED
    BY <1>1, <2>1, <2>2, BeginKeeps DEF Answered
<1>5. ASSUME NEW f \in Ids, NEW n, NEW p \in Ids \cup {Root, None}, updateFolder(h, f, n, p) PROVE LibInv'
  <2>1. PICK s \in BOOLEAN : Begin(h, "edit", "read", f, <<n, p>>, s)
    BY <1>3, <1>5 DEF updateFolder
  <2>2. p \in 0..MaxFolders \cup {None}
    BY <1>2
  <2>3. Asked(h, "edit", "read", f, <<n, p>>)
    BY <2>2 DEF Asked, PlaylistRequestOK, FolderRequestOK, SubtitleRequestOK, Parent
  <2>4. QED
    BY <1>1, <2>1, <2>3, BeginKeeps DEF Answered
<1>6. ASSUME NEW f \in Ids, NEW r \in BOOLEAN, deleteFolder(h, f, r) PROVE LibInv'
  <2>1. PICK s \in BOOLEAN : Begin(h, "delete", "counts", f, <<r>>, s)
    BY <1>3, <1>6 DEF deleteFolder
  <2>2. Asked(h, "delete", "counts", f, <<r>>)
    BY DEF Asked, PlaylistRequestOK, FolderRequestOK, SubtitleRequestOK
  <2>3. QED
    BY <1>1, <2>1, <2>2, BeginKeeps DEF Answered
<1>7. ASSUME NEW ms, NEW f, moveMedia(h, ms, f) PROVE LibInv'
  <2>1. PICK s \in BOOLEAN : Begin(h, "file", "move", f, <<ms>>, s)
    BY <1>3, <1>7 DEF moveMedia
  <2>2. Asked(h, "file", "move", f, <<ms>>)
    BY DEF Asked, PlaylistRequestOK, FolderRequestOK, SubtitleRequestOK
  <2>3. QED
    BY <1>1, <2>1, <2>2, BeginKeeps DEF Answered
<1>8. QED
  BY <1>4, <1>5, <1>6, <1>7 DEF BeginFolders

(***************************************************************************)
(* A crash, the beginning, and the theorem                                 *)
(***************************************************************************)
LEMMA LibraryStays ==
  ASSUME LibInv, UNCHANGED <<requestVars, playlistVars, approvalVars, subtitleVars, folderVars, part>>
  PROVE  LibInv'
<1>1. UNCHANGED <<backend, req, begun, crashes, playlists, media, items, nextItem, approval, logged,
                  tracks, files, nextTrack, folders, nextFolder, part>>
  BY DEF requestVars, playlistVars, approvalVars, subtitleVars, folderVars
<1>2. Rows' /\ Growing
  BY <1>1, FoldersAssumption DEF LibInv, Rows, CountersOK, ItemsOK, TracksOK, FoldersOK, Growing
<1>3. RequestsOK'
  <2>1. ASSUME NEW g \in Handlers PROVE RequestOK(req[g])'
    <3>1. PICK r : r = req[g] /\ r = req'[g]
      BY <1>1
    <3>2. RequestOK(r)
      BY <3>1 DEF LibInv, RequestsOK
    <3>3. RequestOK(r)'
      BY <1>1, <1>2, <3>2, RequestStays DEF Rows
    <3>4. QED
      BY <3>1, <3>3
  <2>2. QED
    BY <1>1, <2>1 DEF LibInv, RequestsOK
<1>4. SqliteTurns'
  BY <1>1 DEF LibInv, SqliteTurns, Open
<1>5. FilesOK'
  BY <1>1 DEF LibInv, FilesOK, NotYetRows, Stored, FilesDiffer, NoneTaken, TakenOwn, RowFiles, Handles,
     HasFile
<1>6. QED
  BY <1>2, <1>3, <1>4, <1>5 DEF LibInv, Rows

\* What a dead process was in the middle of is as it was, or as it left it.
LEMMA CrashKeeps ==
  ASSUME LibInv, Crash
  PROVE  LibInv'
<1>1. /\ req' = [h \in Handlers |-> NoRequest] /\ crashes' = crashes + 1 /\ crashes < MaxCrashes
      /\ UNCHANGED <<backend, begun, playlists, media, nextItem, approval, logged, tracks, files, nextTrack,
                     nextFolder, part>>
  BY DEF Crash, CrashRequests, approvalVars, subtitleVars
<1>2. ASSUME NEW h \in Handlers, Open(h) PROVE PlaylistRequestOK(req[h]) /\ FolderRequestOK(req[h])
  BY <1>2, Knows
<1>3. ItemsOK(items')
  <2>1. PICK dead : dead = {h \in Handlers : Open(h) /\ req[h].op \in {"remove", "reorder"} /\ req[h].was # <<>>}
    OBVIOUS
  <2>2. items' = IF dead = {} THEN items ELSE req[CHOOSE h \in dead : TRUE].was[1]
    BY <2>1 DEF Crash, RolledBack
  <2>3. \A h \in dead : ItemsOK(req[h].was[1])
    BY <1>2, <2>1 DEF PlaylistRequestOK
  <2>4. QED
    BY <2>2, <2>3 DEF LibInv
<1>4. FoldersOK(folders')
  <2>1. PICK dead : dead = {h \in Handlers : Open(h) /\ req[h].op \in {"edit"} /\ req[h].was # <<>>}
    OBVIOUS
  <2>2. folders' = IF dead = {} THEN folders ELSE req[CHOOSE h \in dead : TRUE].was[1]
    BY <2>1 DEF Crash, RolledBack
  <2>3. \A h \in dead : FoldersOK(req[h].was[1])
    BY <1>2, <2>1 DEF FolderRequestOK
  <2>4. QED
    BY <2>2, <2>3 DEF LibInv
<1>5. Rows'
  <2>1. crashes' \in 0..MaxCrashes /\ crashes' # 0
    BY <1>1, RequestsAssumption DEF LibInv, CountersOK
  <2>2. QED
    BY <1>1, <1>3, <1>4, <2>1 DEF LibInv, Rows, CountersOK, ItemsOK, TracksOK, FoldersOK
<1>6. \A h \in Handlers : req'[h].at \in Answered /\ DOMAIN req'[h] = RequestFields
                          /\ req'[h].alone \in BOOLEAN /\ req'[h].sound \in BOOLEAN
  BY <1>1 DEF NoRequest, RequestFields, Answered
<1>7. RequestsOK' /\ SqliteTurns'
  BY <1>1, <1>6 DEF RequestsOK, RequestOK, SqliteTurns, Open
<1>8. FilesOK'
  <2>1. \A h \in Handlers : \A op :
          \A ats \in {{"clear", "insert", "unlink"}, {"clear", "insert"}, {"unlink", "row"}, {"unlink"},
                     {"clear", "insert", "made", "unlink"}} : ~Handles(h, op, ats)'
    BY <1>6 DEF Handles, Answered
  <2>2. crashes' # 0
    BY <1>1 DEF LibInv, CountersOK
  <2>3. QED
    BY <2>1, <2>2 DEF FilesOK, NotYetRows, Stored, FilesDiffer, NoneTaken, TakenOwn, RowFiles, HasFile
<1>9. QED
  BY <1>5, <1>7, <1>8 DEF LibInv, Rows

\* The rows that are there at first.
LEMMA LibraryStarts ==
  ASSUME Init
  PROVE  LibInv
<1>1. /\ <<part, backend>> \in Studied /\ begun = 0 /\ crashes = 0
      /\ req = [h \in Handlers |-> NoRequest]
  <2>1. begun = 0 /\ crashes = 0 /\ req = [h \in Handlers |-> NoRequest]
    BY DEF Init, InitRequests
  <2>2. PICK s \in Studied : part = s[1] /\ backend = s[2]
    BY DEF Init
  <2>3. s = <<s[1], s[2]>>
    BY ContentAssumption
  <2>4. <<part, backend>> = s
    BY <2>2, <2>3
  <2>5. QED
    BY <2>1, <2>4
<1>2. /\ approval \in [Media -> {"pending", "approved", "rejected"}]
      /\ logged \in [Media -> {"pending", "approved", "rejected"}]
  BY DEF Init, InitApprovals
<1>3. /\ items = {} /\ nextItem = 1 /\ playlists \subseteq Playlist /\ media \subseteq Media
      \/ InitPlaylists
  BY DEF Init, NoPlaylists
<1>4. NoSubtitles \/ InitSubtitles
  BY DEF Init
<1>5. NoFolders \/ InitFolders
  BY DEF Init
<1>6. ItemsOK(items) /\ nextItem \in Nat \ {0} /\ playlists \subseteq Playlist /\ media \subseteq Media
  <2>1. CASE items = {} /\ nextItem = 1 /\ playlists \subseteq Playlist /\ media \subseteq Media
    BY <2>1, FS_EmptySet DEF ItemsOK
  <2>2. CASE InitPlaylists
    <3>1. PICK p \in Playlist, n \in 0..MaxFirst : \E f \in [1..n -> Media] :
            /\ items = {[id |-> k, pl |-> p, media |-> f[k], idx |-> k - 1] : k \in 1..n}
            /\ nextItem = n + 1
      BY <2>2 DEF InitPlaylists
    <3>2. PICK f \in [1..n -> Media] :
            /\ items = {[id |-> k, pl |-> p, media |-> f[k], idx |-> k - 1] : k \in 1..n}
            /\ nextItem = n + 1
      BY <3>1
    <3>3. n \in Nat
      BY PlaylistsAssumption
    <3>4. [k \in 1..n |-> [id |-> k, pl |-> p, media |-> f[k], idx |-> k - 1]] \in Surjection(1..n, items)
      BY <3>2 DEF Surjection
    <3>5. IsFiniteSet(items)
      BY <3>3, <3>4, FS_Interval, FS_Surjection
    <3>6. ASSUME NEW k \in 1..n, NEW i, i = [id |-> k, pl |-> p, media |-> f[k], idx |-> k - 1]
          PROVE  /\ DOMAIN i = ItemFields /\ i.id \in 1..n /\ i.pl \in Playlist /\ i.media \in Media
          /\ i.idx \in Int
      BY <3>6 DEF ItemFields
    <3>7. \A i \in items : \E k \in 1..n : i = [id |-> k, pl |-> p, media |-> f[k], idx |-> k - 1]
      BY <3>2
    <3>8. ItemsOK(items)
      BY <3>2, <3>3, <3>5, <3>6, <3>7 DEF ItemsOK
    <3>9. QED
      BY <2>2, <3>2, <3>3, <3>8 DEF InitPlaylists
  <2>3. QED
    BY <1>3, <2>1, <2>2
<1>7. /\ TracksOK /\ nextTrack \in Nat \ {0}
      /\ \A t \in tracks : t.kind = "external" => t.file \in files
  <2>1. CASE tracks = {} /\ nextTrack = 1
    BY <2>1 DEF TracksOK
  <2>2. ASSUME NEW m \in Media, NEW d \in BOOLEAN, files = {1}, nextTrack = 2,
               tracks = {[id |-> 1, media |-> m, kind |-> "external", stream |-> 0, def |-> d, file |-> 1]}
        PROVE  TracksOK /\ \A t \in tracks : t.kind = "external" => t.file \in files
    <3>1. PICK t : t = [id |-> 1, media |-> m, kind |-> "external", stream |-> 0, def |-> d, file |-> 1]
      OBVIOUS
    <3>2. /\ DOMAIN t = TrackFields /\ t.id = 1 /\ t.media = m /\ t.def = d /\ t.file = 1
          /\ tracks = {t}
      BY <2>2, <3>1 DEF TrackFields
    <3>3. QED
      BY <2>2, <3>2 DEF TracksOK
  <2>3. QED
    BY <1>4, <2>1, <2>2 DEF NoSubtitles, InitSubtitles
<1>8. FoldersOK(folders) /\ nextFolder \in 1..(MaxFolders + 1)
  <2>1. CASE NoFolders
    BY <2>1, FoldersAssumption DEF NoFolders, FoldersOK
  <2>2. CASE InitFolders
    <3>1. PICK n \in 0..2, a \in Names, b \in Names :
            /\ folders = {[id |-> k, name |-> IF k = 1 THEN a ELSE b, parent |-> k - 1, path |-> [i \in 1..k |-> i]] : k \in 1..n}
            /\ nextFolder = n + 1
      BY <2>2 DEF InitFolders
    <3>2. ASSUME NEW k \in 1..n, NEW f,
                 f = [id |-> k, name |-> IF k = 1 THEN a ELSE b, parent |-> k - 1, path |-> [i \in 1..k |-> i]]
          PROVE  DOMAIN f = FolderFields /\ f.id \in 1..n /\ f.parent \in 0..MaxFolders
      BY <3>2, FoldersAssumption DEF FolderFields
    <3>3. \A f \in folders : \E k \in 1..n :
            f = [id |-> k, name |-> IF k = 1 THEN a ELSE b, parent |-> k - 1, path |-> [i \in 1..k |-> i]]
      BY <3>1
    <3>4. QED
      BY <3>1, <3>2, <3>3, FoldersAssumption DEF FoldersOK
  <2>3. QED
    BY <1>5, <2>1, <2>2
<1>9. CountersOK
  BY <1>1, <1>2, <1>6, <1>7, <1>8, RequestsAssumption DEF CountersOK
<1>10. \A h \in Handlers : req[h].at \in Answered /\ DOMAIN req[h] = RequestFields
                          /\ req[h].alone \in BOOLEAN /\ req[h].sound \in BOOLEAN
  BY <1>1 DEF NoRequest, RequestFields, Answered
<1>11. RequestsOK /\ SqliteTurns
  BY <1>1, <1>10 DEF RequestsOK, RequestOK, SqliteTurns, Open
<1>12. FilesOK
  <2>1. \A h \in Handlers : \A op :
          \A ats \in {{"clear", "insert", "unlink"}, {"clear", "insert"}, {"unlink", "row"}, {"unlink"},
                     {"clear", "insert", "made", "unlink"}} : ~Handles(h, op, ats)
    BY <1>10 DEF Handles, Answered
  <2>2. QED
    BY <1>7, <2>1 DEF FilesOK, NotYetRows, Stored, FilesDiffer, NoneTaken, TakenOwn, RowFiles, HasFile
<1>13. QED
  BY <1>6, <1>7, <1>8, <1>9, <1>11, <1>12 DEF LibInv

\* No request's beginning or statement, no crash and no upload disturbs that.
LEMMA LibraryStep ==
  ASSUME <<"subtitles", "mssql">> \notin Studied, LibInv, [Next]_vars
  PROVE  LibInv'
<1>1. ASSUME NEW h \in Handlers, InPlaylists(h) \/ InApprovals(h), UNCHANGED <<subtitleVars, folderVars, part>>
      PROVE  LibInv'
  BY <1>1, PlaylistBegins, PlaylistKeeps, ApprovalBegins, ApprovalKeeps DEF InPlaylists, InApprovals
<1>2. ASSUME NEW h \in Handlers, InSubtitles(h), UNCHANGED <<playlistVars, approvalVars, folderVars, part>>
      PROVE  LibInv'
  <2>1. CASE StepSubtitles(h)
    <3>1. req[h].op \in {"attach", "embed", "patch", "detach"}
      BY <2>1, SubtitleKnows
    <3>2. QED
      BY <1>2, <2>1, <3>1, StreamsKeep, FileKeeps
  <2>2. CASE part = "subtitles" /\ BeginSubtitles(h)
    <3>1. backend # "mssql"
      BY <2>2 DEF LibInv, CountersOK
    <3>2. QED
      BY <1>2, <2>2, <3>1, SubtitleBegins
  <2>3. QED
    BY <1>2, <2>1, <2>2 DEF InSubtitles
<1>3. ASSUME NEW h \in Handlers, DeletesMedia(h), UNCHANGED <<approvalVars, folderVars, part>>
      PROVE  LibInv'
  BY <1>3, MediaBegins, MediaKeeps DEF DeletesMedia
<1>4. ASSUME NEW h \in Handlers, InFolders(h), UNCHANGED <<playlistVars, approvalVars, subtitleVars, part>>
      PROVE  LibInv'
  BY <1>4, FolderBegins, FolderKeeps DEF InFolders
<1>5. CASE UNCHANGED <<requestVars, playlistVars, approvalVars, subtitleVars, folderVars, part>>
  BY <1>5, LibraryStays
<1>6. QED
  BY <1>1, <1>2, <1>3, <1>4, <1>5, CrashKeeps DEF Next, vars

\* The rows of the library are of their types and name files that are there
\* (playlist, media-approval, subtitle, folder and media routes), whoever edits it at
\* the same time, on whichever back end: SQL Server aside, where a track that has been
\* made is not found again and its file is taken away (sql-base.adapter.ts).
THEOREM LibraryCorrect ==
  ASSUME <<"subtitles", "mssql">> \notin Studied
  PROVE  Spec => []LibrarySound
<1>1. Init => LibInv
  BY LibraryStarts
<1>2. LibInv /\ [Next]_vars => LibInv'
  BY LibraryStep
<1>3. LibInv => LibrarySound
  <2> SUFFICES ASSUME LibInv PROVE LibrarySound
    OBVIOUS
  <2>1. \A h \in Handlers : req[h].alone \in BOOLEAN /\ req[h].sound \in BOOLEAN
    BY DEF LibInv, RequestsOK, RequestOK
  <2>2. TypeOK
    BY <2>1 DEF LibInv, CountersOK, ItemsOK, TracksOK, FoldersOK, TypeOK
  <2>3. ASSUME NEW h \in Handlers, Handles(h, "detach", {"row"})
        PROVE  req[h].op = "detach" /\ At(h, "detach", "row")
    BY <2>3 DEF LibInv, SqliteTurns, Handles, At, Turn, Others, Open, Answered, Away
  <2>4. RowsHaveFiles
    BY <2>3 DEF LibInv, FilesOK, RowFiles, RowsHaveFiles
  <2>5. QED
    BY <2>2, <2>4 DEF LibrarySound
<1> QED
  BY <1>1, <1>2, <1>3, PTL DEF Spec

(***************************************************************************)
(* What refers to what                                                     *)
(***************************************************************************)
Holds(rows, f) == f = Root \/ \E g \in rows : g.id = f
ItemsRefer(rows) == \A i \in rows : i.pl \in playlists /\ i.media \in media
TracksRefer == \A t \in tracks : t.media \in media
FoldersRefer(rows) ==
  /\ \A f \in rows : Holds(rows, f.parent)
  /\ \A m \in Filed : Holds(rows, placed[m])
IdsDiffer(rows) == \A f, g \in rows : f.id = g.id => f = g

\* What SQLite is to restore if a transaction fails.
WasSound(r) ==
  /\ backend = "sqlite" /\ r.op \in {"remove", "reorder", "edit"}
  /\ r.op # "edit" => r.at = "order" /\ ItemsRefer(r.was[1])
  /\ r.op = "edit" => /\ r.at \in {"name", "parent", "move", "below", "paths"}
                      /\ FoldersRefer(r.was[1]) /\ IdsDiffer(r.was[1])

\* The statements that only one kind of back end has.
ByBackend(r) ==
  /\ r.op = "edit" => (r.at = "own" => backend = "mongodb") /\ (r.at = "move" => backend # "mongodb")
  /\ r.op = "delete" /\ r.at \in {"media", "rows"} => backend = "mongodb"

\* What a request knows of the rows it read or deleted, as long as it is alone: the row it
\* is to refer to is there, and nothing refers to the row that it is to delete.
KnowsItems(r) ==
  /\ r.op = "add" => r.on \in playlists /\ (r.at = "insert" => Head(r.arg) \in media)
  /\ r.op = "drop" /\ r.at = "row" => \A i \in items : i.pl # r.on
  /\ r.op = "purge" /\ r.at \in {"tracks", "row"} => \A i \in items : i.media # r.on
  /\ r.op = "purge" /\ r.at = "row" => \A t \in tracks : t.media # r.on
KnowsMedia(r) ==
  /\ r.op = "attach" /\ r.at \in {"file", "clear", "insert"} => r.on \in media
  /\ r.op = "embed" => r.on \in media
KnowsFolders(r) ==
  /\ r.op \in {"create", "file"} => Holds(folders, r.on)
  /\ r.op = "edit" /\ (r.at \in {"below", "paths"} \/ (r.at = "own" /\ Len(r.list) > 1)) => Holds(folders, Parent(r))
  /\ r.op = "delete" /\ r.sound =>
       /\ r.at \in {"counts", "below", "detach", "row"} => PathsTrue
       /\ r.at \in {"media", "rows"} => /\ \A f \in folders : f.parent \in r.list[1] => f.id \in r.list[1]
                                        /\ Root \notin r.list[1]
       /\ r.at = "rows" => \A m \in Filed : placed[m] \notin r.list[1]
KnowsRows(r) == KnowsItems(r) /\ KnowsMedia(r) /\ KnowsFolders(r)

OneAlone == \A g, h \in Handlers : Open(g) /\ Open(h) /\ g # h => ~req[g].alone
RefInv ==
  /\ IdsDiffer(folders) /\ OneAlone
  /\ backend # "mongodb" => ItemsRefer(items) /\ TracksRefer /\ FoldersRefer(folders)
  /\ \A h \in Handlers : Open(h) =>
       /\ req[h].was # <<>> => WasSound(req[h])
       /\ ByBackend(req[h])
       /\ backend = "mongodb" /\ req[h].alone => KnowsRows(req[h])

\* A row refers to what is there, or it referred to the same before, and that stands if
\* it stood.
ItemsStand ==
  \A i \in items' :
    \/ i.pl \in playlists' /\ i.media \in media'
    \/ /\ \E j \in items : j.id = i.id /\ j.pl = i.pl /\ j.media = i.media
       /\ i.pl \in playlists => i.pl \in playlists'
       /\ i.media \in media => i.media \in media'
TracksStand ==
  \A t \in tracks' :
    \/ t.media \in media'
    \/ (\E u \in tracks : u.id = t.id /\ u.media = t.media) /\ (t.media \in media => t.media \in media')
FoldersStand ==
  /\ \A f \in folders' :
       \/ Holds(folders', f.parent)
       \/ /\ \E g \in folders : g.id = f.id /\ g.parent = f.parent
          /\ Holds(folders, f.parent) => Holds(folders', f.parent)
  /\ \A m \in Filed :
       \/ Holds(folders', placed'[m])
       \/ placed'[m] = placed[m] /\ (Holds(folders, placed[m]) => Holds(folders', placed[m]))
Stand == ItemsStand /\ TracksStand /\ FoldersStand

\* In MongoDB only a request that is alone, and that deletes folders only if it found
\* true paths, is held to that.
Careful(h) == backend = "mongodb" => req[h].alone /\ (req[h].op = "delete" => req[h].sound)
Excused == backend = "mongodb" /\ \E h \in Handlers : Open(h) /\ ~(req[h].alone /\ (req[h].op = "delete" => req[h].sound))

\* Then nothing is left that refers to what is gone.
LEMMA StandHolds ==
  ASSUME Stand
  PROVE  /\ Dangling' \subseteq Dangling
         /\ ItemsRefer(items) => ItemsRefer(items)'
         /\ TracksRefer => TracksRefer'
         /\ FoldersRefer(folders) => FoldersRefer(folders)'
<1>1. ItemsStand /\ TracksStand /\ FoldersStand
  BY DEF Stand
<1>2. ASSUME NEW i \in items', i.pl \notin playlists' \/ i.media \notin media'
      PROVE  \E j \in items : j.id = i.id /\ (j.pl \notin playlists \/ j.media \notin media)
  BY <1>1, <1>2 DEF ItemsStand
<1>3. ASSUME NEW t \in tracks', t.media \notin media'
      PROVE  \E u \in tracks : u.id = t.id /\ u.media \notin media
  BY <1>1, <1>3 DEF TracksStand
<1>4. \A f : /\ Holds(folders, f) <=> f = Root \/ f \in Ids
             /\ Holds(folders', f) <=> f = Root \/ f \in Ids'
             /\ Holds(folders, f) <=> f = Root \/ IsFolder(f)
             /\ Holds(folders', f) <=> f = Root \/ IsFolder(f)'
  BY DEF Holds, Ids, IsFolder
<1>5. ASSUME NEW f \in folders', ~Holds(folders', f.parent)
      PROVE  \E g \in folders : g.id = f.id /\ ~Holds(folders, g.parent)
  BY <1>1, <1>5 DEF FoldersStand
<1>6. ASSUME NEW m \in Filed, ~Holds(folders', placed'[m])
      PROVE  ~Holds(folders, placed[m])
  BY <1>1, <1>6 DEF FoldersStand
<1>7. ASSUME NEW d \in Dangling' PROVE d \in Dangling
  <2>1. CASE \E i \in items' : (i.pl \notin playlists' \/ i.media \notin media') /\ d = <<"item", i.id>>
    BY <1>2, <2>1 DEF Dangling
  <2>2. CASE \E t \in tracks' : t.media \notin media' /\ d = <<"track", t.id>>
    BY <1>3, <2>2 DEF Dangling
  <2>3. CASE \E m \in Filed : placed'[m] # Root /\ placed'[m] \notin Ids' /\ d = <<"media", m>>
    BY <1>4, <1>6, <2>3 DEF Dangling
  <2>4. CASE \E f \in folders' : f.parent # Root /\ ~IsFolder(f.parent)' /\ d = <<"folder", f.id>>
    <3>1. PICK f \in folders' : ~Holds(folders', f.parent) /\ d = <<"folder", f.id>>
      BY <1>4, <2>4
    <3>2. PICK g \in folders : g.id = f.id /\ ~Holds(folders, g.parent)
      BY <1>5, <3>1
    <3>3. g.parent # Root /\ ~IsFolder(g.parent)
      BY <1>4, <3>2
    <3>4. QED
      BY <3>1, <3>2, <3>3 DEF Dangling
  <2>5. QED
    BY <1>7, <2>1, <2>2, <2>3, <2>4 DEF Dangling
<1>8. ItemsRefer(items) => ItemsRefer(items)'
  BY <1>2 DEF ItemsRefer
<1>9. TracksRefer => TracksRefer'
  BY <1>3 DEF TracksRefer
<1>10. FoldersRefer(folders) => FoldersRefer(folders)'
  <2>1. FoldersRefer(folders)' <=> /\ \A f \in folders' : Holds(folders', f.parent)
                                   /\ \A m \in Filed : Holds(folders', placed'[m])
    BY DEF FoldersRefer, Holds
  <2>2. QED
    BY <1>5, <1>6, <2>1 DEF FoldersRefer
<1>11. QED
  BY <1>7, <1>8, <1>9, <1>10

\* A request's step leaves references alone that do not concern it: if it was alone no
\* other request was under way, and in a transaction of SQLite no other can take a step.
LEMMA StepRefers ==
  ASSUME LibInv, RefInv, NEW h \in Handlers, Open(h), Turn(h), NEW r, GoOn(h, r),
         IdsDiffer(folders'), Careful(h) => Stand,
         r.at \notin Answered =>
           /\ r.alone = req[h].alone
           /\ r.was # <<>> => WasSound(r)'
           /\ ByBackend(r)
           /\ backend = "mongodb" /\ req[h].alone => KnowsRows(r)'
  PROVE  RefInv' /\ (Dangling' \subseteq Dangling \/ Excused)
<1>1. /\ \A g \in Handlers \ {h} : req'[g] = req[g]
      /\ r.at \notin Answered => req'[h] = r
      /\ r.at \in Answered => req'[h].at = r.at
      /\ UNCHANGED backend
  BY AfterGoOn
<1>2. Dangling' \subseteq Dangling \/ Excused
  BY StandHolds DEF Careful, Excused
<1>3. backend # "mongodb" => ItemsRefer(items)' /\ TracksRefer' /\ FoldersRefer(folders)'
  BY StandHolds DEF Careful, RefInv
<1>4. OneAlone'
  BY <1>1 DEF RefInv, OneAlone, Open
<1>5. ASSUME NEW g \in Handlers, Open(g)'
      PROVE  /\ req'[g].was # <<>> => WasSound(req[g])'
             /\ ByBackend(req[g])'
             /\ backend' = "mongodb" /\ req'[g].alone => KnowsRows(req[g])'
  <2>1. CASE g = h
    <3>1. r.at \notin Answered /\ req'[g] = r
      BY <1>1, <1>5, <2>1 DEF Open
    <3>2. ByBackend(r)'
      BY <1>1, <3>1 DEF ByBackend
    <3>3. QED
      BY <1>1, <3>1, <3>2
  <2>2. CASE g # h
    <3>1. PICK q : q = req[g] /\ q = req'[g]
      BY <1>1, <2>2
    <3>2. Open(g) /\ ~q.alone
      BY <1>1, <1>5, <2>2, <3>1 DEF RefInv, OneAlone, Open
    <3>3. q.was = <<>>
      <4>1. q.was # <<>> => WasSound(q)
        BY <3>1, <3>2 DEF RefInv
      <4>2. backend = "sqlite" => q.at \in Away
        BY <2>2, <3>1, <3>2 DEF Turn, Others
      <4>3. QED
        BY <4>1, <4>2 DEF WasSound, Away
    <3>4. ByBackend(q)'
      BY <1>1, <3>1, <3>2 DEF RefInv, ByBackend
    <3>5. QED
      BY <3>1, <3>2, <3>3, <3>4
  <2>3. QED
    BY <2>1, <2>2
<1>6. IdsDiffer(folders)'
  BY DEF IdsDiffer
<1>7. QED
  BY <1>1, <1>2, <1>3, <1>4, <1>5, <1>6 DEF RefInv

\* What stays refers to what it did.
LEMMA Unmoved ==
  ASSUME RefInv
  PROVE  /\ UNCHANGED <<items, playlists, media>> => ItemsStand
         /\ UNCHANGED <<tracks, media>> => TracksStand
         /\ UNCHANGED <<folders, placed>> => FoldersStand /\ IdsDiffer(folders')
  BY DEF ItemsStand, TracksStand, FoldersStand, RefInv

\* A request that begins while another is open makes neither alone.
LEMMA BeginRefers ==
  ASSUME LibInv, RefInv, NEW h \in Handlers, NEW op, NEW at, NEW on, NEW arg, NEW sound,
         Begin(h, op, at, on, arg, sound), at \notin Answered,
         \A r : (/\ r.op = op /\ r.at = at /\ r.on = on /\ r.arg = arg /\ r.list = <<>> /\ r.sound = sound)
                  => ByBackend(r) /\ (backend = "mongodb" => KnowsRows(r)),
         UNCHANGED <<playlists, media, items, tracks, folders, placed>>
  PROVE  RefInv' /\ Dangling' \subseteq Dangling
<1>1. UNCHANGED backend /\ ~Open(h)
  BY DEF Begin, MayBegin
<1>2. PICK q : q = [NoRequest EXCEPT !.op = op, !.at = at, !.on = on, !.arg = arg, !.sound = sound,
                                     !.alone = (Others(h) = {})]
  OBVIOUS
<1>3. /\ q.op = op /\ q.at = at /\ q.on = on /\ q.arg = arg /\ q.list = <<>> /\ q.was = <<>>
      /\ q.sound = sound /\ q.alone = (Others(h) = {})
  BY <1>2 DEF NoRequest
<1>4. /\ req'[h] = q
      /\ \A g \in Handlers \ {h} : req'[g] = IF Open(g) THEN [req[g] EXCEPT !.alone = FALSE] ELSE req[g]
  BY <1>2 DEF Begin, Others
<1>5. ASSUME NEW g \in Handlers \ {h}, Open(g)'
      PROVE  Open(g) /\ req'[g] = [req[g] EXCEPT !.alone = FALSE]
  BY <1>4, <1>5 DEF Open
<1>6. ASSUME NEW g \in Handlers \ {h}, Open(g)'
      PROVE  /\ ~req'[g].alone
             /\ req'[g].was # <<>> => WasSound(req[g])'
             /\ ByBackend(req[g])'
  <2>1. PICK p, q2 : p = req[g] /\ q2 = req'[g]
    OBVIOUS
  <2>2. Open(g) /\ DOMAIN p = RequestFields /\ q2 = [p EXCEPT !.alone = FALSE]
    BY <1>5, <1>6, <2>1, Knows
  <2>3. /\ q2.op = p.op /\ q2.at = p.at /\ q2.was = p.was /\ q2.alone = FALSE
    BY <2>2 DEF RequestFields
  <2>4. p.was # <<>> => WasSound(p)
    BY <2>1, <2>2 DEF RefInv
  <2>5. ByBackend(p)
    BY <2>1, <2>2 DEF RefInv
  <2>6. q2.was # <<>> => WasSound(q2)'
    BY <1>1, <2>3, <2>4 DEF WasSound, ItemsRefer, FoldersRefer, Holds, IdsDiffer
  <2>7. ByBackend(q2)'
    BY <1>1, <2>3, <2>5 DEF ByBackend
  <2>8. QED
    BY <2>1, <2>3, <2>6, <2>7
<1>7. OneAlone'
  <2>1. ASSUME NEW g \in Handlers, NEW k \in Handlers, Open(g)', Open(k)', g # k, req'[g].alone
        PROVE  FALSE
    <3>1. g = h /\ k # h
      BY <1>6, <2>1
    <3>2. Open(k) /\ k \in Others(h)
      BY <1>5, <2>1, <3>1 DEF Others
    <3>3. QED
      BY <1>3, <1>4, <2>1, <3>1, <3>2
  <2>2. QED
    BY <2>1 DEF OneAlone
<1>8. Stand /\ IdsDiffer(folders')
  BY Unmoved DEF Stand
<1>9. /\ ByBackend(q)' /\ (backend' = "mongodb" => KnowsRows(q)')
  <2>1. ByBackend(q) /\ (backend = "mongodb" => KnowsRows(q))
    BY <1>3
  <2>2. KnowsRows(q) => KnowsRows(q)'
    BY DEF KnowsRows, KnowsItems, KnowsMedia, KnowsFolders, Holds, Parent, PathsTrue, IsFolder, Folder
  <2>3. QED
    BY <1>1, <2>1, <2>2 DEF ByBackend
<1>10. \A g \in Handlers : Open(g)' =>
         /\ req'[g].was # <<>> => WasSound(req[g])'
         /\ ByBackend(req[g])'
         /\ backend' = "mongodb" /\ req'[g].alone => KnowsRows(req[g])'
  <2>1. ASSUME NEW g \in Handlers, Open(g)'
        PROVE  /\ req'[g].was # <<>> => WasSound(req[g])'
               /\ ByBackend(req[g])'
               /\ backend' = "mongodb" /\ req'[g].alone => KnowsRows(req[g])'
    <3>1. CASE g # h
      BY <1>6, <2>1, <3>1
    <3>2. CASE g = h
      BY <1>3, <1>4, <1>9, <3>2
    <3>3. QED
      BY <3>1, <3>2
  <2>2. QED
    BY <2>1
<1>11. QED
  BY <1>1, <1>7, <1>8, <1>10, StandHolds DEF RefInv, IdsDiffer

Told == RefInv' /\ (Dangling' \subseteq Dangling \/ Excused)

\* What a handler knows whose request is not answered.
LEMMA RefersKnown ==
  ASSUME LibInv, RefInv, NEW h \in Handlers, Open(h)
  PROVE  /\ DOMAIN req[h] = RequestFields /\ ByBackend(req[h])
         /\ req[h].was # <<>> => WasSound(req[h])
         /\ backend = "mongodb" /\ req[h].alone => KnowsRows(req[h])
         /\ req[h].alone \in BOOLEAN /\ req[h].sound \in BOOLEAN
  BY Knows DEF RefInv, RequestOK

\* The items (playlist.routes.ts, and the adapters' foreign keys or the lack of them).
LEMMA PlaylistRefers ==
  ASSUME LibInv, RefInv, NEW h \in Handlers, StepPlaylists(h),
         UNCHANGED <<subtitleVars, folderVars>>
  PROVE  Told
<1>1. Open(h) /\ Turn(h) /\ req[h].op \in {"add", "remove", "reorder", "update", "drop"}
  BY DEF StepPlaylists, CountItems, CheckMedia, addPlaylistItem, DeleteItemRow, RemainingItems,
     ValidateItems, Order, UpdateItemRow, mongoDeleteItems, DeletePlaylistRow, At, Open, Answered
<1>2. /\ DOMAIN req[h] = RequestFields
      /\ req[h].was # <<>> => WasSound(req[h])
      /\ backend = "mongodb" /\ req[h].alone => KnowsItems(req[h])
  BY <1>1, RefersKnown DEF KnowsRows
<1>3. UNCHANGED <<tracks, folders, placed>> /\ (backend # "mongodb" => ItemsRefer(items))
  BY DEF subtitleVars, folderVars, RefInv
<1>4. ASSUME NEW r, GoOn(h, r), r.op = req[h].op, UNCHANGED media, Careful(h) => ItemsStand,
             r.at \notin Answered =>
               /\ r.alone = req[h].alone
               /\ r.was # <<>> => WasSound(r)'
               /\ backend = "mongodb" /\ req[h].alone => KnowsItems(r)'
      PROVE  Told
  <2>1. TracksStand /\ FoldersStand /\ IdsDiffer(folders')
    BY <1>3, <1>4, Unmoved
  <2>2. ByBackend(r) /\ KnowsMedia(r)' /\ KnowsFolders(r)'
    BY <1>1, <1>4 DEF ByBackend, KnowsMedia, KnowsFolders
  <2>3. QED
    BY <1>1, <1>4, <2>1, <2>2, StepRefers DEF Told, Stand, KnowsRows
\* a step that only reads
<1>5. ASSUME NEW r, GoOn(h, r), r.op = req[h].op, UNCHANGED playlistVars,
             r.at \notin Answered =>
               /\ r.alone = req[h].alone
               /\ r.was # <<>> => WasSound(r)
               /\ backend = "mongodb" /\ req[h].alone => KnowsItems(r)
      PROVE  Told
  <2>1. UNCHANGED <<playlists, media, items, backend>> /\ ItemsStand
    BY <1>5, Unmoved DEF playlistVars, GoOn
  <2>2. WasSound(r) => WasSound(r)'
    BY <1>3, <2>1 DEF WasSound, ItemsRefer, FoldersRefer, Holds, IdsDiffer
  <2>3. KnowsItems(r) => KnowsItems(r)'
    BY <1>3, <2>1 DEF KnowsItems
  <2>4. QED
    BY <1>4, <1>5, <2>1, <2>2, <2>3
\* a transaction that fails
<1>6. ASSUME items' = Undone(req[h], items) \/ UNCHANGED items, GoTo(h, "error"), UNCHANGED <<playlists, media>>
      PROVE  Told
  <2>1. PICK r : r = [req[h] EXCEPT !.at = "error"]
    OBVIOUS
  <2>2. GoOn(h, r) /\ r.op = req[h].op /\ r.at = "error"
    BY <1>1, <1>6, <2>1, GoesTo
  <2>3. CASE UNCHANGED items
    BY <1>4, <1>6, <2>2, <2>3, Unmoved DEF Answered
  <2>4. CASE ~UNCHANGED items
    <3>1. WasSound(req[h]) /\ items' = req[h].was[1]
      BY <1>2, <1>6, <2>4 DEF Undone
    <3>2. ItemsStand
      BY <1>1, <1>6, <3>1 DEF WasSound, ItemsRefer, ItemsStand
    <3>3. QED
      BY <1>4, <1>6, <2>2, <3>2 DEF Answered
  <2>5. QED
    BY <2>3, <2>4
<1>7. CASE CountItems(h)
  <2>1. PICK r : r = [req[h] EXCEPT !.k = Cardinality(ItemsOf(req[h].on)), !.at = "media"]
    OBVIOUS
  <2>2. /\ r.op = "add" /\ r.at = "media" /\ r.on = req[h].on /\ r.alone = req[h].alone
        /\ r.was = req[h].was /\ req[h].op = "add"
    BY <1>2, <1>7, <2>1 DEF RequestFields, CountItems, At
  <2>3. r.was = <<>> /\ (KnowsItems(req[h]) => KnowsItems(r))
    BY <1>2, <2>2 DEF WasSound, KnowsItems
  <2>4. QED
    BY <1>2, <1>5, <1>7, <2>1, <2>2, <2>3 DEF CountItems
<1>8. CASE CheckMedia(h)
  <2>1. PICK at : GoTo(h, at) /\ ((at = "insert" /\ Head(req[h].arg) \in media) \/ at = "error")
    BY <1>8 DEF CheckMedia
  <2>2. PICK r : r = [req[h] EXCEPT !.at = at]
    OBVIOUS
  <2>3. /\ GoOn(h, r) /\ r.op = "add" /\ r.at = at /\ r.on = req[h].on /\ r.alone = req[h].alone
        /\ r.arg = req[h].arg /\ r.was = req[h].was /\ req[h].op = "add"
    BY <1>1, <1>8, <2>1, <2>2, GoesTo DEF CheckMedia, At
  <2>4. r.was = <<>> /\ (KnowsItems(req[h]) /\ r.at \notin Answered => KnowsItems(r))
    BY <1>2, <2>1, <2>3 DEF WasSound, KnowsItems, Answered
  <2>5. QED
    BY <1>2, <1>5, <1>8, <2>3, <2>4 DEF CheckMedia
<1>9. CASE addPlaylistItem(h)
  <2>1. req[h].op = "add" /\ req[h].at = "insert" /\ req[h].was = <<>>
    BY <1>2, <1>9 DEF addPlaylistItem, At, WasSound
  <2>2. CASE GoTo(h, "error") /\ UNCHANGED playlistVars
    BY <1>6, <2>2 DEF playlistVars
  <2>3. CASE ~(GoTo(h, "error") /\ UNCHANGED playlistVars)
    <3>1. PICK i : i = [id |-> nextItem, pl |-> req[h].on, media |-> Head(req[h].arg), idx |-> req[h].k]
      OBVIOUS
    <3>2. PICK r : r = [req[h] EXCEPT !.arg = Tail(@), !.k = @ + 1,
                                      !.at = IF Len(req[h].arg) = 1 THEN "ok" ELSE "media"]
      OBVIOUS
    <3>3. items' = items \cup {i} /\ GoOn(h, r) /\ UNCHANGED <<playlists, media>>
          /\ ~InsertFails(req[h].on, Head(req[h].arg), req[h].k)
      BY <1>9, <2>3, <3>1, <3>2 DEF addPlaylistItem
    <3>4. /\ r.op = "add" /\ r.at \in {"ok", "media"} /\ r.on = req[h].on /\ r.alone = req[h].alone
          /\ r.was = <<>>
      BY <1>2, <2>1, <3>2 DEF RequestFields
    <3>5. Careful(h) => i.pl \in playlists /\ i.media \in media
      <4>1. i.pl = req[h].on /\ i.media = Head(req[h].arg)
        BY <3>1
      <4>2. QED
        BY <1>2, <2>1, <3>3, <4>1 DEF Careful, KnowsItems, InsertFails
    <3>6. Careful(h) => ItemsStand
      BY <3>3, <3>5 DEF ItemsStand
    <3>7. KnowsItems(req[h]) => KnowsItems(r)'
      BY <2>1, <3>3, <3>4 DEF KnowsItems
    <3>8. QED
      BY <1>2, <1>4, <2>1, <3>3, <3>4, <3>6, <3>7
  <2>4. QED
    BY <2>2, <2>3
<1>10. ASSUME NEW at, GoTo(h, at), req[h].op \in {"remove", "update", "drop"}, UNCHANGED media,
              req[h].op = "remove" => req[h].at = "delete",
              Careful(h) => ItemsStand,
              at \notin Answered /\ req[h].op = "drop" => \A i \in items' : i.pl # req[h].on
       PROVE  Told
  <2>1. PICK r : r = [req[h] EXCEPT !.at = at]
    OBVIOUS
  <2>2. /\ GoOn(h, r) /\ r.op = req[h].op /\ r.at = at /\ r.on = req[h].on /\ r.alone = req[h].alone
        /\ r.was = req[h].was
    BY <1>1, <1>10, <2>1, GoesTo
  <2>3. r.was = <<>>
    BY <1>2, <1>10, <2>2 DEF WasSound
  <2>4. r.at \notin Answered => KnowsItems(r)'
    BY <1>10, <2>2 DEF KnowsItems
  <2>5. QED
    BY <1>4, <1>10, <2>2, <2>3, <2>4
<1>11. CASE DeleteItemRow(h)
  <2>1. items' \subseteq items /\ UNCHANGED <<playlists, media>>
    BY <1>11 DEF DeleteItemRow
  <2>2. ItemsStand
    BY <2>1 DEF ItemsStand
  <2>3. QED
    BY <1>10, <1>11, <2>1, <2>2 DEF DeleteItemRow, At
\* where a transaction begins
<1>12. ASSUME NEW r, GoOn(h, r), UNCHANGED playlistVars, req[h].op \in {"remove", "reorder"},
              r.op = req[h].op,
              r.at \notin Answered => r.alone = req[h].alone /\ r.at = "order" /\ r.was = Savepoint(items)
       PROVE  Told
  <2>1. r.at \notin Answered /\ r.was # <<>> => WasSound(r)
    BY <1>3, <1>12 DEF WasSound, Savepoint
  <2>2. KnowsItems(r)
    BY <1>12 DEF KnowsItems
  <2>3. QED
    BY <1>5, <1>12, <2>1, <2>2
<1>13. CASE RemainingItems(h)
  <2>1. PICK list, at : /\ at \in {"ok", "order"}
                        /\ GoOn(h, [req[h] EXCEPT !.list = list, !.was = Savepoint(items), !.at = at])
    BY <1>13 DEF RemainingItems
  <2>2. PICK r : r = [req[h] EXCEPT !.list = list, !.was = Savepoint(items), !.at = at]
    OBVIOUS
  <2>3. GoOn(h, r) /\ req[h].op = "remove" /\ UNCHANGED playlistVars
    BY <1>13, <2>1, <2>2 DEF RemainingItems, At
  <2>4. /\ r.op = req[h].op
        /\ r.at \notin Answered => r.alone = req[h].alone /\ r.at = "order" /\ r.was = Savepoint(items)
    BY <1>2, <2>1, <2>2 DEF RequestFields, Answered
  <2>5. QED
    BY <1>12, <2>3, <2>4
<1>14. CASE ValidateItems(h)
  <2>1. PICK r : /\ GoOn(h, r)
                 /\ \/ r = [req[h] EXCEPT !.list = req[h].arg, !.was = Savepoint(items), !.at = "order"]
                    \/ r = [req[h] EXCEPT !.at = "error"]
    BY <1>14 DEF ValidateItems
  <2>2. req[h].op = "reorder" /\ UNCHANGED playlistVars
    BY <1>14 DEF ValidateItems, At
  <2>3. /\ r.op = req[h].op
        /\ r.at \notin Answered => r.alone = req[h].alone /\ r.at = "order" /\ r.was = Savepoint(items)
    BY <1>2, <2>1 DEF RequestFields, Answered
  <2>4. QED
    BY <1>12, <2>1, <2>2, <2>3
\* a row with another index refers to what it did
<1>15. ASSUME NEW id, NEW idx, items' = Indexed(id, idx), UNCHANGED <<playlists, media>>
       PROVE  ItemsStand
  <2>1. ASSUME NEW i \in items, NEW j, j = [i EXCEPT !.idx = idx]
        PROVE  j.id = i.id /\ j.pl = i.pl /\ j.media = i.media
    BY <2>1 DEF LibInv, ItemsOK, ItemFields
  <2>2. QED
    BY <1>15, <2>1 DEF Indexed, ItemsStand
<1>16. CASE Order(h)
  <2>1. UNCHANGED <<playlists, media>> /\ req[h].op \in {"remove", "reorder"} /\ req[h].at = "order"
    BY <1>16 DEF Order, At
  <2>2. CASE items' = Undone(req[h], items) /\ GoTo(h, "error")
    BY <1>6, <2>1, <2>2
  <2>3. CASE ~(items' = Undone(req[h], items) /\ GoTo(h, "error"))
    <3>1. PICK id, idx, at : /\ items' = Indexed(id, idx) /\ at \in {"ok", "order"}
                             /\ GoOn(h, [req[h] EXCEPT !.k = @ + 1, !.at = at])
      BY <1>16, <2>3 DEF Order
    <3>2. PICK r : r = [req[h] EXCEPT !.k = @ + 1, !.at = at]
      OBVIOUS
    <3>3. /\ r.op = req[h].op /\ r.at = at /\ r.alone = req[h].alone /\ r.was = req[h].was
      BY <1>2, <3>2 DEF RequestFields
    <3>4. r.at \notin Answered /\ r.was # <<>> => WasSound(r)'
      <4>1. UNCHANGED backend
        BY <3>1 DEF GoOn
      <4>2. QED
        BY <1>2, <2>1, <3>1, <3>3, <4>1 DEF WasSound, ItemsRefer, Answered
    <3>5. KnowsItems(r)'
      BY <2>1, <3>3 DEF KnowsItems
    <3>6. ItemsStand
      BY <1>15, <2>1, <3>1
    <3>7. QED
      BY <1>4, <2>1, <3>1, <3>2, <3>3, <3>4, <3>5, <3>6
  <2>4. QED
    BY <2>2, <2>3
<1>17. CASE UpdateItemRow(h)
  <2>1. UNCHANGED <<playlists, media>> /\ req[h].op = "update"
    BY <1>17 DEF UpdateItemRow, At
  <2>2. CASE GoTo(h, "error") /\ UNCHANGED items
    BY <1>6, <2>1, <2>2
  <2>3. CASE ~(GoTo(h, "error") /\ UNCHANGED items)
    <3>1. items' = Indexed(req[h].arg[1], req[h].arg[2]) /\ GoTo(h, "ok")
      BY <1>17, <2>3 DEF UpdateItemRow
    <3>2. ItemsStand
      BY <1>15, <2>1, <3>1
    <3>3. QED
      BY <1>10, <2>1, <3>1, <3>2 DEF Answered
  <2>4. QED
    BY <2>2, <2>3
<1>18. CASE mongoDeleteItems(h)
  <2>1. items' = items \ ItemsOf(req[h].on) /\ UNCHANGED <<playlists, media>> /\ req[h].op = "drop"
    BY <1>18 DEF mongoDeleteItems, At
  <2>2. ItemsStand /\ \A i \in items' : i.pl # req[h].on
    BY <2>1 DEF ItemsStand, ItemsOf
  <2>3. QED
    BY <1>10, <1>18, <2>1, <2>2 DEF mongoDeleteItems
<1>19. CASE DeletePlaylistRow(h)
  <2>1. /\ items' \subseteq items /\ playlists' = playlists \ {req[h].on} /\ UNCHANGED media
        /\ req[h].op = "drop" /\ req[h].at = "row" /\ GoTo(h, "ok")
        /\ backend # "mongodb" => \A i \in items' : i.pl # req[h].on
    BY <1>19 DEF DeletePlaylistRow, At, ItemsOf
  <2>2. Careful(h) => \A i \in items' : i.pl # req[h].on
    BY <1>2, <2>1 DEF Careful, KnowsItems
  <2>3. Careful(h) => ItemsStand
    BY <2>1, <2>2 DEF ItemsStand
  <2>4. QED
    BY <1>10, <2>1, <2>3 DEF Answered
<1>20. QED
  BY <1>7, <1>8, <1>9, <1>11, <1>13, <1>14, <1>16, <1>17, <1>18, <1>19 DEF StepPlaylists

\* A decision is about no reference.
LEMMA ApprovalRefers ==
  ASSUME LibInv, RefInv, NEW h \in Handlers, StepApprovals(h), UNCHANGED <<subtitleVars, folderVars>>
  PROVE  Told
<1>1. Open(h) /\ Turn(h) /\ req[h].op = "decide"
  BY DEF StepApprovals, updateMediaApproval, createApprovalLog, At, Open, Answered
<1>2. PICK at : GoTo(h, at)
  BY DEF StepApprovals, updateMediaApproval, createApprovalLog
<1>3. PICK r : r = [req[h] EXCEPT !.at = at]
  OBVIOUS
<1>4. GoOn(h, r) /\ r.op = "decide" /\ r.alone = req[h].alone /\ r.was = req[h].was
  BY <1>1, <1>2, <1>3, GoesTo
<1>5. r.was = <<>>
  BY <1>1, <1>4, RefersKnown DEF WasSound
<1>6. UNCHANGED <<items, playlists, media, tracks, folders, placed>>
  BY DEF StepApprovals, updateMediaApproval, createApprovalLog, playlistVars, subtitleVars, folderVars
<1>7. Stand /\ IdsDiffer(folders')
  BY <1>6, Unmoved DEF Stand
<1>8. ByBackend(r) /\ KnowsRows(r)'
  BY <1>4 DEF ByBackend, KnowsRows, KnowsItems, KnowsMedia, KnowsFolders
<1>9. QED
  BY <1>1, <1>4, <1>5, <1>7, <1>8, StepRefers DEF Told

\* The rows of a medium that is deleted are gone before its own, or with it
\* (mongodb.adapter.ts, and ON DELETE CASCADE).
LEMMA MediaRefers ==
  ASSUME LibInv, RefInv, NEW h \in Handlers, mongoDeleteRefs(h) \/ DeleteMediaRow(h), UNCHANGED folderVars
  PROVE  Told
<1>1. Open(h) /\ Turn(h) /\ req[h].op = "purge"
  BY DEF mongoDeleteRefs, DeleteMediaRow, At, Open, Answered
<1>2. /\ req[h].was = <<>>
      /\ backend = "mongodb" /\ req[h].alone => KnowsItems(req[h])
  BY <1>1, RefersKnown DEF WasSound, KnowsRows
<1>3. ASSUME NEW at, GoTo(h, at), Careful(h) => ItemsStand /\ TracksStand,
             at \in {"tracks", "row"} =>
               /\ backend = "mongodb" /\ req[h].alone => \A i \in items' : i.media # req[h].on
               /\ at = "row" => \A t \in tracks' : t.media # req[h].on
      PROVE  Told
  <2>1. PICK r : r = [req[h] EXCEPT !.at = at]
    OBVIOUS
  <2>2. GoOn(h, r) /\ r.op = "purge" /\ r.at = at /\ r.on = req[h].on /\ r.alone = req[h].alone
        /\ r.was = <<>>
    BY <1>1, <1>2, <1>3, <2>1, GoesTo
  <2>3. Careful(h) => Stand
    BY <1>3, Unmoved DEF Stand, folderVars
  <2>4. IdsDiffer(folders')
    BY Unmoved DEF folderVars
  <2>5. ByBackend(r) /\ (backend = "mongodb" /\ req[h].alone => KnowsRows(r)')
    BY <1>3, <2>2 DEF ByBackend, KnowsRows, KnowsItems, KnowsMedia, KnowsFolders
  <2>6. QED
    BY <1>1, <2>2, <2>3, <2>4, <2>5, StepRefers DEF Told
<1>4. CASE mongoDeleteRefs(h) /\ req[h].at = "items"
  <2>1. /\ items' = {i \in items : i.media # req[h].on} /\ UNCHANGED <<tracks, playlists, media>>
        /\ GoTo(h, "tracks")
    BY <1>4 DEF mongoDeleteRefs
  <2>2. ItemsStand /\ TracksStand
    BY <2>1 DEF ItemsStand, TracksStand
  <2>3. QED
    BY <1>3, <2>1, <2>2
<1>5. CASE mongoDeleteRefs(h) /\ req[h].at # "items"
  <2>1. /\ tracks' = {t \in tracks : t.media # req[h].on} /\ UNCHANGED <<items, playlists, media>>
        /\ GoTo(h, "row") /\ req[h].at = "tracks"
    BY <1>5 DEF mongoDeleteRefs
  <2>2. ItemsStand /\ TracksStand
    BY <2>1 DEF ItemsStand, TracksStand
  <2>3. QED
    BY <1>1, <1>2, <1>3, <2>1, <2>2 DEF KnowsItems
<1>6. CASE DeleteMediaRow(h)
  <2>1. /\ media' = media \ {req[h].on} /\ items' \subseteq items /\ tracks' \subseteq tracks
        /\ UNCHANGED playlists /\ GoTo(h, "ok") /\ req[h].at = "row"
    BY <1>6 DEF DeleteMediaRow, At
  <2>2. Careful(h) => (\A i \in items' : i.media # req[h].on) /\ (\A t \in tracks' : t.media # req[h].on)
    <3>1. CASE backend = "mongodb"
      BY <1>1, <1>2, <2>1, <3>1 DEF Careful, KnowsItems
    <3>2. CASE backend # "mongodb"
      BY <1>6, <3>2 DEF DeleteMediaRow
    <3>3. QED
      BY <3>1, <3>2
  <2>3. Careful(h) => ItemsStand /\ TracksStand
    BY <2>1, <2>2 DEF ItemsStand, TracksStand
  <2>4. QED
    BY <1>3, <2>1, <2>3
<1>7. QED
  BY <1>4, <1>5, <1>6

\* A track is made of a medium that was looked up, or has a foreign key.
LEMMA SubtitleRefers ==
  ASSUME LibInv, RefInv, NEW h \in Handlers, StepSubtitles(h), UNCHANGED <<playlistVars, folderVars>>
  PROVE  Told
<1>1. /\ Open(h) /\ Turn(h) /\ req[h].op \in {"attach", "embed", "patch", "detach"}
      /\ DOMAIN req[h] = RequestFields
  BY SubtitleKnows
<1>2. /\ req[h].was = <<>>
      /\ backend = "mongodb" /\ req[h].alone => KnowsMedia(req[h])
  BY <1>1, RefersKnown DEF WasSound, KnowsRows
<1>3. UNCHANGED <<items, playlists, media, folders, placed>>
  BY DEF playlistVars, folderVars
<1>4. ASSUME NEW r, GoOn(h, r), Careful(h) => TracksStand,
             r.at \notin Answered =>
               /\ r.op = req[h].op /\ r.on = req[h].on /\ r.alone = req[h].alone /\ r.was = req[h].was
               /\ r.op = "attach" /\ r.at \in {"clear", "insert"} => req[h].at \in {"file", "clear"}
               /\ r.op = "attach" /\ r.at = "file" => r.on \in media
      PROVE  Told
  <2>1. Careful(h) => Stand
    BY <1>3, <1>4, Unmoved DEF Stand
  <2>2. IdsDiffer(folders')
    BY <1>3, Unmoved
  <2>3. ASSUME r.at \notin Answered
        PROVE  ByBackend(r) /\ (backend = "mongodb" /\ req[h].alone => KnowsRows(r)')
    <3>1. ByBackend(r) /\ KnowsItems(r)' /\ KnowsFolders(r)'
      BY <1>1, <1>4, <2>3 DEF ByBackend, KnowsItems, KnowsFolders
    <3>2. backend = "mongodb" /\ req[h].alone => KnowsMedia(r)'
      BY <1>2, <1>3, <1>4, <2>3 DEF KnowsMedia
    <3>3. QED
      BY <3>1, <3>2 DEF KnowsRows
  <2>4. QED
    BY <1>1, <1>2, <1>4, <2>1, <2>2, <2>3, StepRefers DEF Told
\* where to a request goes
<1>5. ASSUME NEW at, GoTo(h, at), Careful(h) => TracksStand,
             at \in Answered \/ req[h].op # "attach"
               \/ at \notin {"file", "clear", "insert"} \/ (at = "file" /\ req[h].on \in media)
               \/ (at # "file" /\ req[h].at \in {"file", "clear"})
      PROVE  Told
  <2>1. PICK r : r = [req[h] EXCEPT !.at = at]
    OBVIOUS
  <2>2. GoOn(h, r) /\ r.op = req[h].op /\ r.at = at /\ r.on = req[h].on /\ r.alone = req[h].alone
        /\ r.was = req[h].was
    BY <1>1, <1>5, <2>1, GoesTo
  <2>3. QED
    BY <1>4, <1>5, <2>2
<1>6. ASSUME NEW r, r = Done(req[h]) \/ r = Failed(req[h]), GoOn(h, r), Careful(h) => TracksStand
      PROVE  Told
  <2>1. r.at \notin Answered => /\ r.op = req[h].op /\ r.on = req[h].on /\ r.alone = req[h].alone
                                /\ r.was = req[h].was
                                /\ r.op = "attach" => r.at = "unlink"
    BY <1>1, <1>6 DEF Done, Failed, RequestFields, Answered
  <2>2. QED
    BY <1>4, <1>6, <2>1
<1>7. UNCHANGED tracks => TracksStand
  BY <1>3, Unmoved
<1>8. ASSUME NEW def, NEW now, now = tracks', \A t \in now : \E s \in tracks : t = s \/ t = [s EXCEPT !.def = def]
      PROVE  TracksStand
  <2>1. ASSUME NEW s \in tracks, NEW t, t = [s EXCEPT !.def = def]
        PROVE  t.id = s.id /\ t.media = s.media
    BY <2>1 DEF LibInv, TracksOK, TrackFields
  <2>2. QED
    BY <1>3, <1>8, <2>1 DEF TracksStand
<1>9. CASE CheckParent(h)
  BY <1>5, <1>7, <1>9 DEF CheckParent, subtitleVars, Answered
<1>10. CASE saveSubtitle(h)
  <2>1. PICK k, at : at \in {"clear", "insert"} /\ GoOn(h, [req[h] EXCEPT !.k = k, !.at = at])
    BY <1>10 DEF saveSubtitle
  <2>2. PICK r : r = [req[h] EXCEPT !.k = k, !.at = at]
    OBVIOUS
  <2>3. r.op = req[h].op /\ r.at = at /\ r.on = req[h].on /\ r.alone = req[h].alone /\ r.was = req[h].was
    BY <1>1, <2>2 DEF RequestFields
  <2>4. req[h].at = "file" /\ UNCHANGED tracks
    BY <1>10 DEF saveSubtitle, At
  <2>5. QED
    BY <1>4, <1>7, <2>1, <2>2, <2>3, <2>4
<1>11. CASE clearDefaultFlagSiblings(h)
  <2>1. PICK at : GoTo(h, at) /\ at \in {"insert", "set"} /\ req[h].at = "clear"
    BY <1>11 DEF clearDefaultFlagSiblings, At
  <2>2. PICK def : def = FALSE
    OBVIOUS
  <2>3. PICK now : now = tracks' /\ \A t \in now : \E s \in tracks : t = s \/ t = [s EXCEPT !.def = def]
    BY <1>11, <2>2 DEF clearDefaultFlagSiblings
  <2>4. TracksStand
    BY <1>8, <2>3
  <2>5. QED
    BY <1>5, <2>1, <2>4
\* a new track, if the medium is there
<1>12. ASSUME NEW t, tracks' = tracks \cup {t}, t.media = req[h].on,
              req[h].op = "embed" \/ (req[h].op = "attach" /\ req[h].at = "insert"),
              ~(backend # "mongodb" /\ req[h].on \notin media)
       PROVE  Careful(h) => TracksStand
  <2>1. Careful(h) => t.media \in media
    BY <1>2, <1>12 DEF Careful, KnowsMedia
  <2>2. QED
    BY <1>3, <1>12, <2>1 DEF TracksStand
<1>13. CASE createExternalSubtitle(h)
  <2>1. CASE GoOn(h, Failed(req[h])) /\ UNCHANGED tracks
    BY <1>6, <1>7, <2>1
  <2>2. CASE ~(GoOn(h, Failed(req[h])) /\ UNCHANGED tracks)
    <3>1. /\ tracks' = tracks \cup {ExternalTrack(req[h])} /\ req[h].op = "attach" /\ req[h].at = "insert"
          /\ ~(backend # "mongodb" /\ req[h].on \notin media)
          /\ GoOn(h, Done(req[h])) \/ GoTo(h, "made")
      BY <1>13, <2>2 DEF createExternalSubtitle, At
    <3>2. PICK t : t = ExternalTrack(req[h])
      OBVIOUS
    <3>3. t.media = req[h].on
      BY <3>2 DEF ExternalTrack
    <3>4. Careful(h) => TracksStand
      BY <1>12, <3>1, <3>2, <3>3
    <3>5. QED
      BY <1>5, <1>6, <3>1, <3>4
  <2>3. QED
    BY <2>1, <2>2
<1>14. CASE ReadBack(h)
  BY <1>6, <1>7, <1>14 DEF ReadBack, subtitleVars
<1>15. CASE FindStream(h)
  <2>1. \E k, at : GoOn(h, [req[h] EXCEPT !.k = k, !.at = at])
    BY <1>15 DEF FindStream
  <2>2. PICK k, at, r : r = [req[h] EXCEPT !.k = k, !.at = at] /\ GoOn(h, r)
    BY <2>1
  <2>3. r.op = req[h].op /\ r.on = req[h].on /\ r.alone = req[h].alone /\ r.was = req[h].was
    BY <1>1, <2>2 DEF RequestFields
  <2>4. req[h].op = "embed" /\ UNCHANGED tracks
    BY <1>15 DEF FindStream, At, subtitleVars
  <2>5. QED
    BY <1>4, <1>7, <2>2, <2>3, <2>4
<1>16. CASE createEmbeddedSubtitle(h)
  <2>1. req[h].op = "embed"
    BY <1>16 DEF createEmbeddedSubtitle, At
  <2>2. CASE GoOn(h, Failed(req[h])) /\ UNCHANGED <<tracks, nextTrack>>
    BY <1>6, <1>7, <2>2
  <2>3. CASE ~(GoOn(h, Failed(req[h])) /\ UNCHANGED <<tracks, nextTrack>>)
    <3>1. PICK t : /\ t = [id |-> nextTrack, media |-> req[h].on, kind |-> "embedded",
                           stream |-> Head(req[h].arg).stream, def |-> Head(req[h].arg).def, file |-> 0]
                   /\ tracks' = tracks \cup {t}
                   /\ ~(backend # "mongodb" /\ req[h].on \notin media)
      BY <1>16, <2>3 DEF createEmbeddedSubtitle
    <3>2. Careful(h) => TracksStand
      BY <1>12, <2>1, <3>1
    <3>3. CASE GoOn(h, Done(req[h]))
      BY <1>6, <3>2, <3>3
    <3>4. CASE GoOn(h, [req[h] EXCEPT !.k = nextTrack, !.at = "made"])
      <4>1. PICK r : r = [req[h] EXCEPT !.k = nextTrack, !.at = "made"]
        OBVIOUS
      <4>2. r.op = req[h].op /\ r.on = req[h].on /\ r.alone = req[h].alone /\ r.was = req[h].was
        BY <1>1, <4>1 DEF RequestFields
      <4>3. QED
        BY <1>4, <2>1, <3>2, <3>4, <4>1, <4>2
    <3>5. QED
      BY <1>16, <2>3, <3>3, <3>4 DEF createEmbeddedSubtitle
  <2>4. QED
    BY <2>2, <2>3
\* fewer tracks
<1>17. tracks' \subseteq tracks => TracksStand
  BY <1>3 DEF TracksStand
<1>18. CASE pruneEmbeddedSubtitles(h)
  BY <1>5, <1>17, <1>18 DEF pruneEmbeddedSubtitles, Answered
<1>19. CASE ReadTrack(h)
  <2>1. req[h].op \in {"patch", "detach"} /\ UNCHANGED tracks
    BY <1>19 DEF ReadTrack, subtitleVars
  <2>2. CASE GoTo(h, "error")
    BY <1>5, <1>7, <2>1, <2>2
  <2>3. CASE ~GoTo(h, "error")
    <3>1. PICK list, k, at : GoOn(h, [req[h] EXCEPT !.list = list, !.k = k, !.at = at])
      BY <1>19, <2>3 DEF ReadTrack
    <3>2. PICK r : r = [req[h] EXCEPT !.list = list, !.k = k, !.at = at]
      OBVIOUS
    <3>3. r.op = req[h].op /\ r.on = req[h].on /\ r.alone = req[h].alone /\ r.was = req[h].was
      BY <1>1, <3>2 DEF RequestFields
    <3>4. QED
      BY <1>4, <1>7, <2>1, <3>1, <3>2, <3>3
  <2>4. QED
    BY <2>2, <2>3
<1>20. CASE updateSubtitle(h)
  <2>1. PICK def : def = WantsDefault(req[h])
    OBVIOUS
  <2>2. PICK now : now = tracks' /\ \A t \in now : \E s \in tracks : t = s \/ t = [s EXCEPT !.def = def]
    BY <1>20, <2>1 DEF updateSubtitle
  <2>3. TracksStand
    BY <1>8, <2>2
  <2>4. QED
    BY <1>6, <1>20, <2>3 DEF updateSubtitle
<1>21. CASE deleteFile(h)
  <2>1. PICK at : GoTo(h, at) /\ at \in {"error", "row"} /\ UNCHANGED tracks
    BY <1>21 DEF deleteFile
  <2>2. QED
    BY <1>5, <1>7, <2>1
<1>22. CASE deleteSubtitle(h)
  <2>1. tracks' \subseteq tracks /\ GoTo(h, "ok")
    BY <1>22 DEF deleteSubtitle
  <2>2. QED
    BY <1>5, <1>17, <2>1
<1>23. QED
  BY <1>9, <1>10, <1>11, <1>13, <1>14, <1>15, <1>16, <1>18, <1>19, <1>20, <1>21, <1>22 DEF StepSubtitles

\* Folders that keep their ids, and their parents or get one that is there.
LEMMA FoldersRenewed ==
  ASSUME RefInv, UNCHANGED placed, NEW new,
         folders' = {new[x] : x \in folders},
         \A x \in folders : new[x].id = x.id /\ (new[x].parent = x.parent \/ Holds(folders, new[x].parent))
  PROVE  FoldersStand /\ IdsDiffer(folders')
<1>1. \A f : Holds(folders, f) => Holds(folders', f)
  BY DEF Holds
<1>2. FoldersStand
  BY <1>1 DEF FoldersStand
<1>3. IdsDiffer(folders')
  BY DEF RefInv, IdsDiffer
<1>4. QED
  BY <1>2, <1>3

\* One more number behind a path leaves its first ones.
LEMMA PathExtended ==
  ASSUME NEW s \in Seq(Nat), NEW e \in Nat, NEW n \in 0..Len(s)
  PROVE  /\ Append(s, e) \in Seq(Nat) /\ Len(Append(s, e)) = Len(s) + 1
         /\ SubSeq(Append(s, e), 1, n) = SubSeq(s, 1, n)
<1>1. PICK t : t = Append(s, e)
  OBVIOUS
<1>2. t \in Seq(Nat) /\ Len(t) = Len(s) + 1 /\ \A i \in 1..Len(s) : t[i] = s[i]
  BY <1>1
<1>3. SubSeq(t, 1, n) \in Seq(Nat) /\ SubSeq(s, 1, n) \in Seq(Nat)
  BY <1>2
<1>4. Len(SubSeq(t, 1, n)) = n /\ Len(SubSeq(s, 1, n)) = n
  BY <1>2
<1>5. \A i \in 1..n : SubSeq(t, 1, n)[i] = SubSeq(s, 1, n)[i]
  BY <1>2
<1>6. SubSeq(t, 1, n) = SubSeq(s, 1, n)
  BY <1>3, <1>4, <1>5, SeqEqual
<1>7. QED
  BY <1>1, <1>2, <1>6

\* With true paths, a folder and what lies below its path are all that leads to it.
LEMMA BelowClosed ==
  ASSUME LibInv, IdsDiffer(folders), PathsTrue, NEW on, IsFolder(on), NEW all,
         all = {on} \cup {x.id : x \in Below(Folder(on).path)}
  PROVE  /\ \A f \in folders : f.parent \in all => f.id \in all
         /\ Root \notin all
<1>1. \A f : IsFolder(f) => Folder(f) \in folders /\ Folder(f).id = f
  BY DEF IsFolder, Folder
<1>2. PICK top : top = Folder(on) /\ top \in folders /\ top.id = on
  BY <1>1
<1>3. \A f \in folders : f.path \in Seq(Nat) /\ f.id \in Nat \ {0}
  <2>1. \A f \in folders : f.id \in Nat \ {0}
    BY FoldersAssumption DEF LibInv, CountersOK, FoldersOK
  <2>2. \A f \in folders : f.path \in Seq(Nat)
    BY DEF PathsTrue
  <2>3. QED
    BY <2>1, <2>2
<1>4. all \subseteq Nat \ {0}
  BY <1>2, <1>3 DEF Below
<1>5. ASSUME NEW f \in folders, f.parent \in all PROVE f.id \in all
  <2>1. PICK g \in folders : g.id = f.parent /\ (g = top \/ g \in Below(top.path))
    <3>1. CASE f.parent = on
      BY <1>2, <3>1
    <3>2. CASE f.parent # on
      BY <1>2, <1>5, <3>2 DEF Below
    <3>3. QED
      BY <3>1, <3>2
  <2>2. Folder(f.parent) = g
    BY <1>1, <2>1 DEF IsFolder, IdsDiffer
  <2>3. f.path = Append(g.path, f.id)
    BY <2>1, <2>2 DEF PathsTrue, IsFolder
  <2>4. Len(g.path) >= Len(top.path) /\ SubSeq(g.path, 1, Len(top.path)) = top.path
    <3>1. CASE g = top
      BY <1>2, <1>3, <3>1, SubSeqFull
    <3>2. CASE g \in Below(top.path)
      BY <1>2, <1>3, <3>2 DEF Below
    <3>3. QED
      BY <2>1, <3>1, <3>2
  <2>5. PICK n : n = Len(top.path) /\ n \in 0..Len(g.path)
    BY <1>2, <1>3, <2>4
  <2>6. Len(f.path) = Len(g.path) + 1 /\ SubSeq(f.path, 1, n) = SubSeq(g.path, 1, n)
    BY <1>3, <2>3, <2>5, PathExtended
  <2>7. Len(f.path) > Len(top.path)
    BY <1>2, <1>3, <2>4, <2>6
  <2>8. f \in Below(top.path)
    BY <2>4, <2>5, <2>6, <2>7 DEF Below
  <2>9. QED
    BY <1>2, <2>8
<1>6. QED
  BY <1>4, <1>5 DEF Root

\* A folder whose parent goes by cascade goes as well.
LEMMA CascadeClosed ==
  ASSUME LibInv, IdsDiffer(folders), NEW f, IsFolder(f)
  PROVE  /\ f \in Cascade(f) /\ Root \notin Cascade(f)
         /\ \A y \in folders : y.parent \in Cascade(f) => y.id \in Cascade(f)
<1>1. f \in Ids /\ f \in 1..MaxFolders /\ Ids \subseteq 1..MaxFolders
  BY FoldersAssumption DEF LibInv, CountersOK, FoldersOK, IsFolder, Ids
<1>2. ASSUME NEW y \in folders, y.parent \in Cascade(f) PROVE y.id \in Cascade(f)
  <2>1. PICK x : x = y.parent /\ x \in Ids /\ (x = f \/ f \in Above(x))
    BY <1>2 DEF Cascade
  <2>2. y.id \in Ids /\ Folder(y.id) = y
    BY DEF Ids, Folder, IdsDiffer
  <2>3. ASSUME NEW S \in SUBSET (0..MaxFolders), Closed(S), x \in S PROVE f \in S
    <3>1. CASE x = f
      BY <2>3, <3>1
    <3>2. CASE f \in Above(x)
      <4>1. Folder(x).parent \in S
        BY <2>1, <2>3 DEF Closed
      <4>2. QED
        BY <2>3, <3>2, <4>1 DEF Above
    <3>3. QED
      BY <2>1, <3>1, <3>2
  <2>4. f \in Above(y.id)
    BY <1>1, <2>1, <2>2, <2>3 DEF Above
  <2>5. QED
    BY <2>2, <2>4 DEF Cascade
<1>3. QED
  BY <1>1, <1>2 DEF Cascade, Root

\* The folders and what is filed in them (folder.routes.ts, filing of media).
LEMMA FolderRefers ==
  ASSUME LibInv, RefInv, NEW h \in Handlers, StepFolders(h), UNCHANGED <<playlistVars, subtitleVars>>
  PROVE  Told
<1>1. Open(h) /\ Turn(h) /\ req[h].op \in {"create", "edit", "delete", "file"}
  BY DEF StepFolders, ReadParent, InsertFolder, WritePath, ReadFolder, Rename, NewParent, Move,
     Descendants, MovePath, mongoOwn, Counts, CollectMedia, Detach, DeleteRow, mongoBelow, mongoDetach,
     mongoDeleteRows, moveMediaToFolder, At, Open, Answered
<1>2. /\ DOMAIN req[h] = RequestFields /\ ByBackend(req[h]) /\ FolderRequestOK(req[h])
      /\ req[h].was # <<>> => WasSound(req[h])
      /\ backend = "mongodb" /\ req[h].alone => KnowsFolders(req[h])
  BY <1>1, Knows, RefersKnown DEF KnowsRows
<1>3. /\ UNCHANGED <<items, playlists, media, tracks>>
      /\ IdsDiffer(folders) /\ (backend # "mongodb" => FoldersRefer(folders))
      /\ \A f : Holds(folders, f) <=> f = Root \/ IsFolder(f)
  BY DEF playlistVars, subtitleVars, RefInv, Holds, IsFolder
<1>4. ASSUME NEW r, GoOn(h, r), IdsDiffer(folders'), Careful(h) => FoldersStand,
             r.at \notin Answered =>
               /\ r.op = req[h].op /\ r.alone = req[h].alone
               /\ r.was # <<>> => WasSound(r)'
               /\ ByBackend(r)
               /\ backend = "mongodb" /\ req[h].alone => KnowsFolders(r)'
      PROVE  Told
  <2>1. Careful(h) => Stand
    BY <1>3, <1>4, Unmoved DEF Stand
  <2>2. r.at \notin Answered => KnowsItems(r)' /\ KnowsMedia(r)'
    BY <1>1, <1>4 DEF KnowsItems, KnowsMedia
  <2>3. QED
    BY <1>1, <1>4, <2>1, <2>2, StepRefers DEF Told, KnowsRows
\* a transaction goes on
<1>5. ASSUME NEW r, UNCHANGED <<placed, backend>>, r.was = req[h].was, r.op = "edit", req[h].op = "edit",
             r.at \in {"name", "parent", "move", "below", "paths"}, r.was # <<>>
      PROVE  WasSound(r)'
  BY <1>2, <1>5 DEF WasSound, FoldersRefer, Holds, IdsDiffer
<1>6. ASSUME req[h].op # "edit" PROVE req[h].was = <<>>
  BY <1>1, <1>2, <1>6 DEF WasSound
<1>7. UNCHANGED <<folders, placed>> => FoldersStand /\ IdsDiffer(folders')
  BY Unmoved
\* an answer, after a transaction that fails as well
<1>8. ASSUME NEW at \in Answered, GoTo(h, at), IdsDiffer(folders'), Careful(h) => FoldersStand
      PROVE  Told
  <2>1. PICK r : r = [req[h] EXCEPT !.at = at]
    OBVIOUS
  <2>2. GoOn(h, r) /\ r.at = at
    BY <1>1, <1>8, <2>1, GoesTo
  <2>3. QED
    BY <1>4, <1>8, <2>2
<1>9. ASSUME GoTo(h, "error"), folders' = Undone(req[h], folders), UNCHANGED placed, req[h].op = "edit"
      PROVE  Told
  <2>1. CASE UNCHANGED folders
    BY <1>7, <1>8, <1>9, <2>1 DEF Answered
  <2>2. CASE ~UNCHANGED folders
    <3>1. WasSound(req[h]) /\ folders' = req[h].was[1]
      BY <1>2, <1>9, <2>2 DEF Undone
    <3>2. FoldersStand /\ IdsDiffer(folders')
      BY <1>9, <3>1 DEF WasSound, FoldersRefer, FoldersStand
    <3>3. QED
      BY <1>8, <1>9, <3>2 DEF Answered
  <2>3. QED
    BY <2>1, <2>2
\* a request that only reads
<1>10. ASSUME NEW r, GoOn(h, r), UNCHANGED folderVars,
              r.at \notin Answered =>
                /\ r.op = req[h].op /\ r.alone = req[h].alone
                /\ r.was # <<>> => WasSound(r)
                /\ ByBackend(r)
                /\ backend = "mongodb" /\ req[h].alone => KnowsFolders(r)
       PROVE  Told
  <2>1. UNCHANGED <<folders, placed, backend>>
    BY <1>10 DEF folderVars, GoOn
  <2>2. WasSound(r) => WasSound(r)'
    BY <1>3, <2>1 DEF WasSound, ItemsRefer, FoldersRefer, Holds, IdsDiffer
  <2>3. KnowsFolders(r) => KnowsFolders(r)'
    BY <2>1 DEF KnowsFolders, Holds, Parent, PathsTrue, IsFolder, Folder
  <2>4. QED
    BY <1>4, <1>7, <1>10, <2>1, <2>2, <2>3
\* with another name or path a folder is where it was
<1>11. ASSUME NEW f, NEW field \in {"name", "path"}, NEW v, folders' = Set(f, field, v), UNCHANGED placed
       PROVE  /\ FoldersStand /\ IdsDiffer(folders')
              /\ \A p : Holds(folders, p) => Holds(folders', p)
  <2>1. PICK new : new = [x \in folders |-> IF x.id = f THEN [x EXCEPT ![field] = v] ELSE x]
    OBVIOUS
  <2>2. ASSUME NEW x \in folders, NEW y, y = [x EXCEPT ![field] = v]
        PROVE  y.id = x.id /\ y.parent = x.parent
    BY <2>2 DEF LibInv, FoldersOK, FolderFields
  <2>3. \A x \in folders : new[x].id = x.id /\ new[x].parent = x.parent
    BY <2>1, <2>2
  <2>4. folders' = {new[x] : x \in folders}
    BY <1>11, <2>1 DEF Set
  <2>5. QED
    BY <1>11, <2>3, <2>4, FoldersRenewed DEF Holds
<1>12. CASE ReadParent(h)
  <2>1. req[h].op = "create" /\ UNCHANGED folderVars
    BY <1>12 DEF ReadParent, At
  <2>2. PICK r : /\ GoOn(h, r)
                 /\ \/ r = [req[h] EXCEPT !.at = "insert"]
                    \/ \E path : r = [req[h] EXCEPT !.list = path, !.at = "insert"]
                    \/ r = [req[h] EXCEPT !.at = "error"]
    BY <1>12 DEF ReadParent
  <2>3. /\ r.op = "create" /\ r.on = req[h].on /\ r.alone = req[h].alone /\ r.was = req[h].was
    BY <1>2, <2>1, <2>2 DEF RequestFields
  <2>4. ByBackend(r) /\ (KnowsFolders(req[h]) => KnowsFolders(r)) /\ r.was = <<>>
    BY <1>6, <2>1, <2>3 DEF ByBackend, KnowsFolders
  <2>5. QED
    BY <1>2, <1>10, <2>1, <2>2, <2>3, <2>4
<1>13. CASE InsertFolder(h)
  <2>1. req[h].op = "create" /\ req[h].was = <<>>
    BY <1>6, <1>13 DEF InsertFolder, At
  <2>2. CASE GoTo(h, "error") /\ UNCHANGED folderVars
    BY <1>7, <1>8, <2>2 DEF folderVars, Answered
  <2>3. CASE ~(GoTo(h, "error") /\ UNCHANGED folderVars)
    <3>1. PICK f, at :
          /\ \E path : f = [id |-> nextFolder, name |-> req[h].arg[1], parent |-> req[h].on, path |-> path]
          /\ folders' = folders \cup {f} /\ UNCHANGED placed
          /\ at \in {"ok", "path"} /\ GoOn(h, [req[h] EXCEPT !.k = nextFolder, !.at = at])
          /\ ~(backend # "mongodb" /\ req[h].on # Root /\ ~IsFolder(req[h].on))
      BY <1>13, <2>3 DEF InsertFolder
    <3>2. f.id = nextFolder /\ f.parent = req[h].on
      BY <3>1
    <3>3. PICK r : r = [req[h] EXCEPT !.k = nextFolder, !.at = at]
      OBVIOUS
    <3>4. r.op = "create" /\ r.on = req[h].on /\ r.alone = req[h].alone /\ r.was = <<>>
      BY <1>2, <2>1, <3>3 DEF RequestFields
    <3>5. \A p : Holds(folders, p) => Holds(folders', p)
      BY <3>1 DEF Holds
    <3>6. Careful(h) => Holds(folders, req[h].on)
      BY <1>2, <1>3, <2>1, <3>1 DEF Careful, KnowsFolders
    <3>7. Careful(h) => FoldersStand
      BY <3>1, <3>2, <3>5, <3>6 DEF FoldersStand
    <3>8. IdsDiffer(folders')
      <4>1. \A x \in folders : x.id # nextFolder
        <5>1. nextFolder \in Nat
          BY FoldersAssumption DEF LibInv, CountersOK
        <5>2. QED
          BY <5>1 DEF LibInv, FoldersOK
      <4>2. QED
        BY <1>3, <3>1, <3>2, <4>1 DEF IdsDiffer
    <3>9. backend = "mongodb" /\ req[h].alone => KnowsFolders(r)'
      <4>1. backend = "mongodb" /\ req[h].alone => Holds(folders', r.on)
        BY <1>2, <2>1, <3>4, <3>5 DEF KnowsFolders
      <4>2. QED
        BY <3>4, <4>1 DEF KnowsFolders, Holds
    <3>10. QED
      BY <1>4, <2>1, <3>1, <3>3, <3>4, <3>7, <3>8, <3>9 DEF ByBackend
  <2>4. QED
    BY <2>2, <2>3
<1>14. CASE WritePath(h)
  <2>1. PICK v : folders' = Set(req[h].k, "path", v) /\ UNCHANGED placed
    BY <1>14 DEF WritePath
  <2>2. PICK at \in Answered : GoTo(h, at)
    BY <1>14 DEF WritePath, Found, Answered
  <2>3. QED
    BY <1>8, <1>11, <2>1, <2>2
<1>15. CASE ReadFolder(h)
  <2>1. req[h].op = "edit" /\ UNCHANGED folderVars
    BY <1>15 DEF ReadFolder, At
  <2>2. CASE GoOn(h, [req[h] EXCEPT !.at = "error"])
    BY <1>7, <1>8, <2>1, <2>2 DEF GoTo, Answered, folderVars
  <2>3. CASE ~GoOn(h, [req[h] EXCEPT !.at = "error"])
    <3>1. PICK at \in {"parent", "name"} :
            GoOn(h, [req[h] EXCEPT !.list = <<Folder(req[h].on)>>, !.was = Savepoint(folders), !.at = at])
      BY <1>15, <2>3 DEF ReadFolder
    <3>2. PICK r : r = [req[h] EXCEPT !.list = <<Folder(req[h].on)>>, !.was = Savepoint(folders), !.at = at]
      OBVIOUS
    <3>3. r.op = "edit" /\ r.at = at /\ r.alone = req[h].alone /\ r.was = Savepoint(folders)
      BY <1>2, <2>1, <3>2 DEF RequestFields
    <3>4. r.was # <<>> => WasSound(r)
      BY <1>3, <3>1, <3>3 DEF WasSound, Savepoint
    <3>5. ByBackend(r) /\ KnowsFolders(r)
      BY <3>1, <3>3 DEF ByBackend, KnowsFolders
    <3>6. QED
      BY <1>10, <2>1, <3>1, <3>2, <3>3, <3>4, <3>5
  <2>4. QED
    BY <2>2, <2>3
\* a statement of an edit, by the place it comes to
<1>16. ASSUME req[h].op = "edit", NEW r, GoOn(h, r), IdsDiffer(folders'), Careful(h) => FoldersStand,
              UNCHANGED placed,
              r.op = "edit", r.alone = req[h].alone, r.was = req[h].was, r.arg = req[h].arg,
              r.at \in {"parent", "move", "below", "paths", "own"},
              r.at = "own" => backend = "mongodb", r.at = "move" => backend # "mongodb",
              r.at \in {"below", "paths"} \/ (r.at = "own" /\ Len(r.list) > 1) =>
                 (backend = "mongodb" /\ req[h].alone => Holds(folders', Parent(r)))
       PROVE  Told
  <2>1. UNCHANGED backend
    BY <1>16 DEF GoOn
  <2>2. ByBackend(r)
    BY <1>16 DEF ByBackend
  <2>3. r.was # <<>> => WasSound(r)'
    <3>1. r.was # <<>> => backend = "sqlite"
      BY <1>2, <1>16 DEF WasSound
    <3>2. QED
      BY <1>5, <1>16, <2>1, <3>1
  <2>4. backend = "mongodb" /\ req[h].alone => KnowsFolders(r)'
    BY <1>16 DEF KnowsFolders, Holds, Parent
  <2>5. QED
    BY <1>4, <1>16, <2>2, <2>3, <2>4
\* the same request at another place
<1>17. ASSUME NEW at, GoTo(h, at)
       PROVE  \E r : /\ GoOn(h, r) /\ r.at = at /\ r.op = req[h].op /\ r.on = req[h].on /\ r.arg = req[h].arg
                     /\ r.list = req[h].list /\ r.was = req[h].was
                     /\ r.alone = req[h].alone /\ r.sound = req[h].sound
  <2>1. PICK r : r = [req[h] EXCEPT !.at = at]
    OBVIOUS
  <2>2. QED
    BY <1>1, <1>17, <2>1, GoesTo
<1>18. CASE Rename(h)
  <2>1. req[h].op = "edit" /\ req[h].at = "name" /\ UNCHANGED placed
    BY <1>18 DEF Rename, At
  <2>2. CASE folders' = Undone(req[h], folders) /\ GoTo(h, "error")
    BY <1>9, <2>1, <2>2
  <2>3. CASE folders' = Set(req[h].on, "name", Name(req[h])) /\ GoTo(h, "parent")
    <3>1. PICK r : /\ GoOn(h, r) /\ r.at = "parent" /\ r.op = req[h].op /\ r.arg = req[h].arg
                   /\ r.was = req[h].was /\ r.alone = req[h].alone
      BY <1>17, <2>3
    <3>2. FoldersStand /\ IdsDiffer(folders')
      BY <1>11, <2>1, <2>3
    <3>3. QED
      BY <1>16, <2>1, <3>1, <3>2
  <2>4. QED
    BY <1>18, <2>2, <2>3 DEF Rename
<1>19. CASE NewParent(h)
  <2>1. req[h].op = "edit" /\ req[h].at = "parent" /\ Len(req[h].list) = 1 /\ UNCHANGED placed
    BY <1>2, <1>19 DEF NewParent, At, FolderRequestOK
  <2>2. CASE Parent(req[h]) \in {None, WasParent(req[h])}
    <3>1. PICK at : /\ GoTo(h, at) /\ UNCHANGED folders
                    /\ (at = "own" /\ backend = "mongodb") \/ at \in Answered
      BY <1>19, <2>2 DEF NewParent, Found, Answered
    <3>2. CASE at \in Answered
      BY <1>7, <1>8, <2>1, <3>1, <3>2
    <3>3. CASE at = "own" /\ backend = "mongodb"
      <4>1. PICK r : /\ GoOn(h, r) /\ r.at = "own" /\ r.op = req[h].op /\ r.arg = req[h].arg
                     /\ r.list = req[h].list /\ r.was = req[h].was /\ r.alone = req[h].alone
        BY <1>17, <3>1, <3>3
      <4>2. Len(r.list) = 1 /\ ~(1 > 1)
        BY <2>1, <4>1
      <4>3. QED
        BY <1>7, <1>16, <2>1, <3>1, <3>3, <4>1, <4>2
    <3>4. QED
      BY <3>1, <3>2, <3>3
  <2>3. CASE folders' = Undone(req[h], folders) /\ GoTo(h, "error")
    BY <1>9, <2>1, <2>3
  <2>4. CASE /\ Parent(req[h]) \notin {None, WasParent(req[h])}
             /\ ~(folders' = Undone(req[h], folders) /\ GoTo(h, "error"))
    <3>1. PICK at, path : /\ (at = "below" /\ backend = "mongodb") \/ (at = "move" /\ backend # "mongodb")
                          /\ UNCHANGED folders /\ ~Refused(req[h])
                          /\ GoOn(h, [req[h] EXCEPT !.list = <<@[1], path>>, !.at = at])
      BY <1>19, <2>4 DEF NewParent
    <3>2. PICK r : r = [req[h] EXCEPT !.list = <<@[1], path>>, !.at = at]
      OBVIOUS
    <3>3. r.op = "edit" /\ r.at = at /\ r.arg = req[h].arg /\ r.was = req[h].was /\ r.alone = req[h].alone
      BY <1>2, <2>1, <3>2 DEF RequestFields
    <3>4. Holds(folders', Parent(r))
      BY <1>3, <3>1, <3>3 DEF Refused, Parent
    <3>5. GoOn(h, r)
      BY <3>1, <3>2
    <3>6. QED
      BY <1>7, <1>16, <2>1, <3>1, <3>3, <3>4, <3>5
  <2>5. QED
    BY <1>19, <2>2, <2>3, <2>4 DEF NewParent
<1>20. CASE Move(h)
  <2>1. /\ req[h].op = "edit" /\ req[h].at = "move" /\ UNCHANGED placed /\ backend # "mongodb"
        /\ Parent(req[h]) \in 0..MaxFolders
    BY <1>2, <1>20 DEF Move, At, FolderRequestOK, ByBackend
  <2>2. CASE folders' = Undone(req[h], folders) /\ GoTo(h, "error")
    BY <1>9, <2>1, <2>2
  <2>3. CASE ~(folders' = Undone(req[h], folders) /\ GoTo(h, "error"))
    <3>1. /\ folders' = {IF x.id = req[h].on THEN [x EXCEPT !.parent = Parent(req[h]), !.path = NewPath(req[h])] ELSE x :
                           x \in folders}
          /\ GoTo(h, "below")
          /\ IsFolder(req[h].on) => Parent(req[h]) = Root \/ IsFolder(Parent(req[h]))
      BY <1>20, <2>3 DEF Move
    <3>2. PICK new : new = [x \in folders |-> IF x.id = req[h].on
                                              THEN [x EXCEPT !.parent = Parent(req[h]), !.path = NewPath(req[h])]
                                              ELSE x]
      OBVIOUS
    <3>3. ASSUME NEW x \in folders, NEW y, y = [x EXCEPT !.parent = Parent(req[h]), !.path = NewPath(req[h])]
          PROVE  y.id = x.id /\ y.parent = Parent(req[h])
      BY <3>3 DEF LibInv, FoldersOK, FolderFields
    <3>4. \A x \in folders : x.id = req[h].on => Holds(folders, Parent(req[h]))
      BY <1>3, <3>1 DEF IsFolder
    <3>5. \A x \in folders : new[x].id = x.id /\ (new[x].parent = x.parent \/ Holds(folders, new[x].parent))
      BY <3>2, <3>3, <3>4
    <3>6. folders' = {new[x] : x \in folders}
      BY <3>1, <3>2
    <3>7. FoldersStand /\ IdsDiffer(folders')
      BY <2>1, <3>5, <3>6, FoldersRenewed
    <3>8. GoTo(h, "below")
      BY <3>1
    <3>9. PICK r : /\ GoOn(h, r) /\ r.at = "below" /\ r.op = req[h].op /\ r.arg = req[h].arg
                   /\ r.was = req[h].was /\ r.alone = req[h].alone
      BY <1>17, <3>8
    <3>10. QED
      BY <1>16, <2>1, <3>7, <3>9
  <2>4. QED
    BY <2>2, <2>3
<1>21. CASE Descendants(h)
  <2>1. req[h].op = "edit" /\ req[h].at = "below" /\ UNCHANGED <<folders, placed>>
    BY <1>21 DEF Descendants, At, folderVars
  <2>2. PICK list : GoOn(h, [req[h] EXCEPT !.list = list, !.at = "paths"])
    BY <1>21 DEF Descendants
  <2>3. PICK r : r = [req[h] EXCEPT !.list = list, !.at = "paths"]
    OBVIOUS
  <2>4. r.op = "edit" /\ r.at = "paths" /\ r.arg = req[h].arg /\ r.was = req[h].was /\ r.alone = req[h].alone
    BY <1>2, <2>1, <2>3 DEF RequestFields
  <2>5. backend = "mongodb" /\ req[h].alone => Holds(folders', Parent(r))
    BY <1>2, <2>1, <2>4 DEF KnowsFolders, Parent
  <2>6. QED
    BY <1>7, <1>16, <2>1, <2>2, <2>3, <2>4, <2>5
<1>22. CASE MovePath(h)
  <2>1. /\ req[h].op = "edit" /\ req[h].at = "paths" /\ UNCHANGED placed
        /\ backend = "mongodb" /\ req[h].alone => Holds(folders, Parent(req[h]))
    BY <1>2, <1>22 DEF MovePath, At, KnowsFolders
  <2>2. CASE req[h].list[3] = {}
    <3>1. PICK at : /\ GoTo(h, at) /\ UNCHANGED folders
                    /\ (at = "own" /\ backend = "mongodb") \/ at \in Answered
      BY <1>22, <2>2 DEF MovePath, Found, Answered
    <3>2. CASE at \in Answered
      BY <1>7, <1>8, <2>1, <3>1, <3>2
    <3>3. CASE at = "own" /\ backend = "mongodb"
      <4>1. PICK r : /\ GoOn(h, r) /\ r.at = "own" /\ r.op = req[h].op /\ r.arg = req[h].arg
                     /\ r.was = req[h].was /\ r.alone = req[h].alone
        BY <1>17, <3>1, <3>3
      <4>2. req[h].alone => Holds(folders', Parent(r))
        BY <2>1, <3>1, <3>3, <4>1 DEF Parent
      <4>3. QED
        BY <1>7, <1>16, <2>1, <3>1, <3>3, <4>1, <4>2
    <3>4. QED
      BY <3>1, <3>2, <3>3
  <2>3. CASE req[h].list[3] # {}
    <3>1. PICK d, list : /\ folders' = Set(d[1], "path", d[2])
                         /\ GoOn(h, [req[h] EXCEPT !.list = list])
      BY <1>22, <2>3 DEF MovePath
    <3>2. PICK r : r = [req[h] EXCEPT !.list = list]
      OBVIOUS
    <3>3. r.op = "edit" /\ r.at = "paths" /\ r.arg = req[h].arg /\ r.was = req[h].was /\ r.alone = req[h].alone
      BY <1>2, <2>1, <3>2 DEF RequestFields
    <3>4. FoldersStand /\ IdsDiffer(folders') /\ \A p : Holds(folders, p) => Holds(folders', p)
      BY <1>11, <2>1, <3>1
    <3>5. backend = "mongodb" /\ req[h].alone => Holds(folders', Parent(r))
      BY <2>1, <3>3, <3>4 DEF Parent
    <3>6. QED
      BY <1>16, <2>1, <3>1, <3>2, <3>3, <3>4, <3>5
  <2>4. QED
    BY <2>2, <2>3
<1>23. CASE mongoOwn(h)
  <2>1. req[h].op = "edit" /\ req[h].at = "own" /\ UNCHANGED placed /\ backend = "mongodb"
    BY <1>2, <1>23 DEF mongoOwn, At, ByBackend
  <2>2. CASE GoTo(h, "error") /\ UNCHANGED folders
    BY <1>7, <1>8, <2>1, <2>2 DEF Answered
  <2>3. CASE ~(GoTo(h, "error") /\ UNCHANGED folders)
    <3> DEFINE r == req[h]
               changed(x) == [x EXCEPT !.name = IF Name(r) = NoName THEN @ ELSE Name(r),
                                       !.parent = IF Len(r.list) > 1 THEN Parent(r) ELSE @,
                                       !.path = IF Len(r.list) > 1 THEN NewPath(r) ELSE @]
    <3>1. folders' = {IF x.id = r.on THEN changed(x) ELSE x : x \in folders} /\ GoTo(h, Found(r.on))
      BY <1>23, <2>3 DEF mongoOwn
    <3>2. ASSUME NEW x \in folders
          PROVE  /\ changed(x).id = x.id
                 /\ changed(x).parent = IF Len(r.list) > 1 THEN Parent(r) ELSE x.parent
      BY DEF LibInv, FoldersOK, FolderFields
    <3>3. PICK new : new = [x \in folders |-> IF x.id = r.on THEN changed(x) ELSE x]
      OBVIOUS
    <3> HIDE DEF changed
    <3>4. Careful(h) /\ Len(r.list) > 1 => Holds(folders, Parent(r))
      BY <1>2, <2>1 DEF Careful, KnowsFolders
    <3>5. /\ folders' = {new[x] : x \in folders}
          /\ \A x \in folders : new[x].id = x.id
          /\ Careful(h) => \A x \in folders : new[x].parent = x.parent \/ Holds(folders, new[x].parent)
      BY <3>1, <3>2, <3>3, <3>4
    <3>6. Careful(h) => FoldersStand
      BY <2>1, <3>5, FoldersRenewed
    <3>7. IdsDiffer(folders')
      BY <1>3, <3>5 DEF IdsDiffer
    <3>8. Found(r.on) \in Answered
      BY DEF Found, Answered
    <3>9. QED
      BY <1>8, <3>1, <3>6, <3>7, <3>8
  <2>4. QED
    BY <2>2, <2>3
\* the statements of a deletion
<1>24. ASSUME req[h].op = "delete", NEW r, GoOn(h, r), IdsDiffer(folders'), Careful(h) => FoldersStand,
              r.op = "delete", r.on = req[h].on, r.alone = req[h].alone, r.sound = req[h].sound, r.was = req[h].was,
              r.at \in {"media", "rows"} => backend = "mongodb",
              backend = "mongodb" /\ Careful(h) =>
                /\ r.at \in {"counts", "below", "detach", "row"} => PathsTrue'
                /\ r.at \in {"media", "rows"} => /\ \A f \in folders' : f.parent \in r.list[1] => f.id \in r.list[1]
                                                 /\ Root \notin r.list[1]
                /\ r.at = "rows" => \A m \in Filed : placed'[m] \notin r.list[1]
       PROVE  Told
  <2>1. r.was = <<>> /\ ByBackend(r)
    BY <1>6, <1>24 DEF ByBackend
  <2>2. backend = "mongodb" /\ req[h].alone => KnowsFolders(r)'
    BY <1>24 DEF KnowsFolders, Careful
  <2>3. QED
    BY <1>4, <1>24, <2>1, <2>2
\* one that leaves the folders as they are
<1>25. ASSUME req[h].op = "delete", NEW at \in {"below", "detach", "row"}, GoTo(h, at), FoldersStand, UNCHANGED folders,
              req[h].at \in {"counts", "below", "detach"}
       PROVE  Told
  <2>1. PICK r : /\ GoOn(h, r) /\ r.at = at /\ r.op = req[h].op /\ r.on = req[h].on
                 /\ r.was = req[h].was /\ r.alone = req[h].alone /\ r.sound = req[h].sound
    BY <1>17, <1>25
  <2>2. PathsTrue => PathsTrue'
    BY <1>25 DEF PathsTrue, IsFolder, Folder
  <2>3. backend = "mongodb" /\ Careful(h) => PathsTrue
    BY <1>2, <1>25 DEF Careful, KnowsFolders
  <2>4. IdsDiffer(folders')
    BY <1>3, <1>25
  <2>5. QED
    BY <1>24, <1>25, <2>1, <2>2, <2>3, <2>4
<1>26. CASE Counts(h)
  <2>1. req[h].op = "delete" /\ req[h].at = "counts" /\ UNCHANGED <<folders, placed>>
    BY <1>26 DEF Counts, At, folderVars
  <2>2. PICK at \in {"below", "row", "error"} : GoTo(h, at)
    BY <1>26 DEF Counts
  <2>3. CASE at = "error"
    BY <1>7, <1>8, <2>1, <2>2, <2>3 DEF Answered
  <2>4. CASE at # "error"
    BY <1>7, <1>25, <2>1, <2>2, <2>4
  <2>5. QED
    BY <2>3, <2>4
<1>27. CASE CollectMedia(h)
  <2>1. req[h].op = "delete" /\ req[h].at = "below" /\ UNCHANGED <<folders, placed>>
    BY <1>27 DEF CollectMedia, At, folderVars
  <2>2. PICK list : GoOn(h, [req[h] EXCEPT !.list = list, !.at = "detach"])
    BY <1>27 DEF CollectMedia
  <2>3. PICK r : r = [req[h] EXCEPT !.list = list, !.at = "detach"]
    OBVIOUS
  <2>4. /\ r.op = "delete" /\ r.at = "detach" /\ r.on = req[h].on /\ r.was = req[h].was
        /\ r.alone = req[h].alone /\ r.sound = req[h].sound
    BY <1>2, <2>1, <2>3 DEF RequestFields
  <2>5. PathsTrue => PathsTrue'
    BY <2>1 DEF PathsTrue, IsFolder, Folder
  <2>6. backend = "mongodb" /\ Careful(h) => PathsTrue'
    BY <1>2, <2>1, <2>5 DEF Careful, KnowsFolders
  <2>7. QED
    BY <1>7, <1>24, <2>1, <2>2, <2>3, <2>4, <2>6
<1>28. CASE Detach(h)
  <2>1. /\ req[h].op = "delete" /\ req[h].at = "detach" /\ UNCHANGED folders /\ GoTo(h, "row")
        /\ \A m \in Filed : placed'[m] = Root \/ placed'[m] = placed[m]
    BY <1>28 DEF Detach, At
  <2>2. FoldersStand
    BY <2>1 DEF FoldersStand, Holds
  <2>3. QED
    BY <1>25, <2>1, <2>2
<1>29. CASE DeleteRow(h)
  <2>1. req[h].op = "delete" /\ backend # "mongodb"
    BY <1>29 DEF DeleteRow, At
  <2>2. CASE GoTo(h, "error") /\ UNCHANGED <<folders, placed>>
    BY <1>7, <1>8, <2>2 DEF Answered
  <2>3. CASE ~(GoTo(h, "error") /\ UNCHANGED <<folders, placed>>)
    <3>1. PICK gone : gone = IF IsFolder(req[h].on) THEN Cascade(req[h].on) ELSE {}
      OBVIOUS
    <3>2. /\ folders' = {f \in folders : f.id \notin gone}
          /\ placed' = [m \in Filed |-> IF placed[m] \in gone THEN Root ELSE placed[m]]
          /\ GoTo(h, "ok")
      BY <1>29, <2>3, <3>1 DEF DeleteRow
    <3>3. /\ Root \notin gone
          /\ \A f \in folders : f.parent \in gone => f.id \in gone
      BY <1>3, <3>1, CascadeClosed
    <3>4. \A p : Holds(folders, p) /\ p \notin gone => Holds(folders', p)
      BY <3>2 DEF Holds
    <3>5. FoldersRefer(folders)
      BY <1>3, <2>1
    <3>6. \A f \in folders' : Holds(folders', f.parent)
      BY <3>2, <3>3, <3>4, <3>5 DEF FoldersRefer
    <3>7. \A m \in Filed : Holds(folders', placed'[m])
      BY <3>2, <3>4, <3>5 DEF FoldersRefer, Holds
    <3>8. FoldersStand
      BY <3>6, <3>7 DEF FoldersStand
    <3>9. IdsDiffer(folders')
      BY <1>3, <3>2 DEF IdsDiffer
    <3>10. QED
      BY <1>8, <3>2, <3>8, <3>9 DEF Answered
  <2>4. QED
    BY <2>2, <2>3
<1>30. CASE mongoBelow(h)
  <2>1. /\ req[h].op = "delete" /\ req[h].at = "row" /\ backend = "mongodb"
        /\ UNCHANGED <<folders, placed>>
    BY <1>30 DEF mongoBelow, At, folderVars
  <2>2. CASE ~IsFolder(req[h].on)
    <3>1. GoTo(h, "ok")
      BY <1>30, <2>2 DEF mongoBelow, GoTo
    <3>2. QED
      BY <1>7, <1>8, <2>1, <3>1 DEF Answered
  <2>3. CASE IsFolder(req[h].on)
    <3>1. PICK all : all = {req[h].on} \cup {x.id : x \in Below(Folder(req[h].on).path)}
      OBVIOUS
    <3>2. PICK r : r = [req[h] EXCEPT !.list = <<all>>, !.at = "media"]
      OBVIOUS
    <3>3. GoOn(h, r)
      BY <1>30, <2>3, <3>1, <3>2 DEF mongoBelow
    <3>4. /\ r.op = "delete" /\ r.at = "media" /\ r.on = req[h].on /\ r.was = req[h].was
          /\ r.alone = req[h].alone /\ r.sound = req[h].sound /\ r.list = <<all>>
      BY <1>2, <2>1, <3>2 DEF RequestFields
    <3>5. Careful(h) => PathsTrue
      BY <1>2, <2>1 DEF Careful, KnowsFolders
    <3>6. PathsTrue => /\ \A f \in folders : f.parent \in all => f.id \in all
                       /\ Root \notin all
      BY <1>3, <2>3, <3>1, BelowClosed
    <3>7. r.list[1] = all
      BY <3>4
    <3>8. QED
      BY <1>7, <1>24, <2>1, <3>3, <3>4, <3>5, <3>6, <3>7
  <2>4. QED
    BY <2>2, <2>3
<1>31. CASE mongoDetach(h)
  <2>1. PICK gone : gone = req[h].list[1]
    OBVIOUS
  <2>2. /\ req[h].op = "delete" /\ req[h].at = "media" /\ backend = "mongodb" /\ UNCHANGED folders
        /\ placed' = [m \in Filed |-> IF placed[m] \in gone THEN Root ELSE placed[m]]
        /\ GoTo(h, "rows")
    BY <1>2, <1>31, <2>1 DEF mongoDetach, At, ByBackend
  <2>3. PICK r : /\ GoOn(h, r) /\ r.at = "rows" /\ r.op = req[h].op /\ r.on = req[h].on /\ r.list = req[h].list
                 /\ r.was = req[h].was /\ r.alone = req[h].alone /\ r.sound = req[h].sound
    BY <1>17, <2>2
  <2>4. Careful(h) => /\ \A f \in folders : f.parent \in gone => f.id \in gone
                      /\ Root \notin gone
    BY <1>2, <2>1, <2>2 DEF Careful, KnowsFolders
  <2>5. Careful(h) => \A m \in Filed : placed'[m] \notin gone
    BY <2>2, <2>4
  <2>6. FoldersStand
    BY <2>2 DEF FoldersStand, Holds
  <2>7. r.list[1] = gone
    BY <2>1, <2>3
  <2>8. IdsDiffer(folders')
    BY <1>3, <2>2
  <2>9. QED
    BY <1>24, <2>2, <2>3, <2>4, <2>5, <2>6, <2>7, <2>8
<1>32. CASE mongoDeleteRows(h)
  <2>1. PICK gone : gone = req[h].list[1]
    OBVIOUS
  <2>2. /\ req[h].op = "delete" /\ req[h].at = "rows" /\ backend = "mongodb" /\ UNCHANGED placed
        /\ folders' = {f \in folders : f.id \notin gone}
        /\ GoTo(h, "ok")
    BY <1>2, <1>32, <2>1 DEF mongoDeleteRows, At, ByBackend
  <2>3. Careful(h) => /\ \A f \in folders : f.parent \in gone => f.id \in gone
                      /\ Root \notin gone
                      /\ \A m \in Filed : placed[m] \notin gone
    BY <1>2, <2>1, <2>2 DEF Careful, KnowsFolders
  <2>4. \A p : Holds(folders, p) /\ p \notin gone => Holds(folders', p)
    BY <2>2 DEF Holds
  <2>5. Careful(h) => FoldersStand
    BY <2>2, <2>3, <2>4 DEF FoldersStand
  <2>6. IdsDiffer(folders')
    BY <1>3, <2>2 DEF IdsDiffer
  <2>7. QED
    BY <1>8, <2>2, <2>5, <2>6 DEF Answered
<1>33. CASE moveMediaToFolder(h)
  <2>1. req[h].op = "file" /\ UNCHANGED folders
    BY <1>33 DEF moveMediaToFolder, At
  <2>2. CASE GoTo(h, "error") /\ UNCHANGED placed
    BY <1>7, <1>8, <2>1, <2>2 DEF Answered
  <2>3. CASE ~(GoTo(h, "error") /\ UNCHANGED placed)
    <3>1. /\ GoTo(h, "ok")
          /\ \A m \in Filed : placed'[m] = req[h].on \/ placed'[m] = placed[m]
          /\ ~(backend # "mongodb" /\ req[h].on # Root /\ ~IsFolder(req[h].on))
      BY <1>33, <2>3 DEF moveMediaToFolder
    <3>2. Careful(h) => Holds(folders, req[h].on)
      BY <1>2, <1>3, <2>1, <3>1 DEF Careful, KnowsFolders
    <3>3. Careful(h) => FoldersStand
      BY <2>1, <3>1, <3>2 DEF FoldersStand, Holds
    <3>4. IdsDiffer(folders')
      BY <1>3, <2>1
    <3>5. QED
      BY <1>8, <3>1, <3>3, <3>4 DEF Answered
  <2>4. QED
    BY <2>2, <2>3
<1>34. QED
  BY <1>12, <1>13, <1>14, <1>15, <1>18, <1>19, <1>20, <1>21, <1>22, <1>23, <1>26, <1>27, <1>28, <1>29, <1>30, <1>31,
     <1>32, <1>33 DEF StepFolders

\* What a new request asks for is there.
LEMMA PlaylistAsksRefer ==
  ASSUME LibInv, RefInv, NEW h \in Handlers, BeginPlaylists(h) \/ Adds(h), UNCHANGED <<folderVars, subtitleVars>>
  PROVE  Told
<1>1. UNCHANGED <<playlists, media, items, tracks, folders, placed>>
  BY DEF BeginPlaylists, Adds, addPlaylistItems, deletePlaylistItem, updatePlaylistItem, deletePlaylist,
     reorderPlaylistItems, subtitleVars, folderVars, playlistVars
<1>2. ASSUME NEW op \in {"add", "remove", "reorder", "update", "drop"}, NEW at, NEW on, NEW arg, NEW sound,
             Begin(h, op, at, on, arg, sound), at \notin Answered,
             op = "add" => on \in playlists /\ at = "count",
             op = "drop" /\ backend = "mongodb" => at = "items"
      PROVE  Told
  <2>1. \A r : (/\ r.op = op /\ r.at = at /\ r.on = on /\ r.arg = arg /\ r.list = <<>> /\ r.sound = sound)
                 => ByBackend(r) /\ (backend = "mongodb" => KnowsRows(r))
    BY <1>2 DEF ByBackend, KnowsRows, KnowsItems, KnowsMedia, KnowsFolders
  <2>2. QED
    BY <1>1, <1>2, <2>1, BeginRefers DEF Told
<1>3. CASE Adds(h)
  <2>1. PICK p, ms, sound : Begin(h, "add", "count", p, ms, sound) /\ p \in playlists
    BY <1>3 DEF Adds, addPlaylistItems
  <2>2. QED
    BY <1>2, <2>1 DEF Answered
<1>4. ASSUME NEW i, deletePlaylistItem(h, i) PROVE Told
  BY <1>2, <1>4 DEF deletePlaylistItem, Answered
<1>5. ASSUME NEW i, NEW x, updatePlaylistItem(h, i, x) PROVE Told
  BY <1>2, <1>5 DEF updatePlaylistItem, Answered
<1>6. ASSUME NEW p, deletePlaylist(h, p) PROVE Told
  <2>1. PICK at : at = IF backend = "mongodb" THEN "items" ELSE "row"
    OBVIOUS
  <2>2. PICK sound : Begin(h, "drop", at, p, <<>>, sound)
    BY <1>6, <2>1 DEF deletePlaylist
  <2>3. QED
    BY <1>2, <2>1, <2>2 DEF Answered
<1>7. ASSUME NEW p, NEW ids, reorderPlaylistItems(h, p, ids) PROVE Told
  BY <1>2, <1>7 DEF reorderPlaylistItems, Answered
<1>8. QED
  BY <1>3, <1>4, <1>5, <1>6, <1>7 DEF BeginPlaylists

LEMMA ApprovalAsksRefer ==
  ASSUME LibInv, RefInv, NEW h \in Handlers, Decides(h), UNCHANGED <<folderVars, subtitleVars>>
  PROVE  Told
<1>1. PICK m, status, sound : Begin(h, "decide", "status", m, <<status>>, sound) /\ UNCHANGED playlistVars
  BY DEF Decides, decide
<1>2. \A r : (/\ r.op = "decide" /\ r.at = "status" /\ r.on = m /\ r.arg = <<status>> /\ r.list = <<>> /\ r.sound = sound)
               => ByBackend(r) /\ (backend = "mongodb" => KnowsRows(r))
  BY DEF ByBackend, KnowsRows, KnowsItems, KnowsMedia, KnowsFolders
<1>3. QED
  BY <1>1, <1>2, BeginRefers DEF Told, Answered, playlistVars, folderVars, subtitleVars

LEMMA MediaAsksRefer ==
  ASSUME LibInv, RefInv, NEW h \in Handlers, NEW m, deleteMedia(h, m), UNCHANGED folderVars
  PROVE  Told
<1>1. PICK at : at = IF backend = "mongodb" THEN "items" ELSE "row"
  OBVIOUS
<1>2. PICK sound : Begin(h, "purge", at, m, <<>>, sound)
  BY <1>1 DEF deleteMedia
<1>3. UNCHANGED <<playlists, media, items, tracks, folders, placed>>
  BY DEF deleteMedia, playlistVars, folderVars, subtitleVars
<1>4. \A r : (/\ r.op = "purge" /\ r.at = at /\ r.on = m /\ r.arg = <<>> /\ r.list = <<>> /\ r.sound = sound)
               => ByBackend(r) /\ (backend = "mongodb" => KnowsRows(r))
  BY <1>1 DEF ByBackend, KnowsRows, KnowsItems, KnowsMedia, KnowsFolders
<1>5. QED
  BY <1>1, <1>2, <1>3, <1>4, BeginRefers DEF Told, Answered

LEMMA SubtitleAsksRefer ==
  ASSUME LibInv, RefInv, NEW h \in Handlers, BeginSubtitles(h), UNCHANGED <<playlistVars, folderVars>>
  PROVE  Told
<1>1. UNCHANGED <<playlists, media, items, tracks, folders, placed>>
  BY DEF BeginSubtitles, attachExternal, persistEmbeddedSubtitles, delete, update, subtitleVars, folderVars, playlistVars
<1>2. PICK op, at, on, arg, sound :
        /\ Begin(h, op, at, on, arg, sound) /\ (op = "embed" => on \in media)
        /\ op \in {"attach", "embed", "patch", "detach"} /\ at \in {"parent", "find", "read"}
  <2>1. ASSUME NEW m, NEW d, attachExternal(h, m, d)
        PROVE  \E arg, sound : Begin(h, "attach", "parent", m, arg, sound)
    BY <2>1 DEF attachExternal
  <2>2. ASSUME NEW m, NEW s, persistEmbeddedSubtitles(h, m, s)
        PROVE  \E arg, sound : Begin(h, "embed", "find", m, arg, sound) /\ m \in media
    BY <2>2 DEF persistEmbeddedSubtitles
  <2>3. ASSUME NEW t, delete(h, t)
        PROVE  \E on, arg, sound : Begin(h, "detach", "read", on, arg, sound)
    BY <2>3 DEF delete
  <2>4. ASSUME NEW t, NEW d, update(h, t, d)
        PROVE  \E on, arg, sound : Begin(h, "patch", "read", on, arg, sound)
    BY <2>4 DEF update
  <2>5. QED
    BY <2>1, <2>2, <2>3, <2>4 DEF BeginSubtitles
<1>3. \A r : (/\ r.op = op /\ r.at = at /\ r.on = on /\ r.arg = arg /\ r.list = <<>> /\ r.sound = sound)
               => ByBackend(r) /\ (backend = "mongodb" => KnowsRows(r))
  BY <1>2 DEF ByBackend, KnowsRows, KnowsItems, KnowsMedia, KnowsFolders
<1>4. QED
  BY <1>1, <1>2, <1>3, BeginRefers DEF Told, Answered

LEMMA FolderAsksRefer ==
  ASSUME LibInv, RefInv, NEW h \in Handlers, BeginFolders(h), UNCHANGED <<playlistVars, subtitleVars>>
  PROVE  Told
<1>1. UNCHANGED <<playlists, media, items, tracks, folders, placed>>
  BY DEF BeginFolders, createFolder, updateFolder, deleteFolder, moveMedia, subtitleVars, folderVars, playlistVars
<1>2. PICK sound : sound = (Tree /\ PathsTrue)
  OBVIOUS
<1>3. ASSUME NEW op \in {"create", "edit", "delete", "file"}, NEW at \in {"parent", "read", "counts", "move"},
             NEW on, NEW arg, Begin(h, op, at, on, arg, sound),
             op \in {"create", "file"} => Holds(folders, on), op = "edit" => at = "read", op = "delete" => at = "counts"
      PROVE  Told
  <2>1. \A r : (/\ r.op = op /\ r.at = at /\ r.on = on /\ r.arg = arg /\ r.list = <<>> /\ r.sound = sound)
                 => ByBackend(r) /\ (backend = "mongodb" => KnowsRows(r))
    BY <1>2, <1>3 DEF ByBackend, KnowsRows, KnowsItems, KnowsMedia, KnowsFolders
  <2>2. QED
    BY <1>1, <1>3, <2>1, BeginRefers DEF Told, Answered
<1>4. ASSUME NEW p, NEW n, createFolder(h, p, n) PROVE Told
  BY <1>2, <1>3, <1>4 DEF createFolder, Holds, IsFolder
<1>5. ASSUME NEW f, NEW n, NEW p, updateFolder(h, f, n, p) PROVE Told
  BY <1>2, <1>3, <1>5 DEF updateFolder
<1>6. ASSUME NEW f, NEW recursive, deleteFolder(h, f, recursive) PROVE Told
  BY <1>2, <1>3, <1>6 DEF deleteFolder
<1>7. ASSUME NEW ms, NEW f, moveMedia(h, ms, f) PROVE Told
  BY <1>2, <1>3, <1>7 DEF moveMedia, Holds, IsFolder
<1>8. QED
  BY <1>4, <1>5, <1>6, <1>7 DEF BeginFolders

\* What nobody's step concerns stays.
LEMMA NothingRefers ==
  ASSUME RefInv, UNCHANGED <<requestVars, playlistVars, subtitleVars, folderVars>>
  PROVE  Told
<1>1. UNCHANGED <<backend, req, playlists, media, items, tracks, folders, placed>>
  BY DEF requestVars, playlistVars, subtitleVars, folderVars
<1>2. Stand
  BY <1>1, Unmoved DEF Stand
<1>3. ASSUME NEW h \in Handlers, Open(h)'
      PROVE  /\ req'[h].was # <<>> => WasSound(req[h])'
             /\ ByBackend(req[h])'
             /\ backend' = "mongodb" /\ req'[h].alone => KnowsRows(req[h])'
  <2>1. PICK r : r = req[h] /\ r = req'[h]
    BY <1>1
  <2>2. /\ r.was # <<>> => WasSound(r)
        /\ ByBackend(r)
        /\ backend = "mongodb" /\ r.alone => KnowsRows(r)
    BY <1>1, <1>3, <2>1 DEF RefInv, Open
  <2>3. /\ WasSound(r) => WasSound(r)'
        /\ ByBackend(r) => ByBackend(r)'
    BY <1>1 DEF WasSound, ByBackend, ItemsRefer, FoldersRefer, Holds, IdsDiffer
  <2>4. KnowsRows(r) => KnowsRows(r)'
    BY <1>1 DEF KnowsRows, KnowsItems, KnowsMedia, KnowsFolders, Holds, Parent, PathsTrue, IsFolder, Folder
  <2>5. QED
    BY <1>1, <2>1, <2>2, <2>3, <2>4
<1>4. OneAlone' /\ IdsDiffer(folders)'
  BY <1>1 DEF RefInv, OneAlone, Open, IdsDiffer
<1>5. QED
  BY <1>1, <1>2, <1>3, <1>4, StandHolds DEF RefInv, Told

\* After a crash no request is left, and what SQLite restores referred to what is there.
LEMMA CrashRefers ==
  ASSUME LibInv, RefInv, Crash
  PROVE  Told
<1>1. /\ UNCHANGED <<backend, playlists, media, tracks, placed>>
      /\ \A h \in Handlers : req'[h].at = "ok"
  BY DEF Crash, CrashRequests, NoRequest, subtitleVars
<1>2. ASSUME NEW ops, NEW rows, RolledBack(ops, rows) # rows
      PROVE  \E h \in Handlers : Open(h) /\ req[h].op \in ops /\ WasSound(req[h]) /\ RolledBack(ops, rows) = req[h].was[1]
  <2>1. PICK dead : dead = {h \in Handlers : Open(h) /\ req[h].op \in ops /\ req[h].was # <<>>}
    OBVIOUS
  <2>2. dead # {} /\ RolledBack(ops, rows) = req[CHOOSE h \in dead : TRUE].was[1]
    BY <1>2, <2>1 DEF RolledBack
  <2>3. PICK h : h = (CHOOSE g \in dead : TRUE)
    OBVIOUS
  <2>4. h \in dead
    BY <2>2, <2>3
  <2>5. QED
    BY <2>1, <2>2, <2>3, <2>4 DEF RefInv
<1>3. items' = items \/ ItemsRefer(items')
  <2>1. CASE items' # items
    <3>1. PICK h \in Handlers : req[h].op \in {"remove", "reorder"} /\ WasSound(req[h]) /\ items' = req[h].was[1]
      BY <1>2, <2>1 DEF Crash
    <3>2. QED
      BY <3>1 DEF WasSound
  <2>2. QED
    BY <2>1
<1>4. folders' = folders \/ (FoldersRefer(folders') /\ IdsDiffer(folders'))
  <2>1. CASE folders' # folders
    <3>1. PICK h \in Handlers : req[h].op = "edit" /\ WasSound(req[h]) /\ folders' = req[h].was[1]
      BY <1>2, <2>1 DEF Crash
    <3>2. QED
      BY <3>1 DEF WasSound
  <2>2. QED
    BY <2>1
<1>5. ItemsStand
  <2>1. CASE items' = items
    BY <1>1, <2>1, Unmoved
  <2>2. CASE ItemsRefer(items')
    BY <1>1, <2>2 DEF ItemsRefer, ItemsStand
  <2>3. QED
    BY <1>3, <2>1, <2>2
<1>6. FoldersStand /\ IdsDiffer(folders)'
  <2>1. CASE folders' = folders
    BY <1>1, <2>1, Unmoved DEF IdsDiffer
  <2>2. CASE FoldersRefer(folders') /\ IdsDiffer(folders')
    BY <1>1, <2>2 DEF FoldersRefer, FoldersStand, IdsDiffer
  <2>3. QED
    BY <1>4, <2>1, <2>2
<1>7. Stand
  BY <1>1, <1>5, <1>6, Unmoved DEF Stand
<1>8. \A h \in Handlers : ~Open(h)'
  BY <1>1 DEF Open, Answered
<1>9. QED
  BY <1>1, <1>6, <1>7, <1>8, StandHolds DEF RefInv, OneAlone, Told

LEMMA ReferencesStart ==
  ASSUME Init
  PROVE  RefInv
<1>1. req = [h \in Handlers |-> NoRequest]
  BY DEF Init, InitRequests
<1>2. \A h \in Handlers : ~Open(h)
  BY <1>1 DEF Open, NoRequest, Answered
<1>3. ItemsRefer(items)
  <2>1. CASE items = {}
    BY <2>1 DEF ItemsRefer
  <2>2. CASE InitPlaylists
    <3>1. PICK p \in Playlist, n \in 0..MaxFirst : \E f \in [1..n -> Media] :
            items = {[id |-> k, pl |-> p, media |-> f[k], idx |-> k - 1] : k \in 1..n}
      BY <2>2 DEF InitPlaylists
    <3>2. PICK f \in [1..n -> Media] :
            items = {[id |-> k, pl |-> p, media |-> f[k], idx |-> k - 1] : k \in 1..n}
      BY <3>1
    <3>3. \A k \in 1..n :
            LET i == [id |-> k, pl |-> p, media |-> f[k], idx |-> k - 1] IN i.pl \in Playlist /\ i.media \in Media
      OBVIOUS
    <3>4. \A i \in items : i.pl \in Playlist /\ i.media \in Media
      BY <3>2, <3>3
    <3>5. QED
      BY <2>2, <3>4 DEF InitPlaylists, ItemsRefer
  <2>3. QED
    BY <2>1, <2>2 DEF Init, NoPlaylists
<1>4. TracksRefer
  <2>1. CASE tracks = {}
    BY <2>1 DEF TracksRefer
  <2>2. CASE media = Media /\ InitSubtitles /\ tracks # {}
    <3>1. PICK m \in Media, d \in BOOLEAN :
            tracks = {[id |-> 1, media |-> m, kind |-> "external", stream |-> 0, def |-> d, file |-> 1]}
      BY <2>2 DEF InitSubtitles
    <3>2. \A t \in tracks : t.media = m
      BY <3>1
    <3>3. QED
      BY <2>2, <3>2 DEF TracksRefer
  <2>3. QED
    BY <2>1, <2>2 DEF Init, NoSubtitles
<1>5. FoldersRefer(folders) /\ IdsDiffer(folders)
  <2>1. CASE NoFolders
    BY <2>1 DEF NoFolders, FoldersRefer, IdsDiffer, Holds
  <2>2. CASE InitFolders
    <3>1. PICK n \in 0..2, a \in Names, b \in Names :
            /\ folders = {[id |-> k, name |-> IF k = 1 THEN a ELSE b, parent |-> k - 1, path |-> [i \in 1..k |-> i]] : k \in 1..n}
            /\ \E f \in [Filed -> 0..n] : placed = f
      BY <2>2 DEF InitFolders
    <3>2. PICK new : new = [k \in 1..n |-> [id |-> k, name |-> IF k = 1 THEN a ELSE b, parent |-> k - 1,
                                            path |-> [i \in 1..k |-> i]]]
      OBVIOUS
    <3>3. \A k \in 1..n : new[k].id = k /\ new[k].parent = k - 1
      BY <3>2
    <3>4. folders = {new[k] : k \in 1..n}
      BY <3>1, <3>2
    <3>5. \A k \in 0..n : Holds(folders, k)
      <4>1. ASSUME NEW k \in 1..n PROVE \E g \in folders : g.id = k
        BY <3>3, <3>4
      <4>2. \A k \in 0..n : k = 0 \/ k \in 1..n
        OBVIOUS
      <4>3. QED
        BY <4>1, <4>2 DEF Holds, Root
    <3>6. \A f \in folders : \E k \in 1..n : f = new[k] /\ k - 1 \in 0..n
      BY <3>4
    <3>7. \A m \in Filed : placed[m] \in 0..n
      BY <3>1
    <3>8. QED
      BY <3>3, <3>5, <3>6, <3>7 DEF FoldersRefer, IdsDiffer
  <2>3. QED
    BY <2>1, <2>2 DEF Init
<1>6. QED
  BY <1>2, <1>3, <1>4, <1>5 DEF RefInv, OneAlone

\* Every step leaves references told: no new dangling one, unless it is excused.
LEMMA StepsRefer ==
  ASSUME <<"subtitles", "mssql">> \notin Studied, LibInv, RefInv, [Next]_vars
  PROVE  LibInv' /\ Told
<1>1. LibInv'
  BY LibraryStep
<1>2. ASSUME NEW h \in Handlers, InPlaylists(h) \/ InApprovals(h), UNCHANGED <<subtitleVars, folderVars>>
      PROVE  Told
  BY <1>2, PlaylistAsksRefer, PlaylistRefers, ApprovalAsksRefer, ApprovalRefers DEF InPlaylists, InApprovals
<1>3. ASSUME NEW h \in Handlers, InSubtitles(h), UNCHANGED <<playlistVars, approvalVars, folderVars>>
      PROVE  Told
  BY <1>3, SubtitleAsksRefer, SubtitleRefers DEF InSubtitles
<1>4. ASSUME NEW h \in Handlers, DeletesMedia(h), UNCHANGED <<approvalVars, folderVars>>
      PROVE  Told
  BY <1>4, MediaAsksRefer, MediaRefers DEF DeletesMedia
<1>5. ASSUME NEW h \in Handlers, InFolders(h), UNCHANGED <<playlistVars, approvalVars, subtitleVars>>
      PROVE  Told
  BY <1>5, FolderAsksRefer, FolderRefers DEF InFolders
<1>6. CASE UNCHANGED <<requestVars, playlistVars, approvalVars, subtitleVars, folderVars, part>>
  BY <1>1, <1>6, NothingRefers
<1>7. QED
  BY <1>1, <1>2, <1>3, <1>4, <1>5, <1>6, CrashRefers DEF Next, vars

\* No statement of a request (playlist, media, subtitle and folder routes) and no crash
\* leaves a row that refers to one that is gone: by the foreign keys in SQL, and in
\* MongoDB by the order of the deletions, if no other request is under way and the
\* folders' paths are true. SQL Server's subtitles aside, as above.
THEOREM ReferencesCorrect ==
  ASSUME <<"subtitles", "mssql">> \notin Studied
  PROVE  Spec => ReferencesHold
<1>1. Init => LibInv /\ RefInv
  BY LibraryStarts, ReferencesStart
<1>2. ASSUME LibInv, RefInv, [Next]_vars
      PROVE  LibInv' /\ Told
  BY <1>2, StepsRefer
<1>3. LibInv /\ RefInv /\ [Next]_vars
        => [\/ Dangling' \subseteq Dangling
            \/ /\ backend = "mongodb"
               /\ \E h \in Handlers :
                    Open(h) /\ ~(req[h].alone /\ (req[h].op = "delete" => req[h].sound))]_vars
  BY <1>2 DEF Told, Excused
<1>4. LibInv /\ RefInv /\ [Next]_vars => (LibInv /\ RefInv)'
  BY <1>2 DEF Told
<1>5. QED
  BY <1>1, <1>3, <1>4, PTL DEF Spec, ReferencesHold
=============================================================================
