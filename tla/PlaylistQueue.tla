--------------------------- MODULE PlaylistQueue ---------------------------
(***************************************************************************)
(* The client's playlist queue (client/src/playback/queue.rs): an ordered  *)
(* list of items and a position in it.  Positions are counted from 1; 0    *)
(* stands for the code's None, "before the first item" or "past the end of *)
(* a playlist that does not loop".  An item is abstracted to the media it  *)
(* plays.  The playlist id that the queue repeats from AppState is left    *)
(* out: both are always written together.                                  *)
(***************************************************************************)
EXTENDS SequencesExt

CONSTANT Media

\* What PlaylistQueue stores.
Queue == [items : Seq(Media), index : Nat, loop : BOOLEAN]

\* PlaylistQueue::new
EmptyQueue == [items |-> <<>>, index |-> 0, loop |-> FALSE]

\* A variant of NextIndex that does not wrap.
NextIndexStops(q) == IF q.index < Len(q.items) THEN q.index + 1 ELSE 0

\* The position next() moves to in a queue that has items.
NextIndex(q) ==
  IF q.index < Len(q.items) THEN q.index + 1
  ELSE IF q.loop THEN 1 ELSE 0

\* next(): an empty queue is left alone.
QNext(q) == IF q.items = <<>> THEN q ELSE [q EXCEPT !.index = NextIndex(q)]

\* The position previous() moves to in a queue that has items.
PreviousIndex(q) ==
  IF q.index > 1 THEN q.index - 1
  ELSE IF q.index = 1 /\ q.loop THEN Len(q.items) ELSE 1

\* previous()
QPrevious(q) == IF q.items = <<>> THEN q ELSE [q EXCEPT !.index = PreviousIndex(q)]

\* reset(): to the first item.
QReset(q) == [q EXCEPT !.index = IF q.items = <<>> THEN 0 ELSE 1]

\* update_items() followed by set_loop(), the pair AppState::update_playlist
\* calls: the position goes back before the first item.
QUpdate(items, loop) == [items |-> items, index |-> 0, loop |-> loop]

\* clear(): the loop flag survives.
QClear(q) == QUpdate(<<>>, q.loop)

\* current() and the Option next()/previous() return: the item at the
\* position, if there is one.
HasCurrent(q) == q.index \in 1..Len(q.items)
Current(q) == q.items[q.index]

\* AppState::get_upcoming_items: the items after the position, never wrapping
\* round, and none before playback has a position.
Upcoming(q, count) ==
  IF q.index = 0 THEN {}
  ELSE {q.items[i] : i \in (q.index + 1)..(q.index + count) \cap DOMAIN q.items}
=============================================================================
