------------------------------- MODULE Subtitles -------------------------------
(***************************************************************************)
(* The subtitle tracks of media: subtitle.service, what the ingest of a    *)
(* video registers of the streams in it, and the deletion of media, which  *)
(* takes the rows of a file along.  A track is external, with a file of    *)
(* its own, or a stream embedded in the video; of each kind one is to be   *)
(* the default.                                                            *)
(***************************************************************************)
EXTENDS Playlists

CONSTANTS
  Streams,       \* what ffprobe finds: sequences of [stream, def]
  MaxTracks      \* rows of subtitle_tracks ever made

\* (streams are registered of a video that has some)
ASSUME SubtitlesAssumption ==
  /\ MaxTracks \in Nat
  /\ \A s \in Streams : s \in Seq([stream : Int, def : BOOLEAN]) /\ s # <<>>

VARIABLES
  tracks,        \* rows of subtitle_tracks: [id, media, kind, stream, def, file]
  files,         \* subtitle files in the storage
  probed,        \* media whose streams have been registered
  nextTrack
subtitleVars == <<tracks, files, probed, nextTrack>>

TracksOf(m, kind) == {t \in tracks : t.media = m /\ t.kind = kind}
Defaults(m, kind) == {t \in TracksOf(m, kind) : t.def}
OneDefault(m) == \A kind \in {"external", "embedded"} : Cardinality(Defaults(m, kind)) <= 1
Track(id) == CHOOSE t \in tracks : t.id = id
IsTrack(id) == \E t \in tracks : t.id = id

\* no external track yet, or one
InitSubtitles ==
  /\ \/ tracks = {} /\ files = {} /\ nextTrack = 1
     \/ \E m \in Media, d \in BOOLEAN :
          /\ tracks = {[id |-> 1, media |-> m, kind |-> "external", stream |-> 0, def |-> d, file |-> 1]}
          /\ files = {1} /\ nextTrack = 2
  /\ probed = {}

(***************************************************************************)
(* What the handlers of this module have to say of their track.            *)
(***************************************************************************)
KindOf(r) == IF r.op = "attach" THEN "external" ELSE IF r.op = "embed" THEN "embedded" ELSE r.list[1].kind
MediaOf(r) == IF r.op = "patch" THEN r.list[1].media ELSE r.on
WantsDefault(r) == IF r.op = "embed" THEN Head(r.arg).def ELSE r.arg[1]
Existing(r) == IF r.op = "attach" THEN 0 ELSE r.k     \* the row to update, 0 to insert one

\* attachExternal takes its file away again; registering streams only logs
Failed(r) == [r EXCEPT !.at = CASE r.op = "attach" -> "unlink" [] r.op = "patch" -> "error" [] OTHER -> "ok"]
Done(r) ==
  IF r.op = "embed"
  THEN [r EXCEPT !.list = Append(@, Head(r.arg).stream), !.arg = Tail(@),
                 !.at = IF Len(r.arg) = 1 THEN "prune" ELSE "find"]
  ELSE [r EXCEPT !.at = "ok"]

(***************************************************************************)
(* attachExternal: the parent, the file, the row                           *)
(***************************************************************************)
attachExternal(h, m, def) ==
  /\ m \in media
  /\ Begin(h, "attach", "parent", m, <<def>>, OneDefault(m))
  /\ UNCHANGED subtitleVars

CheckParent(h) ==
  /\ At(h, "attach", "parent")
  /\ GoTo(h, IF req[h].on \in media THEN "file" ELSE "error")
  /\ UNCHANGED subtitleVars

\* a name of its own: the number of the next track stands for it
StoreFile == files' = files \cup {nextTrack} /\ nextTrack' = nextTrack + 1

saveSubtitle(h) ==
  /\ At(h, "attach", "file") /\ nextTrack <= MaxTracks
  /\ StoreFile
  /\ GoOn(h, [req[h] EXCEPT !.k = nextTrack, !.at = IF WantsDefault(req[h]) THEN "clear" ELSE "insert"])
  /\ UNCHANGED <<tracks, probed>>

\* A variant of clearDefaultFlagSiblings: only an update clears
clearAtUpdate(h) ==
  LET r == req[h] IN
  /\ r.op \in {"attach", "embed", "patch"} /\ At(h, r.op, "clear")
  /\ tracks' = {IF t \in TracksOf(MediaOf(r), KindOf(r)) /\ Existing(r) \notin {0, t.id}
                THEN [t EXCEPT !.def = FALSE] ELSE t : t \in tracks}
  /\ GoTo(h, IF Existing(r) = 0 THEN "insert" ELSE "set")
  /\ UNCHANGED <<files, probed, nextTrack>>

clearDefaultFlagSiblings(h) ==
  LET r == req[h] IN
  /\ r.op \in {"attach", "embed", "patch"} /\ At(h, r.op, "clear")
  /\ tracks' = {IF t \in TracksOf(MediaOf(r), KindOf(r)) /\ t.id # Existing(r)
                THEN [t EXCEPT !.def = FALSE] ELSE t : t \in tracks}
  /\ GoTo(h, IF Existing(r) = 0 THEN "insert" ELSE "set")
  /\ UNCHANGED <<files, probed, nextTrack>>

ExternalTrack(r) ==
  [id |-> r.k, media |-> r.on, kind |-> "external", stream |-> 0, def |-> WantsDefault(r), file |-> r.k]

createExternalSubtitle(h) ==
  LET r == req[h] IN
  /\ At(h, "attach", "insert")
  /\ IF backend # "mongodb" /\ r.on \notin media THEN GoOn(h, Failed(r)) /\ UNCHANGED tracks
     ELSE /\ tracks' = tracks \cup {ExternalTrack(r)}
          /\ IF backend = "mongodb" THEN GoOn(h, Done(r)) ELSE GoTo(h, "made")
  /\ UNCHANGED <<files, probed, nextTrack>>

\* A variant of ReadBack: no driver reports the id
ReadBackNothing(h) ==
  /\ req[h].op \in {"attach", "embed"} /\ At(h, req[h].op, "made")
  /\ GoOn(h, Failed(req[h]))
  /\ UNCHANGED subtitleVars

\* SQL reads the row back, by the id the driver reports: SQL Server's reports 0
ReadBack(h) ==
  LET r == req[h] IN
  /\ r.op \in {"attach", "embed"} /\ At(h, r.op, "made")
  /\ GoOn(h, IF backend # "mssql" /\ IsTrack(r.k) THEN Done(r) ELSE Failed(r))
  /\ UNCHANGED subtitleVars

(***************************************************************************)
(* persistEmbeddedSubtitles, once a video's row has been made              *)
(***************************************************************************)
persistEmbeddedSubtitles(h, m, streams) ==
  /\ m \in media \ probed
  /\ probed' = probed \cup {m}
  /\ Begin(h, "embed", "find", m, streams, OneDefault(m))
  /\ UNCHANGED <<tracks, files, nextTrack>>

FindStream(h) ==
  LET r == req[h]
      rows == {t \in TracksOf(r.on, "embedded") : t.stream = Head(r.arg).stream}
      next == IF WantsDefault(r) THEN "clear" ELSE IF rows = {} THEN "insert" ELSE "set"
  IN  /\ At(h, "embed", "find")
      /\ \/ rows = {} /\ GoOn(h, [r EXCEPT !.k = 0, !.at = next])
         \/ \E t \in rows : GoOn(h, [r EXCEPT !.k = t.id, !.at = next])
      /\ UNCHANGED subtitleVars

createEmbeddedSubtitle(h) ==
  LET r == req[h]  s == Head(r.arg) IN
  /\ At(h, "embed", "insert") /\ nextTrack <= MaxTracks
  /\ IF backend # "mongodb" /\ r.on \notin media THEN GoOn(h, Failed(r)) /\ UNCHANGED <<tracks, nextTrack>>
     ELSE /\ tracks' = tracks \cup {[id |-> nextTrack, media |-> r.on, kind |-> "embedded", stream |-> s.stream,
                                     def |-> s.def, file |-> 0]}
          /\ nextTrack' = nextTrack + 1
          /\ IF backend = "mongodb" THEN GoOn(h, Done(r)) ELSE GoOn(h, [r EXCEPT !.k = nextTrack, !.at = "made"])
  /\ UNCHANGED <<files, probed>>

pruneEmbeddedSubtitles(h) ==
  /\ At(h, "embed", "prune")
  /\ tracks' = {t \in tracks : t \in TracksOf(req[h].on, "embedded") => t.stream \in ToSet(req[h].list)}
  /\ GoTo(h, "ok")
  /\ UNCHANGED <<files, probed, nextTrack>>

(***************************************************************************)
(* update, delete                                                          *)
(***************************************************************************)
update(h, t, def) ==
  /\ t \in tracks
  /\ Begin(h, "patch", "read", t.id, <<def>>, OneDefault(t.media))
  /\ UNCHANGED subtitleVars

delete(h, t) ==
  /\ t \in tracks
  /\ Begin(h, "detach", "read", t.id, <<>>, OneDefault(t.media))
  /\ UNCHANGED subtitleVars

ReadTrack(h) ==
  LET r == req[h]
      t == Track(r.on)
      next == IF r.op = "patch" THEN IF WantsDefault(r) THEN "clear" ELSE "set"
              ELSE IF t.kind = "external" THEN "unlink" ELSE "row"
  IN  /\ r.op \in {"patch", "detach"} /\ At(h, r.op, "read")
      /\ IF IsTrack(r.on) THEN GoOn(h, [r EXCEPT !.list = <<t>>, !.k = t.id, !.at = next]) ELSE GoTo(h, "error")
      /\ UNCHANGED subtitleVars

updateSubtitle(h) ==
  LET r == req[h] IN
  /\ r.op \in {"patch", "embed"} /\ At(h, r.op, "set")
  /\ tracks' = {IF t.id = r.k THEN [t EXCEPT !.def = WantsDefault(r)] ELSE t : t \in tracks}
  /\ GoOn(h, IF IsTrack(r.k) THEN Done(r) ELSE Failed(r))
  /\ UNCHANGED <<files, probed, nextTrack>>

\* of a track to be deleted, or of one that could not be created
deleteFile(h) ==
  LET r == req[h] IN
  /\ r.op \in {"attach", "detach"} /\ At(h, r.op, "unlink")
  /\ files' = files \ {IF r.op = "attach" THEN r.k ELSE r.list[1].file}
  /\ GoTo(h, IF r.op = "attach" THEN "error" ELSE "row")
  /\ UNCHANGED <<tracks, probed, nextTrack>>

deleteSubtitle(h) ==
  /\ At(h, "detach", "row")
  /\ tracks' = {t \in tracks : t.id # req[h].on}
  /\ GoTo(h, "ok")
  /\ UNCHANGED <<files, probed, nextTrack>>

(***************************************************************************)
(* deleteMedia: by ON DELETE CASCADE in SQL, by hand in MongoDB            *)
(***************************************************************************)
deleteMedia(h, m) ==
  /\ m \in media
  /\ Begin(h, "purge", IF backend = "mongodb" THEN "items" ELSE "row", m, <<>>, TRUE)
  /\ UNCHANGED <<playlistVars, subtitleVars>>

mongoDeleteRefs(h) ==
  LET m == req[h].on IN
  /\ backend = "mongodb" /\ req[h].at \in {"items", "tracks"} /\ At(h, "purge", req[h].at)
  /\ IF req[h].at = "items" THEN items' = {i \in items : i.media # m} /\ GoTo(h, "tracks") /\ UNCHANGED tracks
     ELSE tracks' = {t \in tracks : t.media # m} /\ GoTo(h, "row") /\ UNCHANGED items
  /\ UNCHANGED <<playlists, media, nextItem, files, probed, nextTrack>>

DeleteMediaRow(h) ==
  LET m == req[h].on  sql == backend # "mongodb" IN
  /\ At(h, "purge", "row")
  /\ media' = media \ {m}
  /\ items' = {i \in items : sql => i.media # m}
  /\ tracks' = {t \in tracks : sql => t.media # m}
  /\ GoTo(h, "ok")
  /\ UNCHANGED <<playlists, nextItem, files, probed, nextTrack>>

BeginSubtitles(h) ==
  \/ \E m \in Media, d \in BOOLEAN : attachExternal(h, m, d)
  \/ \E m \in Media, s \in Streams : persistEmbeddedSubtitles(h, m, s)
  \/ \E t \in tracks : delete(h, t) \/ \E d \in BOOLEAN : update(h, t, d)

StepSubtitles(h) ==
  \/ CheckParent(h) \/ saveSubtitle(h) \/ clearDefaultFlagSiblings(h) \/ createExternalSubtitle(h) \/ ReadBack(h)
  \/ FindStream(h) \/ createEmbeddedSubtitle(h) \/ pruneEmbeddedSubtitles(h)
  \/ ReadTrack(h) \/ updateSubtitle(h) \/ deleteFile(h) \/ deleteSubtitle(h)
=============================================================================
