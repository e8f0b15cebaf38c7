---------------------------- MODULE AudioLibrary ----------------------------
(***************************************************************************)
(* The listening audio of a centre: the resumable upload the console       *)
(* drives part by part (upload.ts), the object store, the worker that      *)
(* normalises what arrived, the list that polls, the transcript, and the   *)
(* short-lived link an author listens with.                                *)
(***************************************************************************)
EXTENDS ConsoleBase

CONSTANTS
    FileParts,      \* how many parts the file is sent in
    MaxUploads,     \* bound on uploads started
    LinkLife        \* ticks a playback link lives, of which the last is stale

ASSUME AudioAssumption ==
    None \notin {"creating", "uploading", "assembling", "transcoding"} \cup Nat

VARIABLES
    uploads,       \* sequence of [state, stored, assembled, left]: the row, the parts
                   \* in the store, those assembled, whether they are nobody's to abort
    air,           \* the parts being PUT, <<upload, part>>: the store may have one yet
                   \* that the client has given up
    audioTracks,   \* sequence of [status, archived]
    ingestQueue,   \* uploads whose media.uploaded has not been handled
    transcriptOf,  \* the stored transcript of the track worked on
    \* the console
    phase,         \* Progress: None, "creating" (hashing before it), "uploading",
                   \* "assembling", "transcoding", "ready", "failed"
    put,           \* the part whose PUT the client awaits, or None
    sentParts,     \* parts whose ETag the client holds
    aborted,       \* the AbortController's signal
    notice,        \* None, "refused", "cancelled", "error": what the form says
    tracksShown,   \* the list as last fetched
    pastedCues,    \* what the pasted subtitles parse to
    link           \* age of the playback link held, or None

audioServer == <<uploads, air, audioTracks, ingestQueue, transcriptOf>>
uploadForm == <<phase, put, sentParts, aborted, notice>>
audioVars == <<audioServer, uploadForm, tracksShown, pastedCues, link>>

AudioInit ==
    /\ uploads = <<>> /\ air = {} /\ audioTracks = <<>> /\ ingestQueue = {} /\ transcriptOf = <<>>
    /\ phase = None /\ put = None /\ sentParts = {} /\ aborted = FALSE /\ notice = None
    /\ tracksShown = <<>> /\ pastedCues = <<>> /\ link = None

Busy == phase \notin {None, "ready", "failed"}
upload == Len(uploads)                            \* the last one created
UnderWay(i) == i = upload /\ phase \in {"uploading", "assembling", "transcoding"}

-----------------------------------------------------------------------------
(* The server. *)

\* abort: the row is aborted whatever it was, a track that never got a delivery
\* file is retired, and the parts of a multipart that is open are removed.
AbortedTracks ==
    IF audioTracks[upload].status = "ready" THEN audioTracks
    ELSE [audioTracks EXCEPT ![upload] = [status |-> "failed", archived |-> TRUE]]
AbortedUploads ==
    LET u == uploads[upload]
    IN [uploads EXCEPT ![upload] =
          [u EXCEPT !.state = "aborted", !.stored = IF u.state = "open" THEN {} ELSE @,
                    !.left = @ \/ u.state # "open"]]
Abandon ==
    \/ uploads' = AbortedUploads /\ audioTracks' = AbortedTracks
    \/ uploads' = [uploads EXCEPT ![upload].left = TRUE] /\ UNCHANGED audioTracks

\* stream_part makes the directory of the upload anew if it is not there.
PartArrives(i, n) ==
    /\ <<i, n>> \in air /\ air' = air \ {<<i, n>>}
    /\ LET u == uploads[i]
       IN uploads' = [uploads EXCEPT ![i] =
             [u EXCEPT !.stored = @ \cup {n}, !.left = @ \/ u.state # "open"]]
    /\ UNCHANGED <<audioTracks, ingestQueue, transcriptOf, uploadForm, tracksShown, pastedCues, link>>

\* Its bytes do not all arrive: nothing of it is kept.
PartLost(i, n) ==
    /\ <<i, n>> \in air /\ air' = air \ {<<i, n>>}
    /\ UNCHANGED <<uploads, audioTracks, ingestQueue, transcriptOf, uploadForm, tracksShown,
                   pastedCues, link>>

\* complete: the parts in the directory are put together, and it is removed.
Complete ==
    /\ uploads[upload].state = "open"
    /\ uploads' = [uploads EXCEPT ![upload] =
          [uploads[upload] EXCEPT !.state = "completed", !.assembled = uploads[upload].stored,
                                  !.stored = {}]]
    /\ ingestQueue' = ingestQueue \cup {upload}

\* ingest_audio: the bytes that arrived are compared with the bytes declared,
\* then the loudness is normalised; the track follows, retired or not.
Ingest ==
    \E i \in ingestQueue, audible \in BOOLEAN :
        /\ ingestQueue' = ingestQueue \ {i}
        /\ audioTracks' =
             [audioTracks EXCEPT ![i].status =
                IF uploads[i].assembled = 1 .. FileParts /\ audible THEN "ready" ELSE "failed"]
        /\ UNCHANGED <<uploads, air, transcriptOf, uploadForm, tracksShown, pastedCues, link>>

\* The sweeper closes the row of an upload left open past its expiry; the parts
\* stay in the store, and a later abort takes the row for done.
SweepUploads ==
    /\ \E i \in DOMAIN uploads :
        /\ uploads[i].state = "open"
        /\ uploads' = [uploads EXCEPT ![i].state = "aborted"]
    /\ UNCHANGED <<air, audioTracks, ingestQueue, transcriptOf, uploadForm, tracksShown, pastedCues, link>>

-----------------------------------------------------------------------------
(* uploadAudioTrack. *)

\* The file is hashed; neither this nor the request looks at the signal.
StartUpload ==
    /\ ~Busy /\ upload < MaxUploads
    /\ phase' = "creating" /\ sentParts' = {} /\ put' = None
    /\ aborted' = FALSE /\ notice' = None
    /\ UNCHANGED <<audioServer, tracksShown, pastedCues, link>>

\* POST /audio-tracks: the track, the upload and its part URLs, anew each time,
\* so that uploadState finds no part of it held.
TrackCreated ==
    /\ uploads' = Append(uploads, [state |-> "open", stored |-> {}, assembled |-> {},
                               left |-> FALSE])
    /\ audioTracks' = Append(audioTracks, [status |-> "processing", archived |-> FALSE])
UploadCreated ==
    /\ phase = "creating" /\ TrackCreated
    /\ phase' = "uploading"
    /\ UNCHANGED <<air, ingestQueue, transcriptOf, put, sentParts, aborted, notice, tracksShown,
                   pastedCues, link>>

\* It is refused, or lost, or its answer is: the form knows of no upload.
UploadCreateFails ==
    /\ phase = "creating"
    /\ TrackCreated \/ UNCHANGED <<uploads, audioTracks>>
    /\ phase' = IF aborted THEN None ELSE "failed"
    /\ notice' = IF aborted THEN "cancelled" ELSE "error"
    /\ UNCHANGED <<air, ingestQueue, transcriptOf, put, sentParts, aborted, tracksShown, pastedCues,
                   link>>

\* No file, no claim, a format not accepted, a size refused.
UploadRefused ==
    /\ ~Busy /\ notice # "refused"
    /\ notice' = "refused" /\ phase' = "failed" /\ aborted' = FALSE
    /\ UNCHANGED <<audioServer, put, sentParts, tracksShown, pastedCues, link>>

\* PUT one part to the store,
SendPart ==
    /\ phase = "uploading" /\ ~aborted /\ put = None
    /\ LET n == Cardinality(sentParts) + 1
       IN put' = n /\ air' = air \cup {<<upload, n>>}
    /\ UNCHANGED <<uploads, audioTracks, ingestQueue, transcriptOf, phase, sentParts, aborted,
                   notice, tracksShown, pastedCues, link>>

\* and keep its ETag.
PartAnswered ==
    /\ phase = "uploading" /\ put # None /\ put \in uploads[upload].stored
    /\ sentParts' = sentParts \cup {put} /\ put' = None
    /\ phase' = IF sentParts' = 1 .. FileParts THEN "assembling" ELSE phase
    /\ UNCHANGED <<audioServer, aborted, notice, tracksShown, pastedCues, link>>

Stopped_NoAbort(told) ==
    /\ UNCHANGED <<uploads, audioTracks>>
    /\ phase' = IF told = "cancelled" THEN None ELSE "failed"
    /\ notice' = told /\ put' = None
\* The catch: whatever stopped it, the multipart is abandoned; that this failed
\* in its turn is not said.
Stopped(told) ==
    /\ Abandon
    /\ phase' = IF told = "cancelled" THEN None ELSE "failed"
    /\ notice' = told /\ put' = None

\* A part whose answer is lost or refused; the signal, while one is in the air
\* or between two.
PartFails ==
    /\ phase = "uploading" /\ (aborted \/ put # None)
    /\ Stopped(IF aborted THEN "cancelled" ELSE "error")
    /\ UNCHANGED <<air, ingestQueue, transcriptOf, sentParts, aborted, tracksShown, pastedCues, link>>

\* POST /uploads, which does not look at the signal, is handled,
Assemble ==
    /\ phase = "assembling" /\ Complete
    /\ UNCHANGED <<air, audioTracks, transcriptOf, uploadForm, tracksShown, pastedCues, link>>

\* and answered;
Assembled ==
    /\ phase = "assembling" /\ uploads[upload].state = "completed"
    /\ phase' = "transcoding"
    /\ UNCHANGED <<audioServer, put, sentParts, aborted, notice, tracksShown, pastedCues, link>>

\* it is refused, lost before it is handled, or its answer is lost: the object
\* exists then, and is abandoned.
AssembleFails ==
    /\ phase = "assembling"
    /\ Stopped(IF aborted THEN "cancelled" ELSE "error")
    /\ UNCHANGED <<air, ingestQueue, transcriptOf, sentParts, aborted, tracksShown, pastedCues, link>>

\* The wait for the worker: until ready, failed, or cancelled.
AwaitTrack ==
    /\ phase = "transcoding"
    /\ \/ /\ aborted /\ phase' = None /\ notice' = "cancelled"
       \/ /\ ~aborted /\ audioTracks[upload].status = "ready"
          /\ phase' = "ready" /\ UNCHANGED notice
       \/ /\ ~aborted /\ audioTracks[upload].status = "failed"
          /\ phase' = "failed" /\ notice' = "error"
    /\ UNCHANGED <<audioServer, put, sentParts, aborted, tracksShown, pastedCues, link>>

CancelUpload ==
    /\ Busy /\ ~aborted
    /\ aborted' = TRUE
    /\ UNCHANGED <<audioServer, phase, put, sentParts, notice, tracksShown, pastedCues, link>>

\* The tab goes: nothing of the upload survives in it.
LeaveAudio ==
    /\ Busy
    /\ phase' = None /\ put' = None /\ sentParts' = {} /\ aborted' = FALSE /\ notice' = None
    /\ tracksShown' = <<>> /\ pastedCues' = <<>> /\ link' = None
    /\ uploads' = IF UnderWay(upload) THEN [uploads EXCEPT ![upload].left = TRUE] ELSE uploads
    /\ UNCHANGED <<air, audioTracks, ingestQueue, transcriptOf>>

-----------------------------------------------------------------------------
(* The list, the transcript, the player. *)

\* Refetched after an upload, and every four seconds while a row is processing.
TracksLoaded ==
    /\ tracksShown # audioTracks
    /\ tracksShown' = audioTracks
    /\ UNCHANGED <<audioServer, uploadForm, pastedCues, link>>

\* Every row has its Play and its transcript, whatever its status.
Listed == tracksShown # <<>>

\* parseSubtitles keeps the cues whose end is after their start.
Parsed(cues) == SelectSeq(cues, LAMBDA c : c.end_ms > c.start_ms)

\* A transcript is a sequence of cues; a cue is the span it covers.
Samples == {<<>>, <<[start_ms |-> 0, end_ms |-> 2]>>,
            <<[start_ms |-> 1, end_ms |-> 3], [start_ms |-> 0, end_ms |-> 2]>>,
            <<[start_ms |-> 2, end_ms |-> 1]>>}
PasteTranscript ==
    /\ Listed /\ ~Busy
    /\ \E cues \in Samples : pastedCues' = Parsed(cues) /\ pastedCues' # pastedCues
    /\ UNCHANGED <<audioServer, uploadForm, tracksShown, link>>

\* An overlap is pointed out and saved all the same; the PUT replaces them all.
SaveTranscript ==
    /\ pastedCues # <<>>
    /\ transcriptOf' = pastedCues /\ pastedCues' = <<>>
    /\ UNCHANGED <<uploads, air, audioTracks, ingestQueue, uploadForm, tracksShown, link>>

\* Play asks for a link; a new one starts the track again.
RequestLink ==
    /\ Listed /\ ~Busy /\ link # 0
    /\ link' = 0
    /\ UNCHANGED <<audioServer, uploadForm, tracksShown, pastedCues>>

isStale(age) == age >= LinkLife - 1
LinkAges ==
    /\ link # None /\ ~isStale(link)
    /\ link' = link + 1
    /\ UNCHANGED <<audioServer, uploadForm, tracksShown, pastedCues>>
ClosePlayer ==
    /\ link # None
    /\ link' = None
    /\ UNCHANGED <<audioServer, uploadForm, tracksShown, pastedCues>>

AudioNext ==
    \/ StartUpload \/ UploadCreated \/ UploadCreateFails \/ UploadRefused
    \/ SendPart \/ PartAnswered \/ PartFails \/ Assemble \/ Assembled \/ AssembleFails
    \/ AwaitTrack \/ CancelUpload \/ LeaveAudio
    \/ \E a \in air : PartArrives(a[1], a[2]) \/ PartLost(a[1], a[2])
    \/ Ingest \/ SweepUploads
    \/ TracksLoaded \/ PasteTranscript \/ SaveTranscript \/ RequestLink \/ LinkAges \/ ClosePlayer

-----------------------------------------------------------------------------
\* "A cancelled or failed upload is aborted, not abandoned": one that stopped,
\* however and wherever, leaves no part in the store, unless the page was closed
\* on it, the abort did not arrive, the sweeper had closed its row before, or a
\* part was written after the abort (upload.ts, storage.py).
StoppedIsDiscarded ==
    \A i \in DOMAIN uploads : ~uploads[i].left /\ ~UnderWay(i) => uploads[i].stored = {}
=============================================================================
