------------------------- MODULE AttachmentAnalysis -------------------------
(***************************************************************************)
(* What a run makes of its attachments before the graph gets them, and the *)
(* progress card the user sees meanwhile (core/agent.py,                   *)
(* core/video_transcribe.py, core/progress.py, ChatPanel/index.vue).       *)
(*                                                                         *)
(* Documents are analysed together, then the videos one after the other:   *)
(* their sound, then their pictures.  Either of both is enough.            *)
(***************************************************************************)
EXTENDS Naturals, Sequences, FiniteSets, SequencesExt, FiniteSetsExt

CONSTANTS Videos   \* bound on the videos of a message

ASSUME AnalysisAssumption == Videos \in Nat

VARIABLES
  documents,   \* the message has document attachments
  videos,      \* number of its video attachments
  vision,      \* the role video_vision is enabled
  doing,       \* the call the run waits for, or "ended"
  video,       \* the video it is about
  heard,       \* transcript_text of that video
  pictured,    \* frame_summary of that video
  sections,    \* the parts of the attachment text
  card,        \* the steps of the progress card
  result,      \* how the run ended
  truth        \* how the last attempt of each step ended

analysisVars == <<documents, videos, vision, doing, video, heard, pictured, sections, card,
                  result, truth>>

\* STEP_ORDER
Steps == <<"attachment_analysis", "video_audio_extraction", "video_transcription",
           "video_keyframe_extraction", "video_frame_captioning", "intent_recognition">>

Card == [ToSet(Steps) -> {"absent", "running", "success", "failed"}]

\* The tracker's steps after one is emitted; the card copies the tracker at every event.
Emit(steps, step, status) == [steps EXCEPT ![step] = status]

\* the file of the next video is fetched; after the last one the graph is called
NextVideo(n, steps) ==
  IF n <= videos
    THEN /\ doing' = "fetch" /\ video' = n
         /\ card' = steps
    ELSE /\ doing' = "graph" /\ UNCHANGED video
         /\ card' = Emit(steps, "intent_recognition", "running")

AnalysisInit ==
  /\ documents \in BOOLEAN
  /\ videos \in 0..Videos
  /\ documents \/ videos > 0
  /\ vision \in BOOLEAN
  /\ doing = "start" /\ video = 0
  /\ heard = FALSE /\ pictured = FALSE
  /\ sections = <<>>
  /\ card = [s \in ToSet(Steps) |-> "absent"]
  /\ result = "none"
  /\ truth = [s \in ToSet(Steps) |-> "absent"]

Attempted(step, status) == truth' = [truth EXCEPT ![step] = status]

\* build_attachment_text
Start ==
  /\ doing = "start"
  /\ IF documents
       THEN /\ doing' = "documents"
            /\ card' = Emit(card, "attachment_analysis", "running")
            /\ UNCHANGED video
       ELSE NextVideo(1, card)
  /\ UNCHANGED <<documents, videos, vision, heard, pictured, sections, result, truth>>

\* analyze_attachments; the summary may be empty
DocumentsDone ==
  /\ doing = "documents"
  /\ Attempted("attachment_analysis", "success")
  /\ sections' \in {sections, Append(sections, [of |-> 0, parts |-> {"summary"}])}
  /\ NextVideo(1, Emit(card, "attachment_analysis", "success"))
  /\ UNCHANGED <<documents, videos, vision, heard, pictured, result>>

\* the places of the steps that are running
Running(steps) == {n \in DOMAIN Steps : steps[Steps[n]] = "running"}

\* the last step in order that is running (markProgressFailed; the event names no step)
MarkFailed(steps) ==
  IF Running(steps) = {} THEN steps
  ELSE Emit(steps, Steps[Max(Running(steps))], "failed")

\* an exception leaves the run, as an event for the user
Raise(steps) ==
  /\ doing' = "ended" /\ result' = "error"
  /\ card' = MarkFailed(steps)

DocumentsFail ==
  /\ doing = "documents"
  /\ Attempted("attachment_analysis", "failed")
  /\ Raise(Emit(card, "attachment_analysis", "failed"))
  /\ UNCHANGED <<documents, videos, vision, video, heard, pictured, sections>>

\* materialize_attachment_file; then analyze begins
Fetched ==
  /\ doing = "fetch"
  /\ doing' = "audio"
  /\ card' = Emit(card, "video_transcription", "running")
  /\ UNCHANGED <<documents, videos, vision, video, heard, pictured, sections, result, truth>>

\* the storage does not have the file of a document, or of a video, any more
FileMissing ==
  /\ doing = "fetch" \/ (doing = "start" /\ documents)
  /\ doing' = "ended" /\ result' = "no file"
  /\ card' = MarkFailed(card)
  /\ UNCHANGED <<documents, videos, vision, video, heard, pictured, sections, truth>>

\* VideoTranscriptionRuntime.analyze: the sound
AudioExtracted ==
  /\ doing = "audio"
  /\ doing' = "speech"
  /\ Attempted("video_audio_extraction", "success")
  /\ UNCHANGED <<documents, videos, vision, video, heard, pictured, sections, card, result>>

Pictures(steps) ==
  /\ doing' = "frames"
  /\ card' = Emit(steps, "video_keyframe_extraction", "running")

AudioFails ==
  /\ doing = "audio"
  /\ Attempted("video_audio_extraction", "failed")
  /\ heard' = FALSE
  /\ Pictures(Emit(card, "video_audio_extraction", "failed"))
  /\ UNCHANGED <<documents, videos, vision, video, pictured, sections, result>>

\* How transcribe ends: it has a text, or it raises a RuntimeError, whatever its provider
\* does.  It is the same with the calls for the pictures.
Outcomes == {"success", "failed"}

SpeechEnds(status) ==
  /\ doing = "speech"
  /\ Attempted("video_transcription", status)
  /\ heard' = (status = "success")
  /\ Pictures(Emit(card, "video_transcription", status))
  /\ UNCHANGED <<documents, videos, vision, video, pictured, sections, result>>

\* The end of analyze: a section of what there is, or an exception when there is nothing.
VideoEnds(picture, steps) ==
  IF heard \/ picture
    THEN /\ sections' = Append(sections, [of |-> video,
              parts |-> {p \in {"sound", "pictures"} : IF p = "sound" THEN heard ELSE picture}])
         /\ NextVideo(video + 1, steps)
         /\ UNCHANGED result
    ELSE Raise(steps) /\ UNCHANGED <<sections, video>>

\* extract_keyframes; without a frame the captioning is skipped
FramesDone ==
  /\ doing = "frames"
  /\ Attempted("video_keyframe_extraction", "success")
  /\ doing' = "captions"
  /\ card' = Emit(Emit(card, "video_keyframe_extraction", "success"), "video_frame_captioning", "running")
  /\ UNCHANGED <<documents, videos, vision, video, heard, pictured, sections, result>>

NoFrames(status) ==
  /\ doing = "frames"
  /\ truth' = [truth EXCEPT !["video_keyframe_extraction"] = status,
                            !["video_frame_captioning"] = "skipped"]
  /\ pictured' = FALSE
  /\ VideoEnds(FALSE, Emit(Emit(card, "video_keyframe_extraction", status),
                           "video_frame_captioning", "success"))
  /\ UNCHANGED <<documents, videos, vision, heard>>

FaultyCaptionShown(status) == card

CaptionShown(status) == Emit(card, "video_frame_captioning", status)

\* caption_keyframes has a text or raises a RuntimeError
CaptionEnds(status) ==
  /\ doing = "captions" /\ vision
  /\ Attempted("video_frame_captioning", status)
  /\ pictured' = (status = "success")
  /\ VideoEnds(status = "success", CaptionShown(status))
  /\ UNCHANGED <<documents, videos, vision, heard>>

\* ... but a ConfigError when its role is disabled, which analyze does not catch
CaptionRefused ==
  /\ doing = "captions" /\ ~vision
  /\ Attempted("video_frame_captioning", "failed")
  /\ Raise(card)
  /\ UNCHANGED <<documents, videos, vision, video, heard, pictured, sections>>

\* The graph's first node stands for the rest of the run.
GraphEnds ==
  /\ doing = "graph"
  /\ Attempted("intent_recognition", "success")
  /\ doing' = "ended" /\ result' = "ok"
  /\ card' = Emit(card, "intent_recognition", "success")
  /\ UNCHANGED <<documents, videos, vision, video, heard, pictured, sections>>

GraphFails ==
  /\ doing = "graph"
  /\ Attempted("intent_recognition", "failed")
  /\ Raise(card)
  /\ UNCHANGED <<documents, videos, vision, video, heard, pictured, sections>>

\* A cancelled run ends without an event of its own.
Cancelled ==
  /\ doing # "ended"
  /\ doing' = "ended" /\ result' = "cancelled"
  /\ UNCHANGED <<documents, videos, vision, video, heard, pictured, sections, card, truth>>

AnalysisNext ==
  \/ Start \/ DocumentsDone \/ DocumentsFail \/ Fetched \/ FileMissing
  \/ AudioExtracted \/ AudioFails \/ FramesDone \/ CaptionRefused
  \/ \E status \in Outcomes :
       SpeechEnds(status) \/ NoFrames(status) \/ CaptionEnds(status)
  \/ GraphEnds \/ GraphFails \/ Cancelled

-----------------------------------------------------------------------------
\* The graph gets a section of every video, in their order, each with its sound or its
\* pictures; no part that was made is missing.
NoVideoDropped ==
  doing = "graph" =>
    LET shown == IF sections # <<>> /\ Head(sections).of = 0 THEN Tail(sections) ELSE sections IN
    /\ Len(shown) = videos
    /\ \A n \in DOMAIN shown : shown[n].of = n /\ shown[n].parts # {}
    /\ videos > 0 =>
         /\ "sound" \in Last(shown).parts <=> heard
         /\ "pictures" \in Last(shown).parts <=> pictured

\* Once a run has ended the card tells how the last attempt of each step ended, but for two
\* steps: transcription stays running after its sound could not be extracted, and that
\* failure stays after another video's sound was.
CardTellsTruth ==
  result \in {"ok", "error", "no file"} => \A s \in ToSet(Steps) :
    /\ card[s] = "running" => s = "video_transcription" /\ truth["video_audio_extraction"] = "failed"
    /\ card[s] = "success" => truth[s] \in {"success", "skipped"}
    /\ card[s] = "failed" =>
         \/ truth[s] = "failed" \/ s = "video_audio_extraction"
         \/ s = "video_transcription" /\ truth["video_audio_extraction"] = "failed"

\* With all of its files a run fails on account of its videos only when one gave neither
\* sound nor pictures, or when there are pictures and no model for them.
FailsForAReason ==
  result = "error" /\ truth["intent_recognition"] = "absent" /\ video > 0 =>
    (~heard /\ ~pictured) \/ ~vision

AnalysisShown == card \in Card /\ NoVideoDropped /\ CardTellsTruth /\ FailsForAReason
=============================================================================
