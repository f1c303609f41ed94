--------------------------- MODULE BackgroundClip ---------------------------
(***************************************************************************)
(* The background video of the dashboard: the setting, the dialog it is    *)
(* chosen with, the thread that converts the video once per quality, the   *)
(* cache directory with its sweep, and the player. A clip is the video at  *)
(* a quality, which is what names its cache file; frames and their coding  *)
(* are left out. Several windows of the dashboard share the directory and  *)
(* the preferences file.                                                   *)
(***************************************************************************)
EXTENDS Integers, Sequences

CONSTANTS
  Windows,    \* dashboards that may run at once
  Videos,     \* paths that name a video file
  Qualities,  \* rungs of BackgroundQuality, 1 the lowest
  Slots,      \* bound: conversion threads at a time
  ReportCap   \* bounded(16)

Off == "off"

ASSUME ClipConstants ==
  /\ Off \notin Videos /\ Qualities \in Nat \ {0}
  /\ Slots \in Nat /\ ReportCap \in Nat \ {0}

Clips    == [video : Videos, quality : 1..Qualities]
Settings == [video : Videos \cup {Off}, quality : 1..Qualities]
NoClip   == [video |-> Off, quality |-> 0]
Threads  == 1..Slots

VARIABLES
  up,        \* the windows that run
  stored,    \* ui-prefs.json: background_video and background_quality
  prefs,     \* client_prefs of each window
  converting,\* convert_worker of each window, 0 for none
  playing,   \* background of each window
  told,      \* history: the last word on the background was an error
  threads,   \* the conversion threads
  cached,    \* the .pulseclip files: "absent", "whole" or "broken"
  scratch    \* threads whose .pulseclip.tmp is in the directory

windowVars == <<up, prefs, converting, playing, told>>
diskVars   == <<stored, cached, scratch>>
clipVars   == <<windowVars, diskVars, threads>>

Conversion(c, w, does) ==
  [clip |-> c, of |-> w, does |-> does, cancelled |-> FALSE, sent |-> << >>]
Blank == Conversion(NoClip, Off, "gone")

ClipInit ==
  /\ up = {} /\ stored \in Settings /\ scratch = {}
  /\ prefs = [w \in Windows |-> stored]
  /\ converting = [w \in Windows |-> 0] /\ playing = [w \in Windows |-> NoClip]
  /\ told = [w \in Windows |-> FALSE]
  /\ threads = [x \in Threads |-> Blank]
  /\ cached \in {[c \in Clips |-> IF c = stored THEN f ELSE "absent"] : f \in {"absent", "whole", "broken"}}

ClipTypeOK ==
  /\ up \subseteq Windows /\ stored \in Settings /\ prefs \in [Windows -> Settings]
  /\ converting \in [Windows -> 0..Slots]
  /\ playing \in [Windows -> Clips \cup {NoClip}] /\ told \in [Windows -> BOOLEAN]
  /\ \A x \in Threads :
       /\ threads[x].clip \in Clips \cup {NoClip} /\ threads[x].of \in Windows \cup {Off}
       /\ threads[x].cancelled \in BOOLEAN
       /\ threads[x].does \in {"starting", "probing", "streaming", "telling", "ended",
                               "done", "failed", "gone"}
       /\ Len(threads[x].sent) <= ReportCap
  /\ cached \in [Clips -> {"absent", "whole", "broken"}]
  /\ scratch \subseteq Threads

-----------------------------------------------------------------------------
(* Letting go of a conversion, and starting one.                           *)

(* The flag is raised and the receiver dropped, which frees a thread that  *)
(* waits for room in the channel.                                          *)
LetGo(w) ==
  IF converting[w] = 0 THEN threads
  ELSE [threads EXCEPT ![converting[w]] =
          IF @.does = "gone" THEN Blank ELSE [@ EXCEPT !.cancelled = TRUE]]

forget_conversion(w) ==
  threads' = LetGo(w) /\ converting' = [converting EXCEPT ![w] = 0]

Free == {x \in Threads : threads[x].does = "gone" /\ \A w \in Windows : converting[w] # x}

(* The thread may fail to start, and nobody learns of it.                  *)
spawn_convert(w, c) ==
  \E x \in Free, does \in {"starting", "gone"} :
    /\ threads' = [LetGo(w) EXCEPT ![x] = Conversion(c, w, does)]
    /\ converting' = [converting EXCEPT ![w] = x]

(* The guard without its comparison of source and cap.                     *)
ConvertingAnything(w, c) == converting[w] # 0

AlreadyConverting(w, c) == converting[w] # 0 /\ threads[converting[w]].clip = c

start_background_conversion(w, c) ==
  \/ c.video = Off /\ forget_conversion(w) /\ UNCHANGED told
  \/ AlreadyConverting(w, c) /\ UNCHANGED <<threads, converting, told>>
  \/ /\ c.video # Off /\ ~AlreadyConverting(w, c)
     /\ spawn_convert(w, c) /\ told' = [told EXCEPT ![w] = FALSE]

-----------------------------------------------------------------------------
(* Playing a cached clip.                                                  *)

(* sweep_superseded: every other clip and every scratch file goes, or,     *)
(* where the directory cannot be read, none.                               *)
Sweep(keep) ==
  \/ /\ cached' = [c \in Clips |-> IF c = keep THEN cached[c] ELSE "absent"]
     /\ scratch' = {}
  \/ UNCHANGED <<cached, scratch>>

Loads(w, c) ==
  /\ cached[c] = "whole" /\ Sweep(c)
  /\ playing' = [playing EXCEPT ![w] = c] /\ told' = [told EXCEPT ![w] = FALSE]

(* A missing or broken file, or one that cannot be read now.               *)
LoadFails(w) ==
  /\ playing' = [playing EXCEPT ![w] = NoClip]
  /\ UNCHANGED <<cached, scratch>>

(* The exit of restore_background by which the cache path is unavailable   *)
(* leaves what plays alone.                                                *)
restore_background(w, c) ==
  \/ /\ c.video = Off
     /\ forget_conversion(w) /\ playing' = [playing EXCEPT ![w] = NoClip]
     /\ UNCHANGED <<told, cached, scratch>>
  \/ /\ AlreadyConverting(w, c)
     /\ UNCHANGED <<threads, converting, playing, told, cached, scratch>>
  \/ /\ c.video # Off /\ ~AlreadyConverting(w, c)
     /\ \/ /\ told' = [told EXCEPT ![w] = TRUE]
           /\ UNCHANGED <<threads, converting, playing, cached, scratch>>
        \/ Loads(w, c) /\ UNCHANGED <<threads, converting>>
        \/ cached[c] # "absent" /\ LoadFails(w) /\ start_background_conversion(w, c)
        \/ /\ cached[c] = "absent" /\ start_background_conversion(w, c)
           /\ UNCHANGED <<playing, cached, scratch>>

-----------------------------------------------------------------------------
(* The window.                                                             *)

(* adopt_client_prefs.                                                     *)
OpenWindow(w) ==
  /\ w \notin up /\ up' = up \cup {w}
  /\ prefs' = [prefs EXCEPT ![w] = stored]
  /\ restore_background(w, stored)
  /\ UNCHANGED stored

(* The threads die with the process; the scratch files they leave are no   *)
(* one's, and wait for a sweep.                                            *)
Quit(w) ==
  LET own == {x \in Threads : threads[x].of = w}
  IN  /\ w \in up /\ up' = up \ {w}
      /\ threads' = [x \in Threads |-> IF x \in own THEN Blank ELSE threads[x]]
      /\ scratch' = scratch \ own
      /\ converting' = [converting EXCEPT ![w] = 0]
      /\ playing' = [playing EXCEPT ![w] = NoClip]
      /\ told' = [told EXCEPT ![w] = FALSE]
      /\ UNCHANGED <<stored, prefs, cached>>

(* persist_client_prefs; a save that fails is left out.                    *)
PersistChoice(w, choice) ==
  /\ prefs' = [prefs EXCEPT ![w] = choice]
  /\ stored' = choice

set_background_video(w, v) ==
  LET choice == [prefs[w] EXCEPT !.video = v]
  IN  /\ PersistChoice(w, choice) /\ start_background_conversion(w, choice)
      /\ UNCHANGED <<playing, cached, scratch>>

clear_background_video(w) ==
  /\ PersistChoice(w, [prefs[w] EXCEPT !.video = Off])
  /\ playing' = [playing EXCEPT ![w] = NoClip] /\ forget_conversion(w)
  /\ UNCHANGED <<told, cached, scratch>>

(* A path from the dialog, which stays up while the window goes on, or     *)
(* from the text box behind it.                                            *)
VideoChosen(w) ==
  /\ w \in up /\ \E v \in Videos : set_background_video(w, v)
  /\ UNCHANGED up

VideoCleared(w) ==
  /\ w \in up /\ clear_background_video(w)
  /\ UNCHANGED up

CycleQuality(w) ==
  LET choice == [prefs[w] EXCEPT !.quality = (@ % Qualities) + 1]
  IN  /\ w \in up /\ PersistChoice(w, choice)
      /\ \/ choice.video = Off /\ UNCHANGED <<playing, threads, converting, told>>
         \/ /\ choice.video # Off /\ playing' = [playing EXCEPT ![w] = NoClip]
            /\ start_background_conversion(w, choice)
      /\ UNCHANGED <<up, cached, scratch>>

(* The frame rate is set to match the clip, which reopens it.              *)
FpsAuto(w) ==
  /\ w \in up /\ restore_background(w, prefs[w])
  /\ UNCHANGED <<up, prefs, stored>>

(* drain_conversion takes what is on the channel; the last event decides.  *)
DrainConversion(w) ==
  LET x == converting[w]
      reported == threads[x].sent
  IN  /\ x # 0 /\ reported # << >>
      /\ \/ /\ reported[Len(reported)] = "progress"
            /\ threads' = [threads EXCEPT ![x].sent = << >>]
            /\ UNCHANGED <<converting, playing, told, cached, scratch>>
         \/ /\ reported[Len(reported)] = "failed" /\ forget_conversion(w)
            /\ told' = [told EXCEPT ![w] = TRUE]
            /\ UNCHANGED <<playing, cached, scratch>>
         \/ /\ reported[Len(reported)] = "done" /\ forget_conversion(w)
            /\ \/ Loads(w, threads[x].clip)
               \/ LoadFails(w) /\ told' = [told EXCEPT ![w] = TRUE]
      /\ UNCHANGED <<up, prefs, stored>>

(* A frame does not decode: the main loop retires the player.              *)
PlaybackFails(w) ==
  /\ playing[w] # NoClip /\ playing' = [playing EXCEPT ![w] = NoClip]
  /\ told' = [told EXCEPT ![w] = TRUE]
  /\ UNCHANGED <<up, prefs, converting, diskVars, threads>>

-----------------------------------------------------------------------------
(* The conversion thread.                                                  *)

Becomes(x, does) == threads' = [threads EXCEPT ![x].does = does]
Exits(x) == threads' = [threads EXCEPT ![x] = Blank]

(* run_convert: a cached clip that opens is reported, one that does not is *)
(* deleted and converted again.                                            *)
BeginConvert(x) ==
  /\ threads[x].does = "starting"
  /\ \/ threads[x].cancelled /\ Exits(x) /\ UNCHANGED cached
     \/ /\ ~threads[x].cancelled
        /\ LET c == threads[x].clip
           IN  \/ Becomes(x, "failed") /\ UNCHANGED cached
               \/ cached[c] = "whole" /\ Becomes(x, "done") /\ UNCHANGED cached
               \/ /\ cached[c] # "whole" /\ Becomes(x, "probing")
                  /\ cached' \in {cached, [cached EXCEPT ![c] = "absent"]}
  /\ UNCHANGED scratch

(* The banner, the second ffmpeg and the writer's own scratch file.        *)
Probe(x) ==
  /\ threads[x].does = "probing"
  /\ \/ Becomes(x, "streaming") /\ scratch' = scratch \cup {x}
     \/ Becomes(x, "failed") /\ UNCHANGED scratch
  /\ UNCHANGED cached

(* A turn of stream_frames. The writer dropped unfinished takes its        *)
(* scratch file with it.                                                   *)
StreamFrame(x) ==
  /\ threads[x].does = "streaming"
  /\ \/ threads[x].cancelled /\ Exits(x) /\ scratch' = scratch \ {x}
     \/ /\ ~threads[x].cancelled
        /\ \/ \E next \in {"telling", "ended"} : Becomes(x, next) /\ UNCHANGED scratch
           \/ Becomes(x, "failed") /\ scratch' = scratch \ {x}
  /\ UNCHANGED cached

(* As if a conversion let go of kept its receiver.                         *)
TellWaits(x) ==
  /\ threads[x].does = "telling" /\ Len(threads[x].sent) < ReportCap
  /\ threads' = [threads EXCEPT ![x].does = "streaming", ![x].sent = Append(@, "progress")]
  /\ UNCHANGED <<cached, scratch>>

(* Progress: the send waits for room, and fails without a receiver.        *)
TellProgress(x) ==
  /\ threads[x].does = "telling"
  /\ \/ threads[x].cancelled /\ Becomes(x, "streaming")
     \/ /\ ~threads[x].cancelled /\ Len(threads[x].sent) < ReportCap
        /\ threads' = [threads EXCEPT ![x].does = "streaming",
                                      ![x].sent = Append(@, "progress")]
  /\ UNCHANGED <<cached, scratch>>

(* ClipWriter::finish: without its scratch file there is nothing to move.  *)
Commit(x) ==
  /\ threads[x].does = "ended" /\ scratch' = scratch \ {x}
  /\ \/ /\ x \in scratch /\ Becomes(x, "done")
        /\ cached' = [cached EXCEPT ![threads[x].clip] = "whole"]
     \/ Becomes(x, "failed") /\ UNCHANGED cached

(* A cancelled thread is silent.                                           *)
Report(x) ==
  /\ threads[x].does \in {"done", "failed"}
  /\ \/ threads[x].cancelled /\ Exits(x)
     \/ /\ ~threads[x].cancelled /\ Len(threads[x].sent) < ReportCap
        /\ threads' = [threads EXCEPT ![x].sent = Append(@, threads[x].does),
                                      ![x].does = "gone"]
  /\ UNCHANGED <<cached, scratch>>

ThreadStep(x) ==
  /\ \/ BeginConvert(x) \/ Probe(x) \/ StreamFrame(x)
     \/ TellProgress(x) \/ Commit(x) \/ Report(x)
  /\ UNCHANGED <<windowVars, stored>>

ClipNext ==
  \/ \E w \in Windows :
       \/ OpenWindow(w) \/ Quit(w) \/ VideoChosen(w) \/ VideoCleared(w) \/ CycleQuality(w)
       \/ FpsAuto(w) \/ DrainConversion(w) \/ PlaybackFails(w)
  \/ \E x \in Threads : ThreadStep(x)

-----------------------------------------------------------------------------
(* What a window shows of its background, explained: the video and quality *)
(* it is set to plays, is being converted, or the last word was an error.  *)
(* No way through the dialog, the ladder of qualities, a superseded        *)
(* conversion, a broken cache or a restart leaves it silently away, or has *)
(* another clip put on in its place (forget_conversion, and the comparison *)
(* of source and cap in start_background_conversion).                      *)
ConvertsTheConfigured(w) ==
  converting[w] # 0 /\ threads[converting[w]].clip = prefs[w]

BackgroundExplained ==
  \A w \in up :
    \/ playing[w] = IF prefs[w].video = Off THEN NoClip ELSE prefs[w]
    \/ ConvertsTheConfigured(w)
    \/ told[w] /\ converting[w] = 0

(* A conversion nobody waits for any more ends, even one that is blocked   *)
(* on its channel (clipconvert.rs, ConvertHandle::cancel).                 *)
SupersededEnd == \A x \in Threads : threads[x].cancelled ~> ~threads[x].cancelled
=============================================================================
