------------------------ MODULE BackgroundClipProofs ------------------------
(* Proofs about the background video, for any number of windows, videos,   *)
(* qualities and conversion threads that share one directory.              *)
EXTENDS Dashboard, TLAPS

(* The conversion a window holds is one it started, for what it is set to, *)
(* and has not let go of: another window, a sweep or a thread that ends    *)
(* never touches it.                                                       *)
Places  == {"starting", "probing", "streaming", "telling", "ended", "done", "failed", "gone"}
Reports == {"progress", "done", "failed"}
Records == [clip : Clips \cup {NoClip}, of : Windows \cup {Off}, does : Places,
            cancelled : BOOLEAN, sent : Seq(Reports)]

Shapes ==
  /\ threads \in [Threads -> Records] /\ converting \in [Windows -> 0..Slots]
  /\ prefs \in [Windows -> Settings] /\ stored \in Settings
  /\ DOMAIN playing = Windows /\ DOMAIN told = Windows

Explained(w) ==
  \/ playing[w] = IF prefs[w].video = Off THEN NoClip ELSE prefs[w]
  \/ ConvertsTheConfigured(w)
  \/ told[w] /\ converting[w] = 0

Holds(w) ==
  LET t == threads[converting[w]]
  IN  t.clip = prefs[w] /\ t.of = w /\ t.cancelled = FALSE /\ prefs[w].video # Off

WindowInv(w) ==
  /\ converting[w] # 0 => w \in up /\ Holds(w)
  /\ w \in up => Explained(w)

ClipInv == Shapes /\ \A w \in Windows : WindowInv(w)

LEMMA ConversionIsRecord ==
  ASSUME NEW c \in Clips \cup {NoClip}, NEW w \in Windows \cup {Off}, NEW does \in Places
  PROVE  LET t == Conversion(c, w, does)
         IN  t \in Records /\ t.clip = c /\ t.of = w /\ t.cancelled = FALSE
<1> DEFINE t == Conversion(c, w, does)
           none == << >>
           no == FALSE
<1>1. none \in Seq(Reports) /\ no \in BOOLEAN
  OBVIOUS
<1>2. t = [clip |-> c, of |-> w, does |-> does, cancelled |-> no, sent |-> none]
  BY DEF Conversion
<1> HIDE DEF none, no, t
<1>3. t \in Records /\ t.clip = c /\ t.of = w /\ t.cancelled = no
  BY <1>1, <1>2 DEF Records
<1>4. QED
  BY <1>3 DEF t, no

LEMMA BlankIsRecord == Blank \in Records
<1>1. "gone" \in Places
  BY DEF Places
<1>2. QED
  BY <1>1, ConversionIsRecord DEF Blank

LEMMA InitClipInv == DashboardInit => ClipInv
<1> SUFFICES ASSUME DashboardInit PROVE ClipInv
  OBVIOUS
<1>1. ClipInit
  BY DEF DashboardInit
<1>2. 0 \in 0..Slots
  BY ClipConstants
<1>3. Shapes
  BY <1>1, <1>2, BlankIsRecord DEF ClipInit, Shapes
<1>4. \A w \in Windows : converting[w] = 0 /\ w \notin up
  BY <1>1 DEF ClipInit
<1>5. QED
  BY <1>3, <1>4 DEF ClipInv, WindowInv

-----------------------------------------------------------------------------
(* What a step of one window leaves of the others.                         *)

(* The conversions of the windows other than w are as they were.           *)
OthersHold(w, th, cv) ==
  \A v \in Windows \ {w} :
    cv[v] = converting[v] /\ (converting[v] # 0 => th[converting[v]] = threads[converting[v]])

LEMMA SlotIsThread ==
  ASSUME Shapes, NEW w \in Windows, converting[w] # 0
  PROVE  converting[w] \in Threads /\ threads[converting[w]] \in Records
BY ClipConstants DEF Shapes, Threads

LEMMA SlotsApart ==
  ASSUME ClipInv, NEW w \in Windows, NEW v \in Windows, v # w, converting[v] # 0
  PROVE  converting[v] # converting[w]
BY DEF ClipInv, WindowInv, Holds

LEMMA LetGoLeavesOthers ==
  ASSUME ClipInv, NEW w \in Windows
  PROVE  LetGo(w) \in [Threads -> Records] /\ OthersHold(w, LetGo(w), converting)
<1> USE DEF ClipInv
<1>1. CASE converting[w] = 0
  BY <1>1 DEF LetGo, OthersHold, Shapes
<1>2. CASE converting[w] # 0
  <2> DEFINE x == converting[w]
             t == IF threads[x].does = "gone" THEN Blank
                  ELSE [threads[x] EXCEPT !.cancelled = TRUE]
  <2>1. x \in Threads /\ threads[x] \in Records
    BY <1>2, SlotIsThread
  <2>2. LetGo(w) = [threads EXCEPT ![x] = t]
    BY <1>2 DEF LetGo
  <2>3. t \in Records
    BY <2>1, BlankIsRecord DEF Records
  <2>4. \A v \in Windows \ {w} : converting[v] # 0 => converting[v] # x
    BY SlotsApart
  <2> HIDE DEF t
  <2>5. QED
    BY <2>1, <2>2, <2>3, <2>4 DEF OthersHold, Shapes
<1>3. QED
  BY <1>1, <1>2

LEMMA ForgetLeavesOthers ==
  ASSUME ClipInv, NEW w \in Windows, forget_conversion(w)
  PROVE  /\ threads' \in [Threads -> Records] /\ converting' \in [Windows -> 0..Slots]
         /\ OthersHold(w, threads', converting') /\ converting'[w] = 0
<1>1. 0 \in 0..Slots /\ converting \in [Windows -> 0..Slots]
  BY ClipConstants DEF ClipInv, Shapes
<1>2. QED
  BY <1>1, LetGoLeavesOthers DEF forget_conversion, OthersHold

LEMMA SpawnHolds ==
  ASSUME ClipInv, NEW w \in Windows, NEW c \in Clips, spawn_convert(w, c)
  PROVE  /\ threads' \in [Threads -> Records] /\ converting' \in [Windows -> 0..Slots]
         /\ OthersHold(w, threads', converting') /\ converting'[w] # 0
         /\ LET t == threads'[converting'[w]]
            IN  t.clip = c /\ t.of = w /\ t.cancelled = FALSE
<1>1. PICK x \in Free, does \in {"starting", "gone"} :
        /\ threads' = [LetGo(w) EXCEPT ![x] = Conversion(c, w, does)]
        /\ converting' = [converting EXCEPT ![w] = x]
  BY DEF spawn_convert
<1> DEFINE t == Conversion(c, w, does)
<1>2. t \in Records /\ t.clip = c /\ t.of = w /\ t.cancelled = FALSE
  <2>1. does \in Places /\ c \in Clips \cup {NoClip} /\ w \in Windows \cup {Off}
    BY DEF Places
  <2>2. QED
    BY <2>1, ConversionIsRecord, Zenon
<1>3. threads' = [LetGo(w) EXCEPT ![x] = t]
  BY <1>1
<1> HIDE DEF t
<1>4. x \in Threads /\ x \in 0..Slots /\ x # 0 /\ \A v \in Windows : converting[v] # x
  BY ClipConstants DEF Free, Threads
<1>5. LetGo(w) \in [Threads -> Records] /\ OthersHold(w, LetGo(w), converting)
  BY LetGoLeavesOthers
<1>6. converting \in [Windows -> 0..Slots]
  BY DEF ClipInv, Shapes
<1>7. /\ threads' \in [Threads -> Records] /\ threads'[x] = t
      /\ \A y \in Threads : y # x => threads'[y] = LetGo(w)[y]
  BY <1>2, <1>3, <1>4, <1>5
<1>8. /\ converting' \in [Windows -> 0..Slots] /\ converting'[w] = x
      /\ \A v \in Windows : v # w => converting'[v] = converting[v]
  BY <1>1, <1>4, <1>6
<1>9. \A v \in Windows : converting[v] # 0 => converting[v] \in Threads
  BY SlotIsThread DEF ClipInv
<1>10. OthersHold(w, threads', converting')
  BY <1>4, <1>5, <1>7, <1>8, <1>9 DEF OthersHold
<1>11. QED
  BY <1>2, <1>4, <1>7, <1>8, <1>10

(* start_background_conversion ends with the window converting the choice  *)
(* it was called for, or with nothing to convert.                          *)
LEMMA StartHolds ==
  ASSUME ClipInv, NEW w \in Windows, NEW c \in Settings, start_background_conversion(w, c)
  PROVE  /\ threads' \in [Threads -> Records] /\ converting' \in [Windows -> 0..Slots]
         /\ OthersHold(w, threads', converting') /\ DOMAIN told' = Windows
         /\ \A v \in Windows \ {w} : told'[v] = told[v]
         /\ c.video = Off => told'[w] = told[w] /\ (converting'[w] = 0 \/ UNCHANGED <<threads, converting>>)
         /\ c.video # Off =>
              /\ converting'[w] # 0
              /\ LET t == threads'[converting'[w]]
                 IN  t.clip = c /\ t.of = w /\ t.cancelled = FALSE
<1>1. Shapes
  BY DEF ClipInv
<1>2. CASE c.video = Off /\ forget_conversion(w) /\ UNCHANGED told
  BY <1>1, <1>2, ForgetLeavesOthers DEF Shapes
<1>3. CASE AlreadyConverting(w, c) /\ UNCHANGED <<threads, converting, told>>
  <2>1. converting[w] # 0 /\ threads[converting[w]].clip = c
    BY <1>3 DEF AlreadyConverting
  <2>2. Holds(w)
    BY <2>1 DEF ClipInv, WindowInv
  <2>3. QED
    BY <1>1, <1>3, <2>1, <2>2 DEF Shapes, Holds, OthersHold
<1>4. CASE /\ c.video # Off
           /\ spawn_convert(w, c) /\ told' = [told EXCEPT ![w] = FALSE]
  <2>1. c \in Clips
    BY <1>4 DEF Settings, Clips
  <2>2. QED
    BY <1>1, <1>4, <2>1, SpawnHolds DEF Shapes
<1>5. QED
  BY <1>2, <1>3, <1>4 DEF start_background_conversion

(* The windows other than w are as they were.                              *)
OthersSame(w) ==
  \A v \in Windows \ {w} :
    /\ (v \in up') = (v \in up) /\ prefs'[v] = prefs[v]
    /\ playing'[v] = playing[v] /\ told'[v] = told[v]

LEMMA OwnStep ==
  ASSUME ClipInv, NEW w \in Windows, Shapes', OthersHold(w, threads', converting'),
         OthersSame(w), WindowInv(w)'
  PROVE  ClipInv'
<1>1. ASSUME NEW v \in Windows \ {w} PROVE WindowInv(v)'
  <2>1. /\ converting'[v] = converting[v] /\ prefs'[v] = prefs[v]
        /\ converting[v] # 0 => threads'[converting[v]] = threads[converting[v]]
        /\ playing'[v] = playing[v] /\ told'[v] = told[v] /\ (v \in up') = (v \in up)
    BY DEF OthersHold, OthersSame
  <2>2. WindowInv(v)
    BY DEF ClipInv
  <2>3. QED
    BY <2>1, <2>2 DEF WindowInv, Holds, Explained, ConvertsTheConfigured
<1>2. QED
  BY <1>1 DEF ClipInv

(* A window whose new conversion is of what it is set to.                  *)
LEMMA ConvertingIsExplained ==
  ASSUME NEW w \in Windows, w \in up', converting'[w] # 0, prefs'[w].video # Off,
         LET t == threads'[converting'[w]]
         IN  t.clip = prefs'[w] /\ t.of = w /\ t.cancelled = FALSE
  PROVE  WindowInv(w)'
BY DEF WindowInv, Holds, Explained, ConvertsTheConfigured

(* A window that converts nothing, with the clip it is set to, or none, or *)
(* an error.                                                               *)
LEMMA SettledIsExplained ==
  ASSUME NEW w \in Windows, converting'[w] = 0,
         \/ playing'[w] = IF prefs'[w].video = Off THEN NoClip ELSE prefs'[w]
         \/ told'[w]
  PROVE  WindowInv(w)'
BY DEF WindowInv, Holds, Explained

LEMMA NoClipsChoice == \A c \in Settings : c.video # Off => c \in Clips
BY DEF Settings, Clips

-----------------------------------------------------------------------------
(* The steps of a window.                                                  *)

LEMMA RestoreKeeps ==
  ASSUME ClipInv, NEW w \in Windows, w \in up', up' \subseteq up \cup {w}, up \subseteq up',
         NEW c \in Settings, prefs' = [prefs EXCEPT ![w] = c],
         stored' = stored, prefs[w] = c \/ w \notin up, restore_background(w, c)
  PROVE  ClipInv'
<1>1. Shapes /\ WindowInv(w)
  BY DEF ClipInv
<1>2. /\ prefs' \in [Windows -> Settings] /\ prefs'[w] = c /\ stored' \in Settings
      /\ \A v \in Windows \ {w} : prefs'[v] = prefs[v] /\ (v \in up') = (v \in up)
  BY <1>1 DEF Shapes
<1>3. CASE /\ c.video = Off /\ forget_conversion(w)
           /\ playing' = [playing EXCEPT ![w] = NoClip] /\ UNCHANGED told
  <2>1. /\ threads' \in [Threads -> Records] /\ converting' \in [Windows -> 0..Slots]
        /\ OthersHold(w, threads', converting') /\ converting'[w] = 0
    BY <1>3, ForgetLeavesOthers
  <2>2. Shapes' /\ OthersSame(w) /\ playing'[w] = NoClip
    BY <1>1, <1>2, <1>3, <2>1 DEF Shapes, OthersSame
  <2>3. WindowInv(w)'
    BY <1>2, <1>3, <2>1, <2>2, SettledIsExplained
  <2>4. QED
    BY <2>1, <2>2, <2>3, OwnStep
<1>4. CASE AlreadyConverting(w, c) /\ UNCHANGED <<threads, converting, playing, told>>
  <2>1. OthersHold(w, threads', converting') /\ OthersSame(w) /\ Shapes'
    BY <1>1, <1>2, <1>4 DEF Shapes, OthersSame, OthersHold
  <2>2. converting[w] # 0 /\ Holds(w) /\ prefs[w] = c
    BY <1>1, <1>4 DEF AlreadyConverting, WindowInv, Holds
  <2>3. WindowInv(w)'
    BY <1>2, <1>4, <2>2, ConvertingIsExplained DEF Holds
  <2>4. QED
    BY <2>1, <2>3, OwnStep
<1>5. CASE c.video # Off /\ ~AlreadyConverting(w, c)
  <2>1. converting[w] = 0
    BY <1>1, <1>5 DEF AlreadyConverting, WindowInv, Holds
  <2>2. CASE told' = [told EXCEPT ![w] = TRUE] /\ UNCHANGED <<threads, converting, playing>>
    <3>1. OthersHold(w, threads', converting') /\ OthersSame(w) /\ Shapes' /\ told'[w] = TRUE
      BY <1>1, <1>2, <2>2 DEF Shapes, OthersSame, OthersHold
    <3>2. WindowInv(w)'
      BY <2>1, <2>2, <3>1, SettledIsExplained
    <3>3. QED
      BY <3>1, <3>2, OwnStep
  <2>3. CASE Loads(w, c) /\ UNCHANGED <<threads, converting>>
    <3>1. /\ OthersHold(w, threads', converting') /\ OthersSame(w) /\ Shapes'
          /\ playing'[w] = c
      BY <1>1, <1>2, <2>3 DEF Loads, Shapes, OthersSame, OthersHold
    <3>2. WindowInv(w)'
      BY <1>2, <1>5, <2>1, <2>3, <3>1, SettledIsExplained
    <3>3. QED
      BY <3>1, <3>2, OwnStep
  <2>4. CASE (LoadFails(w) \/ UNCHANGED playing) /\ start_background_conversion(w, c)
    <3>1. /\ threads' \in [Threads -> Records] /\ converting' \in [Windows -> 0..Slots]
          /\ OthersHold(w, threads', converting') /\ DOMAIN told' = Windows
          /\ \A v \in Windows \ {w} : told'[v] = told[v]
          /\ converting'[w] # 0
          /\ LET t == threads'[converting'[w]]
             IN  t.clip = c /\ t.of = w /\ t.cancelled = FALSE
      BY <1>5, <2>4, StartHolds
    <3>2. /\ DOMAIN playing' = Windows
          /\ \A v \in Windows \ {w} : playing'[v] = playing[v]
      BY <1>1, <2>4 DEF LoadFails, Shapes
    <3>3. Shapes' /\ OthersSame(w)
      BY <1>1, <1>2, <3>1, <3>2 DEF Shapes, OthersSame
    <3>4. WindowInv(w)'
      BY <1>2, <1>5, <3>1, ConvertingIsExplained
    <3>5. QED
      BY <3>1, <3>3, <3>4, OwnStep
  <2>5. QED
    BY <1>5, <2>2, <2>3, <2>4 DEF restore_background
<1>6. QED
  BY <1>3, <1>4, <1>5 DEF restore_background

(* Another choice, which starts its conversion.                            *)
LEMMA ChoiceKeeps ==
  ASSUME ClipInv, NEW w \in Windows, w \in up, up' = up,
         NEW c \in Settings, c.video # Off, PersistChoice(w, c),
         start_background_conversion(w, c), playing' = playing \/ LoadFails(w)
  PROVE  ClipInv'
<1>1. Shapes
  BY DEF ClipInv
<1>2. /\ prefs' \in [Windows -> Settings] /\ prefs'[w] = c /\ stored' \in Settings
      /\ \A v \in Windows \ {w} : prefs'[v] = prefs[v]
  BY <1>1 DEF Shapes, PersistChoice
<1>3. /\ threads' \in [Threads -> Records] /\ converting' \in [Windows -> 0..Slots]
      /\ OthersHold(w, threads', converting') /\ DOMAIN told' = Windows
      /\ \A v \in Windows \ {w} : told'[v] = told[v]
      /\ converting'[w] # 0
      /\ LET t == threads'[converting'[w]]
         IN  t.clip = c /\ t.of = w /\ t.cancelled = FALSE
  BY StartHolds
<1>4. DOMAIN playing' = Windows /\ \A v \in Windows \ {w} : playing'[v] = playing[v]
  BY <1>1 DEF LoadFails, Shapes
<1>5. Shapes' /\ OthersSame(w)
  BY <1>1, <1>2, <1>3, <1>4 DEF Shapes, OthersSame
<1>6. WindowInv(w)'
  BY <1>2, <1>3, ConvertingIsExplained
<1>7. QED
  BY <1>3, <1>5, <1>6, OwnStep

LEMMA ChangedChoice ==
  ASSUME NEW c \in Settings
  PROVE  /\ \A v \in Videos \cup {Off} :
              LET d == [c EXCEPT !.video = v] IN d \in Settings /\ d.video = v
         /\ LET d == [c EXCEPT !.quality = (@ % Qualities) + 1]
            IN  d \in Settings /\ d.video = c.video
<1>1. (c.quality % Qualities) + 1 \in 1..Qualities
  BY ClipConstants DEF Settings
<1>2. QED
  BY <1>1 DEF Settings

LEMMA VideoChosenKeeps == ASSUME ClipInv, NEW w \in Windows, VideoChosen(w) PROVE ClipInv'
<1>1. PICK v \in Videos : set_background_video(w, v)
  BY DEF VideoChosen
<1> DEFINE c == [prefs[w] EXCEPT !.video = v]
<1>2. prefs[w] \in Settings
  BY DEF ClipInv, Shapes
<1>3. c \in Settings /\ c.video = v /\ v # Off
  BY <1>2, ChangedChoice, ClipConstants
<1>4. /\ PersistChoice(w, c) /\ start_background_conversion(w, c)
      /\ playing' = playing /\ w \in up /\ up' = up
  BY <1>1 DEF VideoChosen, set_background_video
<1> HIDE DEF c
<1>5. QED
  BY <1>3, <1>4, ChoiceKeeps

LEMMA VideoClearedKeeps == ASSUME ClipInv, NEW w \in Windows, VideoCleared(w) PROVE ClipInv'
<1> DEFINE c == [prefs[w] EXCEPT !.video = Off]
<1>1. Shapes
  BY DEF ClipInv
<1>2. c \in Settings /\ c.video = Off
  BY <1>1, ChangedChoice DEF Shapes
<1>3. /\ PersistChoice(w, c) /\ forget_conversion(w) /\ UNCHANGED <<told, up>>
      /\ playing' = [playing EXCEPT ![w] = NoClip]
  BY DEF VideoCleared, clear_background_video
<1> HIDE DEF c
<1>4. /\ prefs' \in [Windows -> Settings] /\ prefs'[w] = c /\ stored' \in Settings
      /\ \A v \in Windows \ {w} : prefs'[v] = prefs[v]
  BY <1>1, <1>2, <1>3 DEF Shapes, PersistChoice
<1>5. /\ threads' \in [Threads -> Records] /\ converting' \in [Windows -> 0..Slots]
      /\ OthersHold(w, threads', converting') /\ converting'[w] = 0
  BY <1>3, ForgetLeavesOthers
<1>6. Shapes' /\ OthersSame(w) /\ playing'[w] = NoClip
  BY <1>1, <1>3, <1>4, <1>5 DEF Shapes, OthersSame
<1>7. WindowInv(w)'
  BY <1>2, <1>4, <1>5, <1>6, SettledIsExplained
<1>8. QED
  BY <1>5, <1>6, <1>7, OwnStep

LEMMA CycleQualityKeeps == ASSUME ClipInv, NEW w \in Windows, CycleQuality(w) PROVE ClipInv'
<1> DEFINE c == [prefs[w] EXCEPT !.quality = (@ % Qualities) + 1]
<1>1. Shapes /\ WindowInv(w)
  BY DEF ClipInv
<1>2. c \in Settings /\ c.video = prefs[w].video
  BY <1>1, ChangedChoice DEF Shapes
<1>3. /\ w \in up /\ up' = up /\ PersistChoice(w, c)
      /\ \/ c.video = Off /\ UNCHANGED <<playing, threads, converting, told>>
         \/ /\ c.video # Off /\ playing' = [playing EXCEPT ![w] = NoClip]
            /\ start_background_conversion(w, c) /\ UNCHANGED <<cached, scratch>>
  BY DEF CycleQuality
<1> HIDE DEF c
<1>4. CASE c.video # Off
  BY <1>2, <1>3, <1>4, ChoiceKeeps DEF LoadFails
<1>5. CASE c.video = Off
  <2>1. /\ prefs' \in [Windows -> Settings] /\ prefs'[w] = c /\ stored' \in Settings
        /\ \A v \in Windows \ {w} : prefs'[v] = prefs[v]
    BY <1>1, <1>2, <1>3 DEF Shapes, PersistChoice
  <2>2. Shapes' /\ OthersSame(w) /\ OthersHold(w, threads', converting')
    BY <1>1, <1>3, <1>5, <2>1 DEF Shapes, OthersSame, OthersHold
  <2>3. converting[w] = 0 /\ (playing[w] = NoClip \/ told[w])
    BY <1>1, <1>2, <1>3, <1>5 DEF WindowInv, Holds, Explained, ConvertsTheConfigured
  <2>4. WindowInv(w)'
    BY <1>3, <1>5, <2>1, <2>3, SettledIsExplained
  <2>5. QED
    BY <2>2, <2>4, OwnStep
<1>6. QED
  BY <1>4, <1>5

LEMMA OpenWindowKeeps == ASSUME ClipInv, NEW w \in Windows, OpenWindow(w) PROVE ClipInv'
<1>1. stored \in Settings
  BY DEF ClipInv, Shapes
<1>2. QED
  BY <1>1, RestoreKeeps DEF OpenWindow

LEMMA FpsAutoKeeps == ASSUME ClipInv, NEW w \in Windows, FpsAuto(w) PROVE ClipInv'
<1>1. prefs[w] \in Settings /\ prefs' = [prefs EXCEPT ![w] = prefs[w]]
  BY DEF ClipInv, Shapes, FpsAuto
<1>2. QED
  BY <1>1, RestoreKeeps DEF FpsAuto

(* The window that goes takes its threads, and only its own, with it.      *)
LEMMA QuitKeeps == ASSUME ClipInv, NEW w \in Windows, Quit(w) PROVE ClipInv'
<1> DEFINE own == {x \in Threads : threads[x].of = w}
<1>1. Shapes
  BY DEF ClipInv
<1>2. /\ threads' = [x \in Threads |-> IF x \in own THEN Blank ELSE threads[x]]
      /\ converting' = [converting EXCEPT ![w] = 0] /\ up' = up \ {w}
      /\ playing' = [playing EXCEPT ![w] = NoClip] /\ told' = [told EXCEPT ![w] = FALSE]
      /\ UNCHANGED <<stored, prefs>>
  BY DEF Quit
<1>3. \A v \in Windows \ {w} : converting[v] # 0 => converting[v] \in Threads \ own
  <2> SUFFICES ASSUME NEW v \in Windows \ {w}, converting[v] # 0
               PROVE  converting[v] \in Threads \ own
    OBVIOUS
  <2>1. converting[v] \in Threads
    BY <1>1, SlotIsThread
  <2>2. threads[converting[v]].of = v
    BY DEF ClipInv, WindowInv, Holds
  <2>3. QED
    BY <2>1, <2>2
<1> HIDE DEF own
<1>4. threads' \in [Threads -> Records] /\ 0 \in 0..Slots
  BY <1>1, <1>2, BlankIsRecord, ClipConstants DEF Shapes
<1>5. OthersHold(w, threads', converting')
  BY <1>1, <1>2, <1>3 DEF OthersHold, Shapes
<1>6. Shapes' /\ OthersSame(w) /\ converting'[w] = 0 /\ w \notin up'
  BY <1>1, <1>2, <1>4 DEF Shapes, OthersSame
<1>7. WindowInv(w)'
  BY <1>6 DEF WindowInv
<1>8. QED
  BY <1>5, <1>6, <1>7, OwnStep

-----------------------------------------------------------------------------
(* The steps of a thread, and what a window hears of them.                 *)

(* A conversion that goes on is still of the clip, the window and the      *)
(* flag it was of; one that was cancelled is no window's.                  *)
LEMMA ThreadChangeKeeps ==
  ASSUME ClipInv, NEW x \in Threads, NEW t \in Records,
         threads' = [threads EXCEPT ![x] = t],
         \/ threads[x].cancelled
         \/ /\ t.clip = threads[x].clip /\ t.of = threads[x].of
            /\ t.cancelled = threads[x].cancelled,
         UNCHANGED <<up, prefs, converting, playing, told, stored>>
  PROVE  ClipInv'
<1>1. Shapes
  BY DEF ClipInv
<1>2. Shapes'
  BY <1>1 DEF Shapes
<1>3. ASSUME NEW v \in Windows PROVE WindowInv(v)'
  <2>1. WindowInv(v)
    BY DEF ClipInv
  <2>2. CASE converting[v] = 0
    BY <2>1, <2>2 DEF WindowInv, Explained, ConvertsTheConfigured
  <2>3. CASE converting[v] # 0
    <3>1. converting[v] \in Threads /\ v \in up /\ Holds(v)
      BY <1>1, <2>1, <2>3, SlotIsThread DEF WindowInv
    <3>2. threads'[converting[v]] = IF converting[v] = x THEN t ELSE threads[converting[v]]
      BY <1>1, <3>1 DEF Shapes
    <3>3. Holds(v)'
      BY <3>1, <3>2 DEF Holds
    <3>4. QED
      BY <2>3, <3>1, <3>3 DEF WindowInv, Explained, ConvertsTheConfigured, Holds
  <2>4. QED
    BY <2>2, <2>3
<1>4. QED
  BY <1>2, <1>3 DEF ClipInv

LEMMA BecomesKeeps ==
  ASSUME ClipInv, NEW x \in Threads, NEW does \in Places, Becomes(x, does),
         UNCHANGED <<windowVars, stored>>
  PROVE  ClipInv'
<1> DEFINE t == [threads[x] EXCEPT !.does = does]
<1>1. threads[x] \in Records
  BY DEF ClipInv, Shapes
<1>2. /\ t \in Records /\ t.clip = threads[x].clip /\ t.of = threads[x].of
      /\ t.cancelled = threads[x].cancelled
  BY <1>1 DEF Records
<1>3. threads' = [threads EXCEPT ![x] = t]
  BY DEF Becomes
<1> HIDE DEF t
<1>4. QED
  BY <1>2, <1>3, ThreadChangeKeeps DEF windowVars

LEMMA SendsKeeps ==
  ASSUME ClipInv, NEW x \in Threads, NEW does \in Places, NEW sent \in Seq(Reports),
         threads' = [threads EXCEPT ![x].sent = sent, ![x].does = does],
         UNCHANGED <<up, prefs, converting, playing, told, stored>>
  PROVE  ClipInv'
<1> DEFINE t == [[threads[x] EXCEPT !.sent = sent] EXCEPT !.does = does]
<1>1. threads[x] \in Records /\ threads \in [Threads -> Records]
  BY DEF ClipInv, Shapes
<1>2. /\ t \in Records /\ t.clip = threads[x].clip /\ t.of = threads[x].of
      /\ t.cancelled = threads[x].cancelled
  BY <1>1 DEF Records
<1>3. threads' = [threads EXCEPT ![x] = t]
  BY <1>1
<1> HIDE DEF t
<1>4. QED
  BY <1>2, <1>3, ThreadChangeKeeps

LEMMA ExitsKeeps ==
  ASSUME ClipInv, NEW x \in Threads, threads[x].cancelled, Exits(x),
         UNCHANGED <<windowVars, stored>>
  PROVE  ClipInv'
BY BlankIsRecord, ThreadChangeKeeps DEF Exits, windowVars

LEMMA ThreadStepKeeps == ASSUME ClipInv, NEW x \in Threads, ThreadStep(x) PROVE ClipInv'
<1>1. UNCHANGED <<windowVars, stored>> /\ threads[x].sent \in Seq(Reports)
  BY DEF ThreadStep, ClipInv, Shapes, Records
<1>2. CASE \E does \in Places : Becomes(x, does)
  BY <1>1, <1>2, BecomesKeeps
<1>3. CASE threads[x].cancelled /\ Exits(x)
  BY <1>1, <1>3, ExitsKeeps
<1>4. CASE threads' = [threads EXCEPT ![x].does = "streaming", ![x].sent = Append(@, "progress")]
  <2>1. Append(threads[x].sent, "progress") \in Seq(Reports) /\ "streaming" \in Places
    BY <1>1 DEF Reports, Places
  <2>2. threads' = [threads EXCEPT ![x].sent = Append(threads[x].sent, "progress"),
                                   ![x].does = "streaming"]
    BY <1>4 DEF ClipInv, Shapes, Records
  <2>3. QED
    BY <1>1, <2>1, <2>2, SendsKeeps DEF windowVars
<1>5. CASE /\ threads[x].does \in {"done", "failed"}
           /\ threads' = [threads EXCEPT ![x].sent = Append(@, threads[x].does),
                                         ![x].does = "gone"]
  <2>1. Append(threads[x].sent, threads[x].does) \in Seq(Reports) /\ "gone" \in Places
    BY <1>1, <1>5 DEF Reports, Places
  <2>2. QED
    BY <1>1, <1>5, <2>1, SendsKeeps DEF windowVars
<1>6. QED
  <2> USE DEF Places
  <2>1. CASE BeginConvert(x) \/ Probe(x) \/ StreamFrame(x)
    BY <1>2, <1>3, <2>1 DEF BeginConvert, Probe, StreamFrame
  <2>2. CASE TellProgress(x) \/ Commit(x) \/ Report(x)
    BY <1>2, <1>3, <1>4, <1>5, <2>2 DEF TellProgress, Commit, Report
  <2>3. QED
    BY <2>1, <2>2 DEF ThreadStep

LEMMA DrainConversionKeeps ==
  ASSUME ClipInv, NEW w \in Windows, DrainConversion(w)
  PROVE  ClipInv'
<1> DEFINE x == converting[w]
           reported == threads[x].sent
<1>1. /\ x # 0 /\ UNCHANGED <<up, prefs, stored>>
      /\ \/ /\ threads' = [threads EXCEPT ![x].sent = << >>]
            /\ UNCHANGED <<converting, playing, told>>
         \/ /\ forget_conversion(w) /\ told' = [told EXCEPT ![w] = TRUE]
            /\ playing' = playing \/ LoadFails(w)
         \/ forget_conversion(w) /\ Loads(w, threads[x].clip)
  BY DEF DrainConversion
<1>2. Shapes /\ x \in Threads /\ threads[x] \in Records
  BY <1>1, SlotIsThread DEF ClipInv
<1>3. Holds(w) /\ w \in up
  BY <1>1 DEF ClipInv, WindowInv
<1>4. CASE /\ threads' = [threads EXCEPT ![x].sent = << >>]
           /\ UNCHANGED <<converting, playing, told>>
  <2> DEFINE none == << >>
             t == [threads[x] EXCEPT !.sent = none]
  <2>1. none \in Seq(Reports)
    OBVIOUS
  <2>2. threads' = [threads EXCEPT ![x] = t]
    BY <1>4
  <2> HIDE DEF none
  <2>3. /\ t \in Records /\ t.clip = threads[x].clip /\ t.of = threads[x].of
        /\ t.cancelled = threads[x].cancelled
    BY <1>2, <2>1 DEF Records
  <2> HIDE DEF t
  <2>4. QED
    BY <1>1, <1>2, <1>4, <2>2, <2>3, ThreadChangeKeeps
<1>5. CASE forget_conversion(w) /\ DOMAIN playing' = Windows /\ DOMAIN told' = Windows
           /\ (\A v \in Windows \ {w} : playing'[v] = playing[v] /\ told'[v] = told[v])
           /\ (told'[w] \/ playing'[w] = prefs[w])
  <2>1. /\ threads' \in [Threads -> Records] /\ converting' \in [Windows -> 0..Slots]
        /\ OthersHold(w, threads', converting') /\ converting'[w] = 0
    BY <1>5, ForgetLeavesOthers
  <2>2. Shapes' /\ OthersSame(w)
    BY <1>1, <1>2, <1>5, <2>1 DEF Shapes, OthersSame
  <2>3. prefs'[w] = prefs[w] /\ prefs[w].video # Off
    BY <1>1, <1>3 DEF Holds
  <2>4. WindowInv(w)'
    BY <1>5, <2>1, <2>3, SettledIsExplained
  <2>5. QED
    BY <2>1, <2>2, <2>4, OwnStep
<1>6. CASE /\ forget_conversion(w) /\ told' = [told EXCEPT ![w] = TRUE]
           /\ playing' = playing \/ LoadFails(w)
  BY <1>2, <1>5, <1>6 DEF Shapes, LoadFails
<1>7. CASE forget_conversion(w) /\ Loads(w, threads[x].clip)
  <2>1. playing' = [playing EXCEPT ![w] = prefs[w]] /\ told' = [told EXCEPT ![w] = FALSE]
    BY <1>3, <1>7 DEF Holds, Loads
  <2>2. QED
    BY <1>2, <1>5, <1>7, <2>1 DEF Shapes
<1>8. QED
  BY <1>1, <1>4, <1>6, <1>7

LEMMA PlaybackFailsKeeps ==
  ASSUME ClipInv, NEW w \in Windows, PlaybackFails(w)
  PROVE  ClipInv'
<1>1. Shapes /\ WindowInv(w)
  BY DEF ClipInv
<1>2. /\ playing' = [playing EXCEPT ![w] = NoClip] /\ told' = [told EXCEPT ![w] = TRUE]
      /\ UNCHANGED <<up, prefs, converting, stored, threads>>
  BY DEF PlaybackFails, diskVars
<1>3. Shapes' /\ OthersSame(w) /\ OthersHold(w, threads', converting') /\ told'[w]
  BY <1>1, <1>2 DEF Shapes, OthersSame, OthersHold
<1>4. WindowInv(w)'
  BY <1>1, <1>2, <1>3 DEF WindowInv, Holds, Explained, ConvertsTheConfigured
<1>5. QED
  BY <1>3, <1>4, OwnStep

LEMMA NextClipInv == ClipInv /\ [DashboardNext]_vars => ClipInv'
<1> SUFFICES ASSUME ClipInv, [DashboardNext]_vars PROVE ClipInv'
  OBVIOUS
<1>1. ClipNext \/ UNCHANGED clipVars
  BY DEF DashboardNext, OnlyChat, OnlyLaunch, OnlyLive, OnlyClip, DrainShown, NoPage, Worker, vars
<1>2. CASE UNCHANGED clipVars
  BY <1>2 DEF clipVars, windowVars, diskVars, ClipInv, Shapes, WindowInv, Holds, Explained,
              ConvertsTheConfigured
<1>3. CASE ClipNext
  BY <1>3, OpenWindowKeeps, QuitKeeps, VideoChosenKeeps, VideoClearedKeeps, CycleQualityKeeps,
     FpsAutoKeeps, DrainConversionKeeps, PlaybackFailsKeeps, ThreadStepKeeps DEF ClipNext
<1>4. QED
  BY <1>1, <1>2, <1>3

KnownWindows == up \subseteq Windows

LEMMA NextKnown == KnownWindows /\ [DashboardNext]_vars => KnownWindows'
<1> SUFFICES ASSUME KnownWindows, [DashboardNext]_vars PROVE KnownWindows'
  OBVIOUS
<1> USE DEF KnownWindows
<1>1. ClipNext \/ UNCHANGED clipVars
  BY DEF DashboardNext, OnlyChat, OnlyLaunch, OnlyLive, OnlyClip, DrainShown, NoPage, Worker,
         vars
<1>2. CASE UNCHANGED clipVars
  BY <1>2 DEF clipVars, windowVars
<1>3. CASE ClipNext
  BY <1>3 DEF ClipNext, OpenWindow, Quit, VideoChosen, VideoCleared, CycleQuality, FpsAuto,
              DrainConversion, PlaybackFails, ThreadStep, windowVars
<1>4. QED
  BY <1>1, <1>2, <1>3

(* Every window that runs shows the background it is set to, converts it,  *)
(* or said what went wrong, whatever the other windows, sweeps of the      *)
(* shared directory and superseded conversions do.                         *)
THEOREM BackgroundIsExplained == DashboardSpec => []BackgroundExplained
<1>1. ClipInv /\ KnownWindows => BackgroundExplained
  BY DEF ClipInv, WindowInv, Explained, BackgroundExplained, KnownWindows
<1>2. DashboardInit => KnownWindows
  BY DEF DashboardInit, ClipInit, KnownWindows
<1>3. QED
  BY <1>1, <1>2, NextKnown, InitClipInv, NextClipInv, PTL DEF DashboardSpec

-----------------------------------------------------------------------------
(* Types: the player, the cache directory, and the channels of the threads. *)

ClipCases == \/ \E w \in Windows :
                  \/ OpenWindow(w) \/ Quit(w) \/ VideoChosen(w) \/ VideoCleared(w)
                  \/ CycleQuality(w) \/ FpsAuto(w) \/ DrainConversion(w) \/ PlaybackFails(w)
             \/ \E x \in Threads : ThreadStep(x)
             \/ UNCHANGED clipVars

LEMMA ClipStep == ASSUME [DashboardNext]_vars PROVE ClipCases
BY DEF DashboardNext, OnlyChat, OnlyLaunch, OnlyLive, OnlyClip, DrainShown, NoPage, Worker,
       vars, ClipNext, ClipCases

PlayerInv == playing \in [Windows -> Clips \cup {NoClip}] /\ told \in [Windows -> BOOLEAN]

(* What a window puts on is a clip, and what it was told is yes or no.     *)
Puts(w) == playing' = playing \/ \E c \in Clips \cup {NoClip} : playing' = [playing EXCEPT ![w] = c]
Tells(w) == told' = told \/ \E b \in BOOLEAN : told' = [told EXCEPT ![w] = b]

LEMMA StartTells ==
  ASSUME NEW w \in Windows, NEW c, start_background_conversion(w, c)
  PROVE  Tells(w)
BY DEF start_background_conversion, Tells

LEMMA RestorePuts ==
  ASSUME NEW w \in Windows, NEW c \in Settings, restore_background(w, c)
  PROVE  Puts(w) /\ Tells(w)
<1>1. c.video # Off => c \in Clips
  BY NoClipsChoice
<1>2. Tells(w)
  BY StartTells DEF restore_background, Loads, Tells
<1>3. Puts(w)
  BY <1>1 DEF restore_background, Loads, LoadFails, Puts
<1>4. QED
  BY <1>2, <1>3

LEMMA WindowPuts ==
  ASSUME ClipInv, NEW w \in Windows,
         \/ OpenWindow(w) \/ Quit(w) \/ VideoChosen(w) \/ VideoCleared(w)
         \/ CycleQuality(w) \/ FpsAuto(w) \/ DrainConversion(w) \/ PlaybackFails(w)
  PROVE  Puts(w) /\ Tells(w)
<1>1. stored \in Settings /\ prefs[w] \in Settings
  BY DEF ClipInv, Shapes
<1>2. CASE OpenWindow(w) \/ FpsAuto(w)
  BY <1>1, <1>2, RestorePuts DEF OpenWindow, FpsAuto
<1>3. CASE Quit(w) \/ PlaybackFails(w)
  BY <1>3 DEF Quit, PlaybackFails, Puts, Tells
<1>4. CASE VideoChosen(w)
  BY <1>4, StartTells DEF VideoChosen, set_background_video, Puts
<1>5. CASE VideoCleared(w)
  BY <1>5 DEF VideoCleared, clear_background_video, Puts, Tells
<1>6. CASE CycleQuality(w)
  <2>1. \/ UNCHANGED <<playing, told>>
        \/ /\ playing' = [playing EXCEPT ![w] = NoClip]
           /\ \E c : start_background_conversion(w, c)
    BY <1>6 DEF CycleQuality
  <2>2. QED
    BY <2>1, StartTells DEF Puts, Tells
<1>7. CASE DrainConversion(w)
  <2>1. threads[converting[w]].clip \in Clips \cup {NoClip}
    BY <1>7, SlotIsThread DEF DrainConversion, ClipInv, Records
  <2>2. QED
    BY <1>7, <2>1 DEF DrainConversion, Loads, LoadFails, Puts, Tells
<1>8. QED
  BY <1>2, <1>3, <1>4, <1>5, <1>6, <1>7

LEMMA NextPlayerInv ==
  ASSUME ClipInv, PlayerInv, [DashboardNext]_vars
  PROVE  PlayerInv'
<1>1. CASE UNCHANGED <<playing, told>>
  BY <1>1 DEF PlayerInv
<1>2. ASSUME NEW w \in Windows, Puts(w), Tells(w) PROVE PlayerInv'
  <2>1. playing' \in [Windows -> Clips \cup {NoClip}]
    BY <1>2 DEF Puts, PlayerInv
  <2>2. told' \in [Windows -> BOOLEAN]
    BY <1>2 DEF Tells, PlayerInv
  <2>3. QED
    BY <2>1, <2>2 DEF PlayerInv
<1>3. QED
  BY <1>1, <1>2, ClipStep, WindowPuts DEF ClipCases, ThreadStep, clipVars, windowVars

-----------------------------------------------------------------------------

CacheInv == cached \in [Clips -> {"absent", "whole", "broken"}] /\ scratch \subseteq Threads

LEMMA RestoreKeepsCache ==
  ASSUME CacheInv, NEW w, NEW c, restore_background(w, c)
  PROVE  CacheInv'
BY DEF restore_background, Loads, LoadFails, Sweep, CacheInv

LEMMA NextCacheInv ==
  ASSUME CacheInv, [DashboardNext]_vars
  PROVE  CacheInv'
<1>1. ASSUME NEW w \in Windows, OpenWindow(w) \/ FpsAuto(w) PROVE CacheInv'
  BY <1>1, RestoreKeepsCache DEF OpenWindow, FpsAuto
<1>2. ASSUME NEW w \in Windows, DrainConversion(w) PROVE CacheInv'
  BY <1>2 DEF DrainConversion, Loads, LoadFails, Sweep, CacheInv
<1>3. ASSUME NEW w \in Windows, Quit(w) PROVE CacheInv'
  BY <1>3 DEF Quit, CacheInv
<1>4. ASSUME NEW w \in Windows,
             VideoChosen(w) \/ VideoCleared(w) \/ CycleQuality(w) \/ PlaybackFails(w)
      PROVE  CacheInv'
  BY <1>4 DEF VideoChosen, set_background_video, VideoCleared, clear_background_video,
              CycleQuality, PlaybackFails, diskVars, CacheInv
<1>5. ASSUME NEW x \in Threads, ThreadStep(x) PROVE CacheInv'
  BY <1>5 DEF ThreadStep, BeginConvert, Probe, StreamFrame, TellProgress, Commit, Report,
              CacheInv
<1>6. CASE UNCHANGED clipVars
  BY <1>6 DEF clipVars, diskVars, CacheInv
<1>7. QED
  BY <1>1, <1>2, <1>3, <1>4, <1>5, <1>6, ClipStep DEF ClipCases

-----------------------------------------------------------------------------
(* A thread's channel is bounded: it sends into room, or not at all.       *)

Roomy(t) == Len(t.sent) <= ReportCap
ChannelInv == \A x \in Threads : Roomy(threads[x])

LEMMA FreshIsRoomy == \A c, w, does : Roomy(Conversion(c, w, does)) /\ Roomy(Blank)
<1>1. Len(<< >>) <= ReportCap
  BY ClipConstants
<1>2. QED
  BY <1>1 DEF Roomy, Conversion, Blank

LEMMA LetGoRoomy ==
  ASSUME Shapes, ChannelInv, NEW w \in Windows
  PROVE  \A x \in Threads : Roomy(LetGo(w)[x])
<1>1. CASE converting[w] = 0
  BY <1>1 DEF LetGo, ChannelInv
<1>2. CASE converting[w] # 0
  <2> DEFINE y == converting[w]
             t == IF threads[y].does = "gone" THEN Blank
                  ELSE [threads[y] EXCEPT !.cancelled = TRUE]
  <2>1. y \in Threads /\ threads[y] \in Records
    BY <1>2, SlotIsThread
  <2>2. LetGo(w) = [threads EXCEPT ![y] = t]
    BY <1>2 DEF LetGo
  <2>3. Roomy(t)
    BY <2>1, FreshIsRoomy DEF Records, Roomy, ChannelInv
  <2> HIDE DEF t
  <2>4. QED
    BY <2>1, <2>2, <2>3 DEF Shapes, ChannelInv
<1>3. QED
  BY <1>1, <1>2

LEMMA StartKeepsRoom ==
  ASSUME ClipInv, ChannelInv, NEW w \in Windows, NEW c, start_background_conversion(w, c)
  PROVE  ChannelInv'
<1>1. CASE threads' = threads
  BY <1>1 DEF ChannelInv
<1>2. CASE threads' = LetGo(w)
  BY <1>2, LetGoRoomy DEF ChannelInv, Roomy, ClipInv
<1>3. CASE spawn_convert(w, c)
  <2>1. PICK x \in Free, does \in {"starting", "gone"} :
          threads' = [LetGo(w) EXCEPT ![x] = Conversion(c, w, does)]
    BY <1>3 DEF spawn_convert
  <2>2. LetGo(w) \in [Threads -> Records] /\ \A y \in Threads : Roomy(LetGo(w)[y])
    BY LetGoLeavesOthers, LetGoRoomy DEF ClipInv
  <2>3. Roomy(Conversion(c, w, does))
    BY FreshIsRoomy
  <2>4. QED
    BY <2>1, <2>2, <2>3 DEF ChannelInv, Roomy
<1>4. QED
  BY <1>1, <1>2, <1>3 DEF start_background_conversion, forget_conversion

LEMMA ForgetKeepsRoom ==
  ASSUME ClipInv, ChannelInv, NEW w \in Windows, forget_conversion(w)
  PROVE  ChannelInv'
BY LetGoRoomy DEF forget_conversion, ChannelInv, Roomy, ClipInv

LEMMA ThreadKeepsRoom ==
  ASSUME ClipInv, ChannelInv, NEW x \in Threads, ThreadStep(x)
  PROVE  ChannelInv'
<1>1. threads \in [Threads -> Records] /\ threads[x] \in Records /\ Roomy(threads[x])
  BY DEF ClipInv, Shapes, ChannelInv
<1>2. ASSUME NEW t, Roomy(t), threads' = [threads EXCEPT ![x] = t] PROVE ChannelInv'
  BY <1>1, <1>2 DEF ChannelInv, Roomy
<1>3. CASE threads' = [threads EXCEPT ![x] = Blank]
  BY <1>2, <1>3, FreshIsRoomy
<1>4. ASSUME NEW does, threads' = [threads EXCEPT ![x].does = does] PROVE ChannelInv'
  <2> DEFINE t == [threads[x] EXCEPT !.does = does]
  <2>1. Roomy(t)
    BY <1>1 DEF Roomy, Records
  <2>2. threads' = [threads EXCEPT ![x] = t]
    BY <1>4
  <2>3. QED
    BY <1>2, <2>1, <2>2
<1>5. ASSUME NEW does, NEW word \in Reports, Len(threads[x].sent) < ReportCap,
             threads' = [threads EXCEPT ![x].does = does,
                                        ![x].sent = Append(threads[x].sent, word)]
      PROVE  ChannelInv'
  <2> DEFINE longer == Append(threads[x].sent, word)
             t == [threads[x] EXCEPT !.does = does, !.sent = longer]
  <2>1. threads[x].sent \in Seq(Reports)
    BY <1>1 DEF Records
  <2>2. Len(longer) = Len(threads[x].sent) + 1 /\ Len(threads[x].sent) \in Nat
    BY <2>1
  <2>3. Len(longer) <= ReportCap
    BY <1>5, <2>2, ClipConstants
  <2>4. threads' = [threads EXCEPT ![x] = t]
    BY <1>1, <1>5
  <2> HIDE DEF longer
  <2>5. t.sent = longer
    BY <1>1 DEF Records
  <2>6. Roomy(t)
    BY <2>3, <2>5 DEF Roomy
  <2>7. QED
    BY <1>2, <2>4, <2>6
<1>6. CASE BeginConvert(x) \/ Probe(x) \/ StreamFrame(x) \/ Commit(x)
  BY <1>3, <1>4, <1>6 DEF BeginConvert, Probe, StreamFrame, Commit, Becomes, Exits
<1>7. CASE TellProgress(x)
  <2>1. "progress" \in Reports
    BY DEF Reports
  <2>2. QED
    BY <1>4, <1>5, <1>7, <2>1 DEF TellProgress, Becomes
<1>8. CASE Report(x)
  <2>1. threads[x].does \in Reports
    BY <1>8 DEF Report, Reports
  <2>2. CASE Exits(x)
    BY <1>3, <2>2 DEF Exits
  <2>3. CASE /\ Len(threads[x].sent) < ReportCap
             /\ threads' = [threads EXCEPT ![x].sent = Append(threads[x].sent, threads[x].does),
                                           ![x].does = "gone"]
    <3>1. threads' = [threads EXCEPT ![x].does = "gone",
                                     ![x].sent = Append(threads[x].sent, threads[x].does)]
      BY <1>1, <2>3 DEF Records
    <3>2. QED
      BY <1>5, <2>1, <2>3, <3>1
  <2>4. QED
    BY <1>8, <2>2, <2>3 DEF Report
<1>9. QED
  BY <1>6, <1>7, <1>8 DEF ThreadStep

LEMMA NextChannelInv ==
  ASSUME ClipInv, ChannelInv, [DashboardNext]_vars
  PROVE  ChannelInv'
<1>1. Shapes
  BY DEF ClipInv
<1>2. CASE UNCHANGED threads
  BY <1>2 DEF ChannelInv
<1>3. ASSUME NEW w \in Windows, OpenWindow(w) \/ FpsAuto(w) PROVE ChannelInv'
  <2>1. PICK c : restore_background(w, c)
    BY <1>3 DEF OpenWindow, FpsAuto
  <2>2. QED
    BY <1>2, <2>1, StartKeepsRoom, ForgetKeepsRoom DEF restore_background
<1>4. ASSUME NEW w \in Windows, Quit(w) PROVE ChannelInv'
  <2>1. \A x \in Threads : threads'[x] \in {Blank, threads[x]}
    BY <1>4 DEF Quit
  <2>2. QED
    BY <2>1, FreshIsRoomy DEF ChannelInv, Roomy
<1>5. ASSUME NEW w \in Windows, VideoChosen(w) \/ CycleQuality(w) PROVE ChannelInv'
  BY <1>2, <1>5, StartKeepsRoom DEF VideoChosen, set_background_video, CycleQuality
<1>6. ASSUME NEW w \in Windows, VideoCleared(w) PROVE ChannelInv'
  BY <1>6, ForgetKeepsRoom DEF VideoCleared, clear_background_video
<1>7. ASSUME NEW w \in Windows, DrainConversion(w) PROVE ChannelInv'
  <2> DEFINE x == converting[w]
             none == << >>
             t == [threads[x] EXCEPT !.sent = none]
  <2>1. CASE forget_conversion(w)
    BY <2>1, ForgetKeepsRoom
  <2>2. CASE threads' = [threads EXCEPT ![x].sent = << >>]
    <3>1. x \in Threads /\ threads[x] \in Records
      BY <1>1, <1>7, SlotIsThread DEF DrainConversion
    <3>2. Len(none) <= ReportCap
      BY ClipConstants
    <3>3. threads' = [threads EXCEPT ![x] = t]
      BY <2>2
    <3> HIDE DEF none
    <3>4. t.sent = none
      BY <3>1 DEF Records
    <3> HIDE DEF t
    <3>5. QED
      BY <1>1, <3>1, <3>2, <3>3, <3>4 DEF ChannelInv, Roomy, Shapes
  <2>3. QED
    BY <1>7, <2>1, <2>2 DEF DrainConversion
<1>8. ASSUME NEW w \in Windows, PlaybackFails(w) PROVE ChannelInv'
  BY <1>2, <1>8 DEF PlaybackFails
<1>9. QED
  BY <1>2, <1>3, <1>4, <1>5, <1>6, <1>7, <1>8, ThreadKeepsRoom, ClipStep
  DEF ClipCases, clipVars

-----------------------------------------------------------------------------

ClipTypesInv == ClipInv /\ KnownWindows /\ PlayerInv /\ CacheInv /\ ChannelInv

LEMMA ClipTypesFollow == ASSUME ClipTypesInv PROVE ClipTypeOK
<1>1. /\ up \subseteq Windows /\ stored \in Settings /\ prefs \in [Windows -> Settings]
      /\ converting \in [Windows -> 0..Slots]
      /\ playing \in [Windows -> Clips \cup {NoClip}] /\ told \in [Windows -> BOOLEAN]
      /\ cached \in [Clips -> {"absent", "whole", "broken"}] /\ scratch \subseteq Threads
  BY DEF ClipTypesInv, ClipInv, Shapes, KnownWindows, PlayerInv, CacheInv
<1>2. ASSUME NEW x \in Threads
      PROVE  /\ threads[x].clip \in Clips \cup {NoClip} /\ threads[x].of \in Windows \cup {Off}
             /\ threads[x].cancelled \in BOOLEAN /\ threads[x].does \in Places
             /\ Len(threads[x].sent) <= ReportCap
  <2>1. threads[x] \in Records /\ Roomy(threads[x])
    BY DEF ClipTypesInv, ClipInv, Shapes, ChannelInv
  <2>2. QED
    BY <2>1 DEF Records, Roomy
<1>3. QED
  BY <1>1, <1>2, Zenon DEF ClipTypeOK, Places

(* The windows, their settings and players, the shared directory and the   *)
(* threads have their types, and no thread's channel is over its capacity. *)
THEOREM ClipTypes == DashboardSpec => []ClipTypeOK
<1>1. DashboardInit => ClipTypesInv
  <2> SUFFICES ASSUME DashboardInit PROVE ClipTypesInv
    OBVIOUS
  <2>1. ClipInit
    BY DEF DashboardInit
  <2>2. KnownWindows /\ PlayerInv /\ CacheInv
    BY <2>1 DEF ClipInit, KnownWindows, PlayerInv, CacheInv
  <2>3. ChannelInv
    BY <2>1, FreshIsRoomy DEF ClipInit, ChannelInv
  <2>4. QED
    BY <2>2, <2>3, InitClipInv DEF ClipTypesInv
<1>2. ClipTypesInv /\ [DashboardNext]_vars => ClipTypesInv'
  BY NextClipInv, NextKnown, NextPlayerInv, NextCacheInv, NextChannelInv DEF ClipTypesInv
<1>3. ClipTypesInv => ClipTypeOK
  BY ClipTypesFollow
<1>4. QED
  BY <1>1, <1>2, <1>3, PTL DEF DashboardSpec
=============================================================================
