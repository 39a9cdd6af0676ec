--------------------------- MODULE Manager_proofs ---------------------------
(* What the manager shows: proofs about the root window and its wallpaper, its *)
(* own drawins, and the screens and what they have to do with the monitors.    *)
EXTENDS Wallpaper, Drawins, Screens, EventQueues, Functions

-----------------------------------------------------------------------------
(* The wallpaper on record is the published one, and no pixmap leaks, for any *)
(* number of pixmaps, of programs that set the wallpaper, and of calls nested *)
(* in handlers of wallpaper_changed.                                          *)
USE DEF paperVars

Setting == [pixmap : Own, at : At]

PaperTypes ==
    /\ {xroot, esetroot, wallpaper} \subseteq Own \cup Foreign \cup {NoPixmap}
    /\ alive \subseteq Own \cup Foreign
    /\ conn \in [Own -> {"none", "open", "retain", "closed", "kept"}]
    /\ settings \in Seq(Setting)
    /\ events \in Nat /\ reading \in Own \cup Foreign \cup {NoPixmap, "no"}

\* what the innermost call of root_set_wallpaper has done last
Inside(s) == settings # <<>> /\ settings[Len(settings)].at = s

\* the other calls wait for their handlers of wallpaper_changed, and no
\* property is being read
OthersTold ==
    /\ \A i \in 1..(Len(settings) - 1) : settings[i].at = "told"
    /\ reading # "no" => settings = <<>>

\* A pixmap that this program paints is not published yet; one that it
\* published in _XROOTPMAP_ID is in both properties and exists.
Publication ==
    /\ \A p \in Own : conn[p] = "none" => p \notin alive /\ p # esetroot
    /\ Inside("painted") => conn[Pixmap] = "open" /\ Pixmap \in alive /\ Pixmap # esetroot
    /\ xroot \in Own => xroot = esetroot /\ xroot \in alive

\* Connections other than that of the pixmap being painted, and pixmaps that
\* were left behind, are those of ESETROOT_PMAP_ID, where they are found and killed.
Findable ==
    /\ \A p \in Own : conn[p] = "retain" => p = esetroot
    /\ \A p \in Own : conn[p] = "open" => p = esetroot \/ (Inside("painted") /\ p = Pixmap)
    /\ \A p \in Own : conn[p] = "closed" /\ p \in alive => p = esetroot
    /\ Inside("retained") => conn[Pixmap] # "open"

\* What is on record is published, unless an event is on its way, the property
\* is being read or the new wallpaper is about to be recorded.
Recorded ==
    /\ reading # "no" /\ events = 0 => reading = xroot
    /\ Inside("published") => xroot = Pixmap \/ events > 0
    /\ reading = "no" /\ events = 0 /\ xroot \in alive /\ ~Inside("published") => wallpaper = xroot

PaperInv == PaperTypes /\ OthersTold /\ Publication /\ Findable /\ Recorded

-----------------------------------------------------------------------------
(* The stack of calls *)

\* The innermost call goes on, and the others wait.
LEMMA StepFrames ==
    ASSUME PaperTypes, OthersTold, NEW from, NEW to \in At, Step(from, to)
    PROVE  /\ settings' \in Seq(Setting) /\ settings' # <<>> /\ Inside(from)
           /\ Pixmap \in Own /\ Pixmap' = Pixmap
           /\ settings'[Len(settings')].at = to
           /\ \A i \in 1..(Len(settings') - 1) : settings'[i].at = "told"
<1> DEFINE n == Len(settings)
           f == [settings[n] EXCEPT !.at = to]
<1>1. settings \in Seq(Setting) /\ settings # <<>> /\ n \in Nat \ {0} /\ n \in 1..n /\ DOMAIN settings = 1..n
  BY DEF PaperTypes, Step
<1>2. settings[n] \in Setting
  BY <1>1
<1>3. f \in Setting /\ f.pixmap = settings[n].pixmap /\ f.at = to
  BY <1>2 DEF Setting
<1>4. settings' = [settings EXCEPT ![n] = f]
  BY DEF Step
<1> HIDE DEF f
<1>5. settings' \in Seq(Setting) /\ Len(settings') = n /\ settings'[n] = f
      /\ \A i \in DOMAIN settings : i # n => settings'[i] = settings[i]
  BY <1>1, <1>3, <1>4, TopCall
<1> QED BY <1>1, <1>2, <1>3, <1>5 DEF Pixmap, Inside, Setting, OthersTold, Step

\* A new call begins when the innermost one runs its handlers.
LEMMA PushFrames ==
    ASSUME PaperTypes, OthersTold, LuaRuns, NEW p \in Own,
           settings' = Append(settings, [pixmap |-> p, at |-> "painted"])
    PROVE  /\ settings' \in Seq(Setting) /\ settings' # <<>>
           /\ Pixmap' = p /\ settings'[Len(settings')].at = "painted"
           /\ \A i \in 1..(Len(settings') - 1) : settings'[i].at = "told"
           /\ settings = <<>> \/ Inside("told")
<1> DEFINE n == Len(settings)
           f == [pixmap |-> p, at |-> "painted"]
<1>1. settings \in Seq(Setting) /\ n \in Nat /\ DOMAIN settings = 1..n
  BY DEF PaperTypes
<1>2. f \in Setting /\ f.pixmap = p /\ f.at = "painted"
  BY DEF Setting, At
<1> HIDE DEF f
<1>3. settings' \in Seq(Setting) /\ Len(settings') = n + 1 /\ settings'[n + 1] = f
      /\ \A i \in 1..n : settings'[i] = settings[i]
  BY <1>1, <1>2 DEF f
<1>4. settings' # <<>>
  BY <1>1, <1>3
<1>5. \A i \in 1..n : settings[i].at = "told"
  BY <1>1 DEF LuaRuns, OthersTold
<1>6. settings = <<>> \/ Inside("told")
  BY <1>1, <1>5 DEF Inside
<1> QED BY <1>1, <1>2, <1>3, <1>4, <1>5, <1>6 DEF Pixmap

\* When a call returns, the one whose handler made it is the innermost one.
LEMMA PopFrames ==
    ASSUME PaperTypes, OthersTold, settings # <<>>, settings' = SubSeq(settings, 1, Len(settings) - 1)
    PROVE  /\ settings' \in Seq(Setting) /\ Pixmap \in Own
           /\ \A i \in 1..Len(settings') : settings'[i].at = "told"
<1> DEFINE n == Len(settings)
<1>1. settings \in Seq(Setting) /\ n \in Nat \ {0} /\ n \in 1..n
  BY DEF PaperTypes
<1>2. \A i \in 1..(n - 1) : settings[i] \in Setting
  BY <1>1
<1>3. settings' \in Seq(Setting) /\ Len(settings') = n - 1 /\ \A i \in 1..(n - 1) : settings'[i] = settings[i]
  <2> DEFINE m == n - 1
  <2>1. m \in Nat
    BY <1>1
  <2>2. \A i \in 1..m : settings[i] \in Setting
    BY <1>2
  <2> HIDE DEF m
  <2>3. /\ SubSeq(settings, 1, m) \in Seq(Setting)
        /\ Len(SubSeq(settings, 1, m)) = IF 1 <= m THEN m - 1 + 1 ELSE 0
        /\ \A i \in 1..m - 1 + 1 : SubSeq(settings, 1, m)[i] = settings[1 + i - 1]
    BY <2>1, <2>2, SubSeqProperties
  <2>4. Len(SubSeq(settings, 1, m)) = m /\ \A i \in 1..m : SubSeq(settings, 1, m)[i] = settings[i]
    BY <2>1, <2>3
  <2> QED BY <2>3, <2>4 DEF m
<1>4. settings[n] \in Setting
  BY <1>1
<1> QED BY <1>1, <1>3, <1>4 DEF OthersTold, Pixmap, Setting

-----------------------------------------------------------------------------
(* root_set_wallpaper *)

LEMMA SetStep ==
    ASSUME PaperInv, NEW p \in Own, SetWallpaper(p)
    PROVE  PaperInv'
<1> USE DEF PaperInv
<1>1. /\ settings' \in Seq(Setting) /\ settings' # <<>> /\ Pixmap' = p
      /\ settings'[Len(settings')].at = "painted" /\ reading = "no"
      /\ \A i \in 1..(Len(settings') - 1) : settings'[i].at = "told"
      /\ settings = <<>> \/ Inside("told")
  BY PushFrames DEF SetWallpaper, LuaRuns
<1>2. /\ conn[p] = "none" /\ conn' = [conn EXCEPT ![p] = "open"] /\ alive' = alive \cup {p}
      /\ UNCHANGED <<xroot, esetroot, events, reading, wallpaper>>
  BY DEF SetWallpaper
<1>3. p \notin alive /\ p # esetroot /\ p # xroot
  BY <1>2 DEF Publication
<1>4. ~Inside("painted") /\ ~Inside("published")
  BY <1>1 DEF Inside
<1>5. PaperTypes' /\ OthersTold'
  BY <1>1, <1>2 DEF PaperTypes, OthersTold
<1>6. Inside("painted")' /\ ~Inside("published")' /\ ~Inside("retained")'
  BY <1>1 DEF Inside
<1>7. Publication'
  BY <1>1, <1>2, <1>3 DEF Publication, PaperTypes
<1>8. Findable'
  BY <1>1, <1>2, <1>3, <1>4, <1>6 DEF Findable, PaperTypes
<1>9. Recorded'
  BY <1>1, <1>2, <1>3, <1>4, <1>6 DEF Recorded
<1> QED BY <1>5, <1>7, <1>8, <1>9

\* Whoever publishes kills what was published: its pixmap goes, or its
\* connection is no longer to be found.
LEMMA KillTypes ==
    ASSUME PaperTypes, NEW q
    PROVE  /\ ConnKilled(q) \in [Own -> {"none", "open", "retain", "closed", "kept"}]
           /\ \A p \in Own : p # q => ConnKilled(q)[p] = conn[p]
           /\ q \in Own => ConnKilled(q)[q] = IF conn[q] = "retain" THEN "kept" ELSE "closed"
           /\ Killed(q) \subseteq {q}
           /\ ~(q \in Own /\ conn[q] = "retain") => Killed(q) = {q}
BY DEF PaperTypes, ConnKilled, Killed

LEMMA PublishStep ==
    ASSUME PaperInv, Publish
    PROVE  PaperInv'
<1> USE DEF PaperInv
<1>1. /\ settings' \in Seq(Setting) /\ settings' # <<>> /\ Inside("painted")
      /\ Pixmap \in Own /\ Pixmap' = Pixmap /\ settings'[Len(settings')].at = "published"
      /\ \A i \in 1..(Len(settings') - 1) : settings'[i].at = "told"
  BY StepFrames DEF Publish, At
<1>2. /\ xroot' = Pixmap /\ esetroot' = Pixmap /\ alive' = alive \ Killed(esetroot)
      /\ conn' = ConnKilled(esetroot) /\ UNCHANGED <<events, reading, wallpaper>>
  BY DEF Publish, Old
<1>3. conn[Pixmap] = "open" /\ Pixmap \in alive /\ Pixmap # esetroot
  BY <1>1 DEF Publication
<1>4. Inside("published")' /\ ~Inside("painted")' /\ ~Inside("retained")'
  BY <1>1 DEF Inside
<1>5. PaperTypes' /\ OthersTold'
  BY <1>1, <1>2, KillTypes DEF PaperTypes, OthersTold, Inside
<1>6. Publication'
  <2>1. \A p \in Own : conn'[p] = "none" => conn[p] = "none" /\ p # Pixmap
    BY <1>2, <1>3, KillTypes
  <2>2. Pixmap \in alive'
    BY <1>2, <1>3, KillTypes
  <2> QED BY <1>1, <1>2, <1>4, <2>1, <2>2 DEF Publication
<1>7. Findable'
  <2>1. \A p \in Own : conn'[p] \in {"open", "retain"} => p = Pixmap
    BY <1>2, KillTypes DEF Findable
  <2>2. \A p \in Own : conn'[p] = "closed" /\ p \in alive' => p = Pixmap
    BY <1>2, KillTypes DEF Findable
  <2> QED BY <1>2, <1>4, <2>1, <2>2 DEF Findable
<1>8. Recorded'
  BY <1>1, <1>2, <1>4 DEF Recorded, OthersTold, Inside
<1> QED BY <1>5, <1>6, <1>7, <1>8

LEMMA TellStep ==
    ASSUME PaperInv, Tell
    PROVE  PaperInv'
<1> USE DEF PaperInv
<1>1. /\ settings' \in Seq(Setting) /\ settings' # <<>> /\ Inside("published")
      /\ Pixmap \in Own /\ Pixmap' = Pixmap /\ settings'[Len(settings')].at = "told"
      /\ \A i \in 1..(Len(settings') - 1) : settings'[i].at = "told"
  BY StepFrames DEF Tell, At
<1>2. wallpaper' = Pixmap /\ UNCHANGED <<xroot, esetroot, alive, conn, events, reading>>
  BY DEF Tell
<1>3. ~Inside("painted") /\ ~Inside("published")' /\ ~Inside("painted")' /\ ~Inside("retained")'
  BY <1>1 DEF Inside
<1>4. PaperTypes' /\ OthersTold'
  BY <1>1, <1>2 DEF PaperTypes, OthersTold, Inside
<1>5. Publication' /\ Findable'
  BY <1>2, <1>3 DEF Publication, Findable
<1>6. Recorded'
  BY <1>1, <1>2, <1>3 DEF Recorded
<1> QED BY <1>4, <1>5, <1>6

LEMMA RetainStep ==
    ASSUME PaperInv, Retain
    PROVE  PaperInv'
<1> USE DEF PaperInv
<1>1. /\ settings' \in Seq(Setting) /\ settings' # <<>> /\ Inside("told")
      /\ Pixmap \in Own /\ Pixmap' = Pixmap /\ settings'[Len(settings')].at = "retained"
      /\ \A i \in 1..(Len(settings') - 1) : settings'[i].at = "told"
  BY StepFrames DEF Retain, At
<1>2. /\ conn' = [conn EXCEPT ![Pixmap] = IF @ = "open" THEN "retain" ELSE @]
      /\ UNCHANGED <<xroot, esetroot, alive, events, reading, wallpaper>>
  BY DEF Retain, Retained
<1>3. /\ ~Inside("painted") /\ ~Inside("published")
      /\ ~Inside("painted")' /\ ~Inside("published")' /\ Inside("retained")'
  BY <1>1 DEF Inside
<1>4. PaperTypes' /\ OthersTold'
  BY <1>1, <1>2 DEF PaperTypes, OthersTold, Inside
<1>5. \A p \in Own : conn'[p] = IF p = Pixmap /\ conn[p] = "open" THEN "retain" ELSE conn[p]
  BY <1>1, <1>2 DEF PaperTypes
<1>6. Publication'
  BY <1>2, <1>3, <1>5 DEF Publication
<1>7. Findable'
  BY <1>1, <1>2, <1>3, <1>5 DEF Findable
<1>8. Recorded'
  BY <1>2, <1>3 DEF Recorded
<1> QED BY <1>4, <1>6, <1>7, <1>8

LEMMA DisconnectStep ==
    ASSUME PaperInv, Disconnect
    PROVE  PaperInv'
<1> USE DEF PaperInv
<1>1. /\ settings' \in Seq(Setting) /\ Pixmap \in Own
      /\ \A i \in 1..Len(settings') : settings'[i].at = "told"
      /\ Inside("retained")
  BY PopFrames DEF Disconnect, Inside
<1>2. conn[Pixmap] # "open"
  BY <1>1 DEF Findable
<1>3. /\ alive' = alive /\ UNCHANGED <<xroot, esetroot, events, reading, wallpaper>>
      /\ conn' = [conn EXCEPT ![Pixmap] = IF @ \in {"open", "retain"} THEN "closed" ELSE @]
  BY <1>2 DEF Disconnect
<1>4. /\ ~Inside("painted") /\ ~Inside("published")
      /\ ~Inside("painted")' /\ ~Inside("published")' /\ ~Inside("retained")'
  <2>1. settings' # <<>> => Len(settings') \in 1..Len(settings')
    BY <1>1
  <2> QED BY <1>1, <2>1 DEF Inside
<1>5. PaperTypes' /\ OthersTold'
  BY <1>1, <1>3 DEF PaperTypes, OthersTold, Inside
<1>6. \A p \in Own : conn'[p] = IF p = Pixmap /\ conn[p] = "retain" THEN "closed" ELSE conn[p]
  BY <1>1, <1>2, <1>3 DEF PaperTypes
<1>7. Publication'
  BY <1>3, <1>4, <1>6 DEF Publication
<1>8. Findable'
  BY <1>3, <1>4, <1>6 DEF Findable
<1>9. Recorded'
  BY <1>3, <1>4 DEF Recorded
<1> QED BY <1>5, <1>7, <1>8, <1>9

-----------------------------------------------------------------------------
(* root_update_wallpaper, and other programs *)

LEMMA PropertyReadStep ==
    ASSUME PaperInv, HandleNotify \/ ReadGeometry
    PROVE  PaperInv'
<1> USE DEF PaperInv
<1>1. UNCHANGED <<xroot, esetroot, alive, conn, settings>> /\ settings = <<>>
  BY DEF HandleNotify, ReadProperty, ReadGeometry, OthersTold
<1>2. \A s \in At : ~Inside(s) /\ ~Inside(s)'
  BY <1>1 DEF Inside
<1>3. PaperTypes'
  BY <1>1 DEF PaperTypes, HandleNotify, ReadProperty, ReadGeometry
<1>4. OthersTold'
  BY <1>1 DEF OthersTold
<1>5. Publication' /\ Findable'
  BY <1>1, <1>2 DEF Publication, Findable, At
<1>6. Recorded'
  <2>1. CASE HandleNotify
    BY <1>2, <2>1, WallpaperAssumption DEF Recorded, HandleNotify, ReadProperty, PaperTypes, At
  <2>2. CASE ReadGeometry
    BY <1>1, <1>2, <2>2 DEF Recorded, ReadGeometry, At
  <2> QED BY <2>1, <2>2
<1> QED BY <1>3, <1>4, <1>5, <1>6

LEMMA ForeignStep ==
    ASSUME PaperInv, NEW f \in Foreign,
           ForeignSet(f) \/ ForeignShows(f) \/ ForeignEnds(f)
    PROVE  PaperInv'
<1> USE DEF PaperInv
<1>1. UNCHANGED <<settings, reading, wallpaper>> /\ f \notin Own
  BY WallpaperAssumption DEF ForeignSet, ForeignShows, ForeignEnds
<1>2. OthersTold' /\ Pixmap' = Pixmap /\ \A s \in At : Inside(s)' <=> Inside(s)
  BY <1>1 DEF OthersTold, Inside, Pixmap
<1>3. Inside("painted") => Pixmap \in Own
  <2>1. SUFFICES ASSUME settings # <<>> PROVE settings[Len(settings)] \in Setting
    BY DEF Inside, Pixmap, Setting
  <2> QED BY <2>1 DEF PaperTypes
<1>4. CASE ForeignSet(f)
  <2>1. /\ xroot' = f /\ esetroot' = f /\ events' = events + 1
        /\ alive' = alive \ Killed(esetroot) /\ conn' = ConnKilled(esetroot)
    BY <1>4 DEF ForeignSet
  <2>2. PaperTypes'
    BY <1>1, <2>1, KillTypes DEF PaperTypes
  <2>3. \A p \in Own : /\ conn'[p] = "none" => conn[p] = "none"
                       /\ conn'[p] = "retain" => FALSE
                       /\ conn'[p] = "open" => conn[p] = "open" /\ p # esetroot
                       /\ ~(conn'[p] = "closed" /\ p \in alive')
    BY <2>1, KillTypes DEF Findable
  <2>4. Inside("painted") => conn'[Pixmap] = "open" /\ Pixmap \in alive'
    BY <1>3, <2>1, KillTypes DEF Publication
  <2>5. Publication'
    BY <1>1, <1>2, <1>3, <2>1, <2>3, <2>4 DEF Publication, At
  <2>6. Inside("retained") => Pixmap \in Own
    <3>1. SUFFICES ASSUME settings # <<>> PROVE settings[Len(settings)] \in Setting
      BY DEF Inside, Pixmap, Setting
    <3> QED BY <3>1 DEF PaperTypes
  <2>7. Findable'
    BY <1>2, <2>3, <2>6 DEF Findable, At
  <2>8. Recorded'
    BY <1>1, <1>2, <2>1 DEF Recorded, PaperTypes, At
  <2> QED BY <1>2, <2>2, <2>5, <2>7, <2>8
<1>5. CASE ForeignShows(f)
  <2>1. xroot' = f /\ events' = events + 1 /\ UNCHANGED <<esetroot, alive, conn>>
    BY <1>5 DEF ForeignShows
  <2>2. PaperTypes'
    BY <1>1, <2>1 DEF PaperTypes
  <2>3. Publication' /\ Findable'
    BY <1>1, <1>2, <2>1 DEF Publication, Findable, At
  <2>4. Recorded'
    BY <1>1, <1>2, <2>1 DEF Recorded, PaperTypes, At
  <2> QED BY <1>2, <2>2, <2>3, <2>4
<1>6. CASE ForeignEnds(f)
  <2>1. alive' = alive \ {f} /\ UNCHANGED <<xroot, esetroot, conn, events>>
    BY <1>6 DEF ForeignEnds
  <2>2. PaperTypes'
    BY <1>1, <2>1 DEF PaperTypes
  <2>3. Publication' /\ Findable'
    BY <1>1, <1>2, <1>3, <2>1 DEF Publication, Findable, At
  <2>4. Recorded'
    BY <1>1, <1>2, <2>1 DEF Recorded, At
  <2> QED BY <1>2, <2>2, <2>3, <2>4
<1> QED BY <1>4, <1>5, <1>6

-----------------------------------------------------------------------------

LEMMA KeptByInvariant ==
    ASSUME PaperInv PROVE WallpaperKept
<1> USE DEF PaperInv
<1>1. WallpaperTypeOK
  <2>1. \A i \in DOMAIN settings : settings[i] \in Setting
    BY DEF PaperTypes
  <2> QED BY <2>1 DEF WallpaperTypeOK, PaperTypes, Setting
<1>2. ASSUME \A i \in DOMAIN settings : settings[i].at \in {"told", "retained"}
      PROVE  ~Inside("published")
  <2>1. settings # <<>> => Len(settings) \in DOMAIN settings
    BY DEF PaperTypes
  <2> QED BY <1>2, <2>1 DEF Inside
<1>3. reading = "no" /\ events = 0 /\ xroot \in alive
        /\ (\A i \in DOMAIN settings : settings[i].at \in {"told", "retained"}) => wallpaper = xroot
  BY <1>2 DEF Recorded
<1>4. xroot \in Own => xroot \in alive
  BY DEF Publication
<1>5. \A p \in Own \cap alive : conn[p] = "closed" => p = esetroot
  BY DEF Findable
<1> QED BY <1>1, <1>3, <1>4, <1>5 DEF WallpaperKept

\* The surface on record is the published wallpaper when nothing is on its way,
\* a pixmap that was published exists while it is, and no other one is left
\* behind, however calls nest and whoever else sets the wallpaper.
THEOREM WallpaperSafe == WallpaperSpec => []WallpaperKept
<1>1. WallpaperInit => PaperInv
  <2> SUFFICES ASSUME WallpaperInit PROVE PaperInv
    OBVIOUS
  <2>1. \A s \in At : ~Inside(s)
    BY DEF WallpaperInit, Inside
  <2>2. PaperTypes
    BY WallpaperAssumption DEF WallpaperInit, PaperTypes
  <2>3. OthersTold
    BY DEF WallpaperInit, OthersTold
  <2>4. Publication /\ Findable
    BY <2>1, WallpaperAssumption DEF WallpaperInit, Publication, Findable, At
  <2>5. Recorded
    BY <2>1, WallpaperAssumption DEF WallpaperInit, Recorded, At
  <2> QED BY <2>2, <2>3, <2>4, <2>5 DEF PaperInv
<1>2. PaperInv /\ [WallpaperNext]_paperVars => PaperInv'
  <2> SUFFICES ASSUME PaperInv, [WallpaperNext]_paperVars PROVE PaperInv'
    OBVIOUS
  <2>1. CASE UNCHANGED paperVars
    BY <2>1 DEF PaperInv, PaperTypes, OthersTold, Publication, Findable, Recorded, Inside, Pixmap
  <2>2. CASE LuaWallpaper
    BY <2>2, SetStep DEF LuaWallpaper
  <2> QED BY <2>1, <2>2, PublishStep, TellStep, RetainStep, DisconnectStep, PropertyReadStep, ForeignStep
          DEF WallpaperNext
<1>3. PaperInv => WallpaperKept
  BY KeptByInvariant
<1> QED BY <1>1, <1>2, <1>3, PTL DEF WallpaperSpec

-----------------------------------------------------------------------------
\* a call that has yet to look at the work area of a screen
Owes(f, s, here) ==
    \/ f.at \in {"drawable", "drawin"} /\ f.old # here /\ s \in {f.old, here}
    \/ f.at = "areas" /\ f.old = s
    \/ f.at \in {"mapping", "shown"} /\ s = here

DrawinFrame == [at : Doing, old : Screen]

DrawinTypes ==
    /\ geom \in [pos : Screen, size : Nat \ {0}] /\ dirty \in BOOLEAN /\ visible \in BOOLEAN
    /\ listed \in BOOLEAN /\ refs \in Nat /\ area \in SUBSET Screen /\ (~Strut => area = {})
    /\ drawable \in [size : Nat, surface : BOOLEAN, refreshed : BOOLEAN]
    /\ window \in [pos : Screen, size : Nat, mapped : BOOLEAN]
    /\ content \in {"none", "old", "current"} /\ expose \in BOOLEAN /\ phase \in {"loop", "poll"}
    /\ frames \in Seq(DrawinFrame)

\* an area is as it should be or a call that runs will see to it
AreasOwed ==
    \A s \in Screen : \/ s \in area <=> Strut /\ visible /\ geom.pos = s
                      \/ \E i \in DOMAIN frames : Owes(frames[i], s, geom.pos)

\* the window and its surface
WindowRight ==
    /\ listed = visible /\ window.mapped = visible
    /\ drawable.size = IF drawable.surface THEN geom.size ELSE 0
    /\ visible => drawable.surface
    /\ ~dirty => window.pos = geom.pos /\ window.size = geom.size
    /\ visible /\ drawable.refreshed /\ ~expose => content = "current"
    /\ phase = "poll" => frames = <<>> /\ (visible => ~dirty)

\* one drawin_map at most runs, and until its end the drawin has no reference
MapRight ==
    /\ refs = IF visible /\ ~Mapping THEN 1 ELSE 0
    /\ Mapping => visible
    /\ \A i, j \in DOMAIN frames : frames[i].at = "mapping" /\ frames[j].at = "mapping" => i = j

DrawinInv == DrawinTypes /\ AreasOwed /\ WindowRight /\ MapRight

-----------------------------------------------------------------------------
(* The work areas *)

\* a call that begins because the drawin moved, or is shown or hidden
LEMMA AreasPush ==
    ASSUME DrawinTypes, AreasOwed, DrawinTypes', NEW f \in DrawinFrame, frames' = Append(frames, f), area' = area,
           \/ visible' = visible /\ f.at = "drawable" /\ f.old = geom.pos
           \/ geom' = geom /\ f.at \in {"mapping", "shown"}
    PROVE  AreasOwed'
<1>1. /\ frames' \in Seq(DrawinFrame) /\ Len(frames) + 1 \in DOMAIN frames' /\ frames'[Len(frames) + 1] = f
      /\ \A i \in DOMAIN frames : i \in DOMAIN frames' /\ frames'[i] = frames[i]
  <2>1. frames \in Seq(DrawinFrame)
    BY DEF DrawinTypes
  <2> QED BY <2>1, PushCall
<1>2. SUFFICES ASSUME NEW s \in Screen, ~(s \in area' <=> Strut /\ visible' /\ geom'.pos = s)
               PROVE  \E i \in DOMAIN frames' : Owes(frames'[i], s, geom'.pos)
  BY DEF AreasOwed
<1>3. CASE Owes(f, s, geom'.pos)
  BY <1>1, <1>3
<1>4. CASE ~Owes(f, s, geom'.pos)
  <2>1. geom'.pos = geom.pos \/ (s # geom.pos /\ s # geom'.pos)
    BY <1>4 DEF Owes
  <2>2. ~(s \in area <=> Strut /\ visible /\ geom.pos = s)
    BY <1>2, <1>4, <2>1 DEF Owes
  <2>3. PICK i \in DOMAIN frames : Owes(frames[i], s, geom.pos)
    BY <2>2 DEF AreasOwed
  <2>4. Owes(frames[i], s, geom'.pos)
    BY <2>1, <2>3 DEF Owes
  <2> QED BY <1>1, <2>4
<1> QED BY <1>3, <1>4

\* a call that goes on: it still owes what it owed
LEMMA AreasTop ==
    ASSUME DrawinTypes, AreasOwed, NEW f \in DrawinFrame, frames # <<>>, frames' = Moved(f),
           UNCHANGED <<geom, visible>>,
           \A s \in Screen : \/ s \in area' <=> Strut /\ visible /\ geom.pos = s
                             \/ Owes(f, s, geom.pos)
                             \/ (s \in area' <=> s \in area) /\ ~Owes(Top, s, geom.pos)
    PROVE  AreasOwed'
<1>1. /\ Len(frames) \in DOMAIN frames' /\ frames'[Len(frames)] = f
      /\ \A i \in DOMAIN frames : i \in DOMAIN frames' /\ (i # Len(frames) => frames'[i] = frames[i])
  <2>1. frames \in Seq(DrawinFrame)
    BY DEF DrawinTypes
  <2>2. frames' = [frames EXCEPT ![Len(frames)] = f]
    BY DEF Moved
  <2> QED BY <2>1, <2>2, TopCall
<1>2. SUFFICES ASSUME NEW s \in Screen, ~(s \in area' <=> Strut /\ visible' /\ geom'.pos = s)
               PROVE  \E i \in DOMAIN frames' : Owes(frames'[i], s, geom'.pos)
  BY DEF AreasOwed
<1>3. CASE Owes(f, s, geom.pos)
  BY <1>1, <1>3
<1>4. CASE (s \in area' <=> s \in area) /\ ~Owes(Top, s, geom.pos)
  <2>1. PICK i \in DOMAIN frames : Owes(frames[i], s, geom.pos)
    BY <1>2, <1>4 DEF AreasOwed
  <2>2. i # Len(frames)
    BY <1>4, <2>1 DEF Top
  <2> QED BY <1>1, <2>1, <2>2
<1> QED BY <1>2, <1>3, <1>4

\* a call that returns
LEMMA AreasPop ==
    ASSUME DrawinTypes, AreasOwed, frames # <<>>, frames' = Pop, UNCHANGED <<geom, visible>>,
           \A s \in Screen : \/ s \in area' <=> Strut /\ visible /\ geom.pos = s
                             \/ (s \in area' <=> s \in area) /\ ~Owes(Top, s, geom.pos)
    PROVE  AreasOwed'
<1>1. \A i \in DOMAIN frames : i # Len(frames) => i \in DOMAIN frames' /\ frames'[i] = frames[i]
  <2>1. frames \in Seq(DrawinFrame)
    BY DEF DrawinTypes
  <2>2. frames' = SubSeq(frames, 1, Len(frames) - 1)
    BY DEF Pop
  <2> QED BY <2>1, <2>2, PopCall
<1>2. SUFFICES ASSUME NEW s \in Screen, ~(s \in area' <=> Strut /\ visible' /\ geom'.pos = s)
               PROVE  \E i \in DOMAIN frames' : Owes(frames'[i], s, geom'.pos)
  BY DEF AreasOwed
<1>3. (s \in area' <=> s \in area) /\ ~Owes(Top, s, geom.pos)
  BY <1>2
<1>4. PICK i \in DOMAIN frames : Owes(frames[i], s, geom.pos)
  BY <1>2, <1>3 DEF AreasOwed
<1>5. i # Len(frames)
  BY <1>3, <1>4 DEF Top
<1> QED BY <1>1, <1>4, <1>5

-----------------------------------------------------------------------------
(* The calls *)

\* a call that begins, goes on or returns and is no drawin_map
LEMMA MapOther ==
    ASSUME DrawinTypes, MapRight, NEW f \in DrawinFrame, f.at # "mapping",
           \/ frames' = Append(frames, f)
           \/ frames # <<>> /\ Top.at # "mapping" /\ frames' = Moved(f)
           \/ frames # <<>> /\ Top.at # "mapping" /\ frames' = Pop
           \/ frames' = frames
    PROVE  /\ frames' \in Seq(DrawinFrame) /\ (Mapping' <=> Mapping)
           /\ \A i, j \in DOMAIN frames' : frames'[i].at = "mapping" /\ frames'[j].at = "mapping" => i = j
<1>1. frames \in Seq(DrawinFrame)
  BY DEF DrawinTypes
<1>2. /\ frames' \in Seq(DrawinFrame)
      /\ \A i \in DOMAIN frames' : frames'[i].at = "mapping" => i \in DOMAIN frames /\ frames[i].at = "mapping"
      /\ \A i \in DOMAIN frames : frames[i].at = "mapping" => i \in DOMAIN frames' /\ frames'[i].at = "mapping"
  <2>1. CASE frames' = Append(frames, f)
    <3>1. /\ frames' \in Seq(DrawinFrame) /\ frames'[Len(frames) + 1] = f
          /\ \A i \in DOMAIN frames : i \in DOMAIN frames' /\ frames'[i] = frames[i]
          /\ \A i \in DOMAIN frames' : i = Len(frames) + 1 \/ i \in DOMAIN frames
      BY <1>1, <2>1, PushCall
    <3> QED BY <3>1
  <2>2. CASE frames # <<>> /\ Top.at # "mapping" /\ frames' = Moved(f)
    <3>1. frames' = [frames EXCEPT ![Len(frames)] = f]
      BY <2>2 DEF Moved
    <3>2. /\ frames' \in Seq(DrawinFrame) /\ DOMAIN frames' = DOMAIN frames /\ frames'[Len(frames)] = f
          /\ \A i \in DOMAIN frames : i # Len(frames) => frames'[i] = frames[i]
      BY <1>1, <2>2, <3>1, TopCall
    <3> QED BY <2>2, <3>2 DEF Top
  <2>3. CASE frames # <<>> /\ Top.at # "mapping" /\ frames' = Pop
    <3>1. frames' = SubSeq(frames, 1, Len(frames) - 1)
      BY <2>3 DEF Pop
    <3>2. /\ frames' \in Seq(DrawinFrame)
          /\ \A i \in DOMAIN frames' : i \in DOMAIN frames /\ frames'[i] = frames[i]
          /\ \A i \in DOMAIN frames : i = Len(frames) \/ i \in DOMAIN frames'
      BY <1>1, <2>3, <3>1, PopCall
    <3> QED BY <2>3, <3>2 DEF Top
  <2>4. CASE frames' = frames
    BY <1>1, <2>4
  <2> QED BY <2>1, <2>2, <2>3, <2>4
<1>3. Mapping' <=> Mapping
  BY <1>2 DEF Mapping
<1>4. \A i, j \in DOMAIN frames' : frames'[i].at = "mapping" /\ frames'[j].at = "mapping" => i = j
  BY <1>2 DEF MapRight
<1> QED BY <1>2, <1>3, <1>4

\* the innermost call
LEMMA TopFrame ==
    ASSUME DrawinTypes, frames # <<>>
    PROVE  Top \in DrawinFrame /\ Top.at \in Doing /\ Top.old \in Screen
<1>1. frames \in Seq(DrawinFrame)
  BY DEF DrawinTypes
<1>2. Top \in DrawinFrame
  BY <1>1 DEF Top
<1> QED BY <1>2 DEF DrawinFrame

-----------------------------------------------------------------------------
(* The steps *)

LEMMA MoveStep ==
    ASSUME DrawinInv, NEW pos \in Screen, NEW size \in Size, MoveResize(pos, size)
    PROVE  DrawinInv'
<1> USE DEF DrawinInv
<1> DEFINE f == [at |-> "drawable", old |-> geom.pos]
<1>0. size \in Nat
  BY DrawinAssumption
<1>1. f \in DrawinFrame /\ f.at = "drawable" /\ f.old = geom.pos
  BY DEF DrawinFrame, Doing, DrawinTypes
<1>2. frames' = Append(frames, f) /\ area' = area /\ visible' = visible /\ listed' = listed /\ refs' = refs
      /\ window' = window /\ expose' = expose /\ phase' = phase /\ phase = "loop" /\ dirty' = TRUE
  BY DEF MoveResize, HandlersRun
<1> HIDE DEF f
<1>3. /\ frames' \in Seq(DrawinFrame) /\ (Mapping' <=> Mapping)
      /\ \A i, j \in DOMAIN frames' : frames'[i].at = "mapping" /\ frames'[j].at = "mapping" => i = j
  BY <1>1, <1>2, MapOther
<1>4. geom' \in [pos : Screen, size : Nat \ {0}]
  BY <1>0 DEF MoveResize, DrawinTypes
<1>5. /\ drawable' \in [size : Nat, surface : BOOLEAN, refreshed : BOOLEAN]
      /\ drawable'.surface = TRUE /\ drawable'.size = geom'.size
      /\ drawable' = drawable \/ (drawable'.refreshed = FALSE /\ drawable.size # drawable'.size)
  <2>1. drawable' = IF drawable.size = geom'.size THEN drawable ELSE [size |-> geom'.size, surface |-> TRUE, refreshed |-> FALSE]
    BY DEF MoveResize, Surface, SetGeometry
  <2>2. drawable.size = geom'.size => drawable.surface = TRUE
    BY <1>4 DEF WindowRight, DrawinTypes
  <2> QED BY <2>1, <2>2, <1>4 DEF DrawinTypes
<1>6. content' = IF drawable'.size # drawable.size /\ content = "current" THEN "old" ELSE content
  BY DEF MoveResize, Surface
<1>7. DrawinTypes'
  BY <1>2, <1>3, <1>4, <1>5, <1>6 DEF DrawinTypes
<1>8. AreasOwed'
  BY <1>1, <1>2, <1>7, AreasPush
<1>9. WindowRight'
  BY <1>2, <1>5, <1>6 DEF WindowRight
<1>10. MapRight'
  BY <1>2, <1>3 DEF MapRight
<1> QED BY <1>7, <1>8, <1>9, <1>10

\* the signals, and the end of a call
LEMMA CallStep ==
    ASSUME DrawinInv, Signal \/ UpdateOld \/ UpdateNew
    PROVE  DrawinInv'
<1> USE DEF DrawinInv
<1>1. UNCHANGED <<geom, dirty, visible, listed, refs, drawable, window, content, expose, phase>>
  BY DEF Signal, UpdateOld, UpdateNew
<1>2. frames # <<>> /\ Top \in DrawinFrame /\ Top.at \in Doing /\ Top.old \in Screen /\ Top.at # "mapping"
      /\ geom.pos \in Screen /\ area \in SUBSET Screen /\ (~Strut => area = {}) /\ phase # "poll"
  BY TopFrame DEF Signal, UpdateOld, UpdateNew, TopAt, WindowRight, DrawinTypes
<1>3. /\ area' \in SUBSET Screen /\ (~Strut => area' = {}) /\ AreasOwed'
      /\ \E f \in DrawinFrame : f.at # "mapping" /\ (frames' = Moved(f) \/ frames' = Pop)
  <2>1. CASE Signal
    <3> DEFINE f == [Top EXCEPT !.at = "drawin"]
    <3>1. f \in DrawinFrame /\ f.at = "drawin" /\ f.old = Top.old /\ Top.at = "drawable"
      BY <1>2, <2>1 DEF DrawinFrame, Doing, Signal, TopAt
    <3>2. frames' = Moved(f) /\ area' = area
      BY <2>1 DEF Signal
    <3> HIDE DEF f
    <3>3. \A s \in Screen : Owes(f, s, geom.pos) \/ ~Owes(Top, s, geom.pos)
      BY <3>1 DEF Owes
    <3>4. AreasOwed'
      BY <1>1, <1>2, <3>1, <3>2, <3>3, AreasTop
    <3> QED BY <1>2, <3>1, <3>2, <3>4
  <2>2. CASE UpdateOld /\ Strut /\ Top.old # geom.pos
    <3> DEFINE f == [at |-> "areas", old |-> geom.pos]
    <3>1. f \in DrawinFrame /\ f.at = "areas" /\ f.old = geom.pos /\ Top.at = "drawin"
      BY <1>2, <2>2 DEF DrawinFrame, Doing, UpdateOld, TopAt
    <3>2. frames' = Moved(f) /\ area' = AreaOf(area, Top.old)
      BY <2>2 DEF UpdateOld, OldArea
    <3>3. area' = area \ {Top.old}
      BY <2>2, <3>2 DEF AreaOf
    <3> HIDE DEF f
    <3>4. ASSUME NEW s \in Screen
          PROVE  \/ s \in area' <=> Strut /\ visible /\ geom.pos = s
                 \/ Owes(f, s, geom.pos)
                 \/ (s \in area' <=> s \in area) /\ ~Owes(Top, s, geom.pos)
      <4>1. CASE s = Top.old
        BY <2>2, <3>3, <4>1
      <4>2. CASE s = geom.pos
        BY <3>1, <4>2 DEF Owes
      <4>3. CASE s # Top.old /\ s # geom.pos
        BY <3>1, <3>3, <4>3 DEF Owes
      <4> QED BY <4>1, <4>2, <4>3
    <3>5. AreasOwed'
      BY <1>1, <1>2, <3>1, <3>2, <3>4, AreasTop
    <3> QED BY <1>2, <3>1, <3>2, <3>3, <3>5
  <2>3. CASE UpdateOld /\ ~(Strut /\ Top.old # geom.pos)
    <3>1. frames' = Pop /\ area' = area /\ Top.at = "drawin"
      BY <2>3 DEF UpdateOld, TopAt
    <3>2. CASE Top.old = geom.pos
      <4>1. \A s \in Screen : ~Owes(Top, s, geom.pos)
        BY <3>1, <3>2 DEF Owes
      <4>2. AreasOwed'
        BY <1>1, <1>2, <3>1, <4>1, AreasPop
      <4> DEFINE g == [Top EXCEPT !.at = "drawin"]
      <4>3. g \in DrawinFrame /\ g.at # "mapping"
        BY <1>2 DEF DrawinFrame, Doing
      <4> QED BY <1>2, <3>1, <4>2, <4>3
    <3>3. CASE ~Strut
      <4>1. \A s \in Screen : s \in area' <=> Strut /\ visible /\ geom.pos = s
        BY <3>1, <3>3 DEF DrawinTypes
      <4>2. AreasOwed'
        BY <1>1, <1>2, <3>1, <4>1, AreasPop
      <4> DEFINE g == [Top EXCEPT !.at = "drawin"]
      <4>3. g \in DrawinFrame /\ g.at # "mapping"
        BY <1>2 DEF DrawinFrame, Doing
      <4> QED BY <1>2, <3>1, <4>2, <4>3
    <3> QED BY <2>3, <3>2, <3>3
  <2>4. CASE UpdateNew
    <3> DEFINE p == IF Top.at = "areas" THEN Top.old ELSE geom.pos
    <3>1. frames' = Pop /\ area' = AreaOf(area, p) /\ Top.at \in {"areas", "shown"} /\ p \in Screen
      BY <1>2, <2>4 DEF UpdateNew
    <3>2. \A s \in Screen : Owes(Top, s, geom.pos) => s = p
      BY <3>1 DEF Owes
    <3> HIDE DEF p
    <3>3. /\ area' \in SUBSET Screen /\ (~Strut => area' = {})
          /\ p \in area' <=> Strut /\ visible /\ geom.pos = p
          /\ \A s \in Screen : s # p => (s \in area' <=> s \in area)
      BY <1>2, <3>1 DEF AreaOf, WindowRight
    <3>4. AreasOwed'
      BY <1>1, <1>2, <3>1, <3>2, <3>3, AreasPop
    <3> QED BY <1>2, <3>1, <3>3, <3>4
  <2> QED BY <2>1, <2>2, <2>3, <2>4
<1>4. PICK f \in DrawinFrame : f.at # "mapping" /\ (frames' = Moved(f) \/ frames' = Pop)
  BY <1>3
<1>5. /\ frames' \in Seq(DrawinFrame) /\ (Mapping' <=> Mapping)
      /\ \A i, j \in DOMAIN frames' : frames'[i].at = "mapping" /\ frames'[j].at = "mapping" => i = j
  BY <1>2, <1>4, MapOther
<1>6. DrawinTypes'
  BY <1>1, <1>3, <1>5 DEF DrawinTypes
<1>7. WindowRight'
  BY <1>1, <1>2 DEF WindowRight
<1>8. MapRight'
  BY <1>1, <1>5 DEF MapRight
<1> QED BY <1>3, <1>6, <1>7, <1>8

LEMMA AppliedWindow ==
    ASSUME DrawinTypes, WindowRight
    PROVE  /\ Applied(window) \in [pos : Screen, size : Nat, mapped : BOOLEAN]
           /\ Applied(window).pos = geom.pos /\ Applied(window).size = geom.size
           /\ Applied(window).mapped = window.mapped
BY DEF DrawinTypes, WindowRight, Applied

\* drawin_map
LEMMA ShowStep ==
    ASSUME DrawinInv, Show
    PROVE  DrawinInv'
<1> USE DEF DrawinInv
<1> DEFINE f == [at |-> "mapping", old |-> geom.pos]
<1>1. f \in DrawinFrame /\ f.at = "mapping"
  BY DEF DrawinFrame, Doing, DrawinTypes
<1>2. frames' = Append(frames, f) /\ area' = area /\ visible' = TRUE /\ listed' = TRUE /\ refs' = refs
      /\ geom' = geom /\ expose' = TRUE /\ phase' = phase /\ phase = "loop" /\ dirty' = FALSE
      /\ visible = FALSE /\ ~Mapping
  BY DEF Show, HandlersRun, DrawinTypes
<1>3. frames \in Seq(DrawinFrame)
  BY DEF DrawinTypes
<1> HIDE DEF f
<1>4. /\ frames' \in Seq(DrawinFrame) /\ Len(frames) + 1 \in DOMAIN frames' /\ frames'[Len(frames) + 1] = f
      /\ \A i \in DOMAIN frames : frames'[i] = frames[i]
      /\ \A i \in DOMAIN frames' : i = Len(frames) + 1 \/ i \in DOMAIN frames
  BY <1>1, <1>2, <1>3, PushCall
<1>5. window' = [Applied(window) EXCEPT !.mapped = TRUE]
  BY DEF Show
<1>6. /\ window' \in [pos : Screen, size : Nat, mapped : BOOLEAN]
      /\ window'.pos = geom.pos /\ window'.size = geom.size /\ window'.mapped = TRUE
  BY <1>5, AppliedWindow
<1>7. /\ drawable' \in [size : Nat, surface : BOOLEAN, refreshed : BOOLEAN]
      /\ drawable'.surface = TRUE /\ drawable'.size = geom.size
  <2>1. drawable' = IF drawable.surface THEN drawable
                    ELSE IF drawable.size = geom.size THEN drawable
                    ELSE [size |-> geom.size, surface |-> TRUE, refreshed |-> FALSE]
    BY DEF Show, Surface, SetGeometry
  <2>2. geom.size \in Nat \ {0} /\ (~drawable.surface => drawable.size = 0)
    BY DEF DrawinTypes, WindowRight
  <2> QED BY <2>1, <2>2 DEF DrawinTypes, WindowRight
<1>8. content' \in {"none", "old", "current"}
  BY DEF Show, Surface, DrawinTypes
<1>9. DrawinTypes'
  BY <1>2, <1>4, <1>6, <1>7, <1>8 DEF DrawinTypes
<1>10. AreasOwed'
  BY <1>1, <1>2, <1>9, AreasPush
<1>11. WindowRight'
  BY <1>2, <1>6, <1>7 DEF WindowRight
<1>12. Mapping' /\ \A i, j \in DOMAIN frames' : frames'[i].at = "mapping" /\ frames'[j].at = "mapping" => i = j
  BY <1>1, <1>2, <1>4 DEF Mapping
<1>13. MapRight'
  BY <1>2, <1>12 DEF MapRight
<1> QED BY <1>9, <1>10, <1>11, <1>13

\* the drawin is shown: it is referenced from now on
LEMMA RefStep ==
    ASSUME DrawinInv, Ref
    PROVE  DrawinInv'
<1> USE DEF DrawinInv
<1> DEFINE f == [Top EXCEPT !.at = "shown"]
<1>1. frames # <<>> /\ Top.at = "mapping" /\ Top \in DrawinFrame
  BY TopFrame DEF Ref, TopAt
<1>2. f \in DrawinFrame /\ f.at = "shown"
  BY <1>1 DEF DrawinFrame, Doing
<1>3. frames' = Moved(f) /\ refs' = refs + 1
      /\ UNCHANGED <<geom, dirty, visible, listed, drawable, window, content, expose, area, phase>>
  BY DEF Ref
<1> HIDE DEF f
<1>4. /\ frames' \in Seq(DrawinFrame) /\ DOMAIN frames' = DOMAIN frames /\ Len(frames) \in DOMAIN frames
      /\ frames'[Len(frames)] = f /\ \A i \in DOMAIN frames : i # Len(frames) => frames'[i] = frames[i]
  <2>1. frames \in Seq(DrawinFrame) /\ frames' = [frames EXCEPT ![Len(frames)] = f]
    BY <1>3 DEF DrawinTypes, Moved
  <2> QED BY <1>1, <1>2, <2>1, TopCall
<1>5. Mapping /\ visible /\ refs = 0 /\ \A i \in DOMAIN frames : frames[i].at = "mapping" => i = Len(frames)
  <2>1. frames[Len(frames)].at = "mapping"
    BY <1>1 DEF Top
  <2>2. Mapping
    BY <1>4, <2>1 DEF Mapping
  <2> QED BY <1>4, <2>1, <2>2 DEF MapRight
<1>6. ~Mapping' /\ \A i \in DOMAIN frames' : frames'[i].at # "mapping"
  BY <1>2, <1>4, <1>5 DEF Mapping
<1>7. DrawinTypes'
  BY <1>3, <1>4, <1>5 DEF DrawinTypes
<1>8. AreasOwed'
  <2>1. \A s \in Screen : Owes(f, s, geom.pos) \/ ~Owes(Top, s, geom.pos)
    BY <1>1, <1>2 DEF Owes
  <2> QED BY <1>1, <1>2, <1>3, <2>1, AreasTop
<1>9. WindowRight'
  BY <1>1, <1>3 DEF WindowRight
<1>10. MapRight'
  BY <1>3, <1>5, <1>6 DEF MapRight
<1> QED BY <1>7, <1>8, <1>9, <1>10

\* drawin_unmap
LEMMA HideStep ==
    ASSUME DrawinInv, Hide
    PROVE  DrawinInv'
<1> USE DEF DrawinInv
<1> DEFINE f == [at |-> "shown", old |-> geom.pos]
<1>1. f \in DrawinFrame /\ f.at = "shown"
  BY DEF DrawinFrame, Doing, DrawinTypes
<1>2. frames' = Append(frames, f) /\ area' = area /\ visible' = FALSE /\ listed' = FALSE /\ refs' = refs - 1
      /\ geom' = geom /\ expose' = FALSE /\ phase' = phase /\ phase = "loop" /\ dirty' = dirty
      /\ visible = TRUE /\ ~Mapping /\ drawable' = drawable /\ content' = "none"
      /\ window' = [window EXCEPT !.mapped = FALSE]
  BY DEF Hide, HandlersRun, DrawinTypes, Unlisted
<1> HIDE DEF f
<1>3. /\ frames' \in Seq(DrawinFrame) /\ ~Mapping'
      /\ \A i, j \in DOMAIN frames' : frames'[i].at = "mapping" /\ frames'[j].at = "mapping" => i = j
  BY <1>1, <1>2, MapOther
<1>4. /\ window' \in [pos : Screen, size : Nat, mapped : BOOLEAN]
      /\ window'.pos = window.pos /\ window'.size = window.size /\ window'.mapped = FALSE
  BY <1>2 DEF DrawinTypes
<1>5. refs' = 0
  BY <1>2 DEF MapRight
<1>6. DrawinTypes'
  <2>1. /\ geom' = geom /\ area' = area /\ drawable' = drawable /\ dirty' = dirty /\ content' = "none"
        /\ visible' = FALSE /\ listed' = FALSE /\ expose' = FALSE /\ phase' = phase
    BY <1>2
  <2> QED BY <2>1, <1>3, <1>4, <1>5 DEF DrawinTypes
<1>7. AreasOwed'
  BY <1>1, <1>2, <1>6, AreasPush
<1>8. WindowRight'
  BY <1>2, <1>4 DEF WindowRight
<1>9. MapRight'
  BY <1>2, <1>3, <1>5 DEF MapRight
<1> QED BY <1>6, <1>7, <1>8, <1>9

\* the copy of what Lua has drawn
LEMMA CopyRight ==
    ASSUME DrawinTypes, WindowRight, NEW d \in [size : Nat, surface : BOOLEAN, refreshed : BOOLEAN],
           d.surface = drawable.surface, d.size = drawable.size, Copy(d)
    PROVE  /\ window' \in [pos : Screen, size : Nat, mapped : BOOLEAN] /\ dirty' \in BOOLEAN
           /\ content' \in {"none", "old", "current"} /\ window'.mapped = window.mapped
           /\ ~dirty' => window'.pos = geom.pos /\ window'.size = geom.size
           /\ visible /\ d.refreshed => content' = "current"
<1>1. CASE d.surface /\ d.refreshed
  <2>1. /\ window' = Applied(window) /\ dirty' = FALSE
        /\ content' = IF window.mapped /\ Applied(window).size >= d.size THEN "current" ELSE content
    BY <1>1 DEF Copy, Sized
  <2>2. geom.size \in Nat /\ d.size = geom.size /\ Applied(window).size >= d.size
    <3>1. geom.size \in Nat /\ d.size = geom.size
      BY <1>1 DEF DrawinTypes, WindowRight
    <3> QED BY <3>1, AppliedWindow
  <2>3. content' = IF window.mapped THEN "current" ELSE content
    BY <2>1, <2>2
  <2> QED BY <2>1, <2>3, AppliedWindow DEF DrawinTypes, WindowRight
<1>2. CASE ~(d.surface /\ d.refreshed)
  <2>1. window' = window /\ dirty' = dirty /\ content' = content
    BY <1>2 DEF Copy
  <2> QED BY <1>2, <2>1 DEF DrawinTypes, WindowRight
<1> QED BY <1>1, <1>2

\* drawable_refresh, Expose, drawin_refresh and the end of the poll
LEMMA PaintStep ==
    ASSUME DrawinInv, Drawn \/ HandleExpose \/ Refresh \/ Wake
    PROVE  DrawinInv'
<1> USE DEF DrawinInv
<1>1. UNCHANGED <<geom, visible, listed, refs, area, frames>>
  BY DEF Drawn, HandleExpose, Refresh, Wake
<1>2. /\ drawable' \in [size : Nat, surface : BOOLEAN, refreshed : BOOLEAN]
      /\ drawable'.surface = drawable.surface /\ drawable'.size = drawable.size
      /\ window' \in [pos : Screen, size : Nat, mapped : BOOLEAN] /\ dirty' \in BOOLEAN /\ expose' \in BOOLEAN
      /\ content' \in {"none", "old", "current"} /\ window'.mapped = window.mapped
      /\ ~dirty' => window'.pos = geom.pos /\ window'.size = geom.size
      /\ visible /\ drawable'.refreshed /\ ~expose' => content' = "current"
      /\ phase' \in {"loop", "poll"} /\ (phase' = "poll" => frames' = <<>> /\ (visible => ~dirty'))
  <2>1. CASE Drawn
    <3>1. /\ drawable' = [drawable EXCEPT !.refreshed = TRUE] /\ phase' = "loop"
          /\ expose' = (expose \/ Exposed(window'))
      BY <2>1 DEF Drawn, HandlersRun
    <3> DEFINE d == drawable'
    <3>2. d \in [size : Nat, surface : BOOLEAN, refreshed : BOOLEAN]
          /\ d.surface = drawable.surface /\ d.size = drawable.size /\ d.refreshed = TRUE
      BY <3>1 DEF DrawinTypes
    <3>3. Copy(d)
      BY <2>1 DEF Drawn
    <3>4. expose' \in BOOLEAN
      BY <3>1
    <3> HIDE DEF d
    <3>5. /\ window' \in [pos : Screen, size : Nat, mapped : BOOLEAN] /\ dirty' \in BOOLEAN
          /\ content' \in {"none", "old", "current"} /\ window'.mapped = window.mapped
          /\ ~dirty' => window'.pos = geom.pos /\ window'.size = geom.size
          /\ visible /\ d.refreshed => content' = "current"
      BY <3>2, <3>3, CopyRight
    <3> QED BY <3>1, <3>2, <3>4, <3>5 DEF d
  <2>2. CASE HandleExpose
    <3>1. drawable' = drawable /\ Copy(drawable) /\ expose' = Exposed(window') /\ phase' = phase /\ phase = "loop"
      BY <2>2 DEF HandleExpose
    <3>2. drawable \in [size : Nat, surface : BOOLEAN, refreshed : BOOLEAN]
      BY DEF DrawinTypes
    <3>3. /\ window' \in [pos : Screen, size : Nat, mapped : BOOLEAN] /\ dirty' \in BOOLEAN
          /\ content' \in {"none", "old", "current"} /\ window'.mapped = window.mapped
          /\ ~dirty' => window'.pos = geom.pos /\ window'.size = geom.size
          /\ visible /\ drawable.refreshed => content' = "current"
      BY <3>1, <3>2, CopyRight
    <3>4. expose' \in BOOLEAN
      BY <3>1, <3>3 DEF Exposed
    <3> QED BY <3>1, <3>2, <3>3, <3>4
  <2>3. CASE Refresh
    <3>1. /\ window' = IF listed THEN Applied(window) ELSE window
          /\ dirty' = (dirty /\ ~listed) /\ drawable' = drawable /\ content' = content /\ phase' = "poll"
          /\ expose' = (expose \/ Exposed(window')) /\ frames = <<>>
      BY <2>3 DEF Refresh
    <3>2. /\ window' \in [pos : Screen, size : Nat, mapped : BOOLEAN] /\ window'.mapped = window.mapped
          /\ ~dirty' => window'.pos = geom.pos /\ window'.size = geom.size
      BY <3>1, AppliedWindow DEF DrawinTypes, WindowRight
    <3>3. expose' \in BOOLEAN /\ (~expose' => ~expose) /\ dirty' \in BOOLEAN
      BY <3>1
    <3> QED BY <1>1, <3>1, <3>2, <3>3 DEF DrawinTypes, WindowRight
  <2>4. CASE Wake
    BY <2>4 DEF Wake, DrawinTypes, WindowRight
  <2> QED BY <2>1, <2>2, <2>3, <2>4
<1>3. DrawinTypes'
  BY <1>1, <1>2 DEF DrawinTypes
<1>4. AreasOwed'
  BY <1>1 DEF AreasOwed
<1>5. WindowRight'
  BY <1>1, <1>2 DEF WindowRight
<1>6. MapRight'
  <2>1. Mapping' <=> Mapping
    BY <1>1 DEF Mapping
  <2> QED BY <1>1, <2>1 DEF MapRight
<1> QED BY <1>3, <1>4, <1>5, <1>6

-----------------------------------------------------------------------------
LEMMA DrawinStart == DrawinInit => DrawinInv
<1> SUFFICES ASSUME DrawinInit PROVE DrawinInv
  OBVIOUS
<1>1. PICK s \in Screen : geom = [pos |-> s, size |-> 1] /\ window = [pos |-> s, size |-> 1, mapped |-> FALSE]
  BY DEF DrawinInit
<1>2. frames = <<>> /\ area = {} /\ ~Mapping
  BY DEF DrawinInit, Mapping
<1>3. DrawinTypes
  <2>1. frames \in Seq(DrawinFrame)
    BY <1>2
  <2>2. /\ geom \in [pos : Screen, size : Nat \ {0}] /\ window \in [pos : Screen, size : Nat, mapped : BOOLEAN]
        /\ drawable \in [size : Nat, surface : BOOLEAN, refreshed : BOOLEAN]
    BY <1>1 DEF DrawinInit
  <2>3. area = {} /\ refs = 0 /\ dirty = FALSE /\ visible = FALSE /\ listed = FALSE
        /\ content = "none" /\ expose = FALSE /\ phase = "loop"
    BY DEF DrawinInit
  <2> QED BY <2>1, <2>2, <2>3 DEF DrawinTypes
<1>4. AreasOwed
  BY DEF DrawinInit, AreasOwed
<1>5. WindowRight
  BY <1>1 DEF DrawinInit, WindowRight
<1>6. MapRight
  BY <1>2 DEF DrawinInit, MapRight
<1> QED BY <1>3, <1>4, <1>5, <1>6 DEF DrawinInv

LEMMA DrawinStep == DrawinInv /\ [DrawinNext]_drawinVars => DrawinInv'
<1> SUFFICES ASSUME DrawinInv, [DrawinNext]_drawinVars PROVE DrawinInv'
  OBVIOUS
<1>1. CASE LuaGeometry
  BY <1>1, MoveStep DEF LuaGeometry
<1>2. CASE Signal \/ UpdateOld \/ UpdateNew
  BY <1>2, CallStep
<1>3. CASE Show
  BY <1>3, ShowStep
<1>4. CASE Ref
  BY <1>4, RefStep
<1>5. CASE Hide
  BY <1>5, HideStep
<1>6. CASE Drawn \/ HandleExpose \/ Refresh \/ Wake
  BY <1>6, PaintStep
<1>7. CASE UNCHANGED drawinVars
  <2>1. UNCHANGED <<geom, dirty, visible, listed, refs, drawable, window, content, expose, area, frames, phase>>
    BY <1>7 DEF drawinVars
  <2>2. Mapping' <=> Mapping
    BY <2>1 DEF Mapping
  <2> QED BY <2>1, <2>2 DEF DrawinInv, DrawinTypes, AreasOwed, WindowRight, MapRight
<1> QED BY <1>1, <1>2, <1>3, <1>4, <1>5, <1>6, <1>7 DEF DrawinNext

LEMMA DrawinShows == DrawinInv => DrawinShown
<1> SUFFICES ASSUME DrawinInv PROVE DrawinShown
  OBVIOUS
<1> USE DEF DrawinInv
<1>1. DrawinTypeOK
  <2>1. ASSUME NEW i \in DOMAIN frames PROVE frames[i].at \in Doing
    <3>1. frames[i] \in DrawinFrame
      BY DEF DrawinTypes
    <3> QED BY <3>1 DEF DrawinFrame
  <2> QED BY <2>1 DEF DrawinTypes, DrawinTypeOK
<1>2. ASSUME frames = <<>>
      PROVE  /\ listed = visible /\ window.mapped = visible /\ refs = IF visible THEN 1 ELSE 0
             /\ area = IF Strut /\ visible THEN {geom.pos} ELSE {}
  <2>1. ~Mapping
    BY <1>2 DEF Mapping
  <2>2. \A s \in Screen : s \in area <=> Strut /\ visible /\ geom.pos = s
    <3>1. DOMAIN frames = {}
      BY <1>2
    <3> QED BY <3>1 DEF AreasOwed
  <2>3. area \in SUBSET Screen /\ geom.pos \in Screen
    BY DEF DrawinTypes
  <2>4. area = IF Strut /\ visible THEN {geom.pos} ELSE {}
    BY <2>2, <2>3
  <2> QED BY <2>1, <2>4 DEF MapRight, WindowRight
<1> QED BY <1>1, <1>2 DEF WindowRight, DrawinShown

\* A visible drawin has a surface of the size on record and, when the manager
\* sleeps, a window that has the geometry on record and shows what was drawn;
\* it is referenced and listed while it is visible, and the work areas follow it,
\* however many calls nest in the signals (drawin_moveresize, drawin_set_visible,
\* drawin_refresh, drawable_set_geometry).
THEOREM DrawinSafe == DrawinSpec => []DrawinShown
<1>1. DrawinSpec => []DrawinInv
  BY DrawinStart, DrawinStep, PTL DEF DrawinSpec
<1> QED BY <1>1, DrawinShows, PTL

-----------------------------------------------------------------------------
(* Screens: what the monitors, the arrays of screen_refresh and the clients   *)
(* have to do with each other.                                                *)
View == [id : Nat \ {0}, area : Area, outs : Seq(OutputName), marked : BOOLEAN]
Seen == [xid : Xid \ {FakeXid}, geo : Area, view : Nat \ {0}]
Part == [x : Int, y : Int, w : Nat, h : Nat]
ScreenState == [valid : BOOLEAN, c : BOOLEAN, xid : Xid, geo : Area, work : Part, view : Nat, refs : 0..2]
Pc == {"boot", "idle", "notify", "add", "remove", "modify"}

ScreensTypes ==
    /\ screens \in Seq(Object) /\ primary \in Object \cup {NoScreen}
    /\ on \in [Client -> Object \cup {NoScreen}] /\ at \in [Client -> Area] /\ strut \in [Client -> 0..1]
    /\ info \in [Object -> ScreenState] /\ views \in Seq(View) /\ nextView \in Nat \ {0}
    /\ ignore \in BOOLEAN /\ randr \in BOOLEAN /\ pending \in BOOLEAN /\ told \in BOOLEAN
    /\ run \in [pc : Pc, found : Seq(Seen), new : Seq(Object), left : Seq(Object), gone : Seq(Object)]
    /\ lua \in 0..MaxLua /\ layout \in Layouts /\ changes \in Nat

Refreshing == run.pc \in {"notify", "add", "remove", "modify"}

\* every viewport has a number of its own, and screens have numbers of viewports that were made
ViewsRight ==
    /\ \A i \in DOMAIN views : views[i].id < nextView
    /\ \A i, j \in DOMAIN views : views[i].id = views[j].id => i = j
    /\ \A o \in Object : info[o].view < nextView
    /\ \A i \in DOMAIN run.found : run.found[i].view \in Ids(views)

\* an object is in an array once, and those that are gone are in no other
ListsRight ==
    /\ IsInjective(screens) /\ IsInjective(run.new) /\ IsInjective(run.gone)
    /\ \A o \in ToSet(run.gone) : o \notin ToSet(screens) \cup ToSet(run.new) /\ info[o].xid # FakeXid
    /\ \A o \in Object : info[o].refs = (IF o \in ToSet(screens) THEN 1 ELSE 0) + (IF o \in ToSet(run.new) THEN 1 ELSE 0)
                                          + (IF o \in ToSet(run.gone) THEN 1 ELSE 0)

ListedRight ==
    \A o \in ToSet(screens) : /\ info[o].valid /\ info[o].view \in Ids(views) \cup {0}
                              /\ info[o].c <=> info[o].xid # FakeXid
                              /\ Within(info[o].work, info[o].geo)

NewRight ==
    /\ \A o \in ToSet(run.new) : info[o].c /\ info[o].xid # FakeXid /\ info[o].view \in Ids(views) \cup {0}
    /\ run.pc = "add" => \A o \in ToSet(run.new) : o \in ToSet(run.left) \/ Known(screens, o)
    /\ run.pc = "add" => ToSet(run.left) \subseteq ToSet(run.new)
    /\ run.pc = "modify" => ToSet(run.left) \subseteq ToSet(screens)

PhasesRight ==
    /\ run.pc \in {"boot", "idle", "notify"} => run.new = <<>> /\ run.gone = <<>>
    /\ run.pc # "notify" => run.found = <<>>
    /\ run.pc \in {"boot", "add", "modify"} => run.gone = <<>>
    /\ run.pc = "boot" => screens = <<>> /\ views = <<>>
    /\ run.pc = "boot" => ~pending /\ ~randr
    /\ pending \/ Refreshing => randr

Real == {o \in ToSet(screens) : info[o].c}

\* there is a screen, unless the screens are left to Lua
SomeScreen ==
    /\ run.pc # "boot" /\ ~ignore => Real # {}
    /\ run.pc \in {"add", "remove", "modify"} /\ ~ignore => run.new # <<>>
    /\ ignore => Real = {} /\ run.found = <<>> /\ run.new = <<>> /\ run.gone = <<>>

ClientsRight ==
    /\ primary \in ToSet(screens) \cup ToSet(run.gone) \cup {NoScreen}
    /\ run.pc # "boot" => ClientsOnScreens
    /\ run.pc = "boot" => \A c \in Client : on[c] = NoScreen

\* what a list of [xid, geo] shows of the monitors
Compat == \E v \in ToSet(views) : DefaultOutput \in ToSet(v.outs)
InView == {m \in ToSet(layout) : m.outs # <<>> /\ ~Compat}

Shows(shown, S, f) ==
    /\ \A m \in shown : \E s \in S : Within(m.area, f[s].geo)
    /\ {f[s].xid : s \in S} \subseteq (IF shown = {} THEN {NoXid} ELSE {m.xid : m \in shown})
Apart(S, f) == \A s, t \in S : s # t => <<f[s].geo.x, f[s].geo.y>> # <<f[t].geo.x, f[t].geo.y>>
XidsOnce(S, f) == \A s, t \in S : f[s].xid = f[t].xid => s = t

ScanRight ==
    ~ignore /\ ~told =>
    /\ run.pc = "notify" => (IF InView = {} THEN run.found = <<>> ELSE run.found # <<>> /\ Shows(InView, DOMAIN run.found, run.found))
    /\ run.pc \in {"add", "remove", "modify"} => Shows(InView, ToSet(run.new), info)

NewOnce ==
    /\ XidsOnce(DOMAIN run.found, run.found)
    /\ XidsOnce(ToSet(run.new), info) /\ Apart(ToSet(run.new), info)
    /\ randr => XidsOnce(Real, info)

Matching ==
    /\ ~ignore /\ run.pc \in {"remove", "modify"} =>
        /\ \A n \in ToSet(run.new) : \E o \in Real : info[o].xid = info[n].xid
        /\ \A o \in Real : \E n \in ToSet(run.new) : info[o].xid = info[n].xid
    /\ run.pc = "modify" => \A o \in Real, n \in ToSet(run.new) :
          info[o].xid = info[n].xid /\ o \notin ToSet(run.left) => info[o].geo = info[n].geo

Settled == run.pc = "idle" /\ ~pending /\ ~told /\ randr /\ ~ignore => Shows(InView, Real, info) /\ Real # {}
RealApart == run.pc = "idle" /\ ~pending /\ randr => Apart(Real, info)

\* the first group is about pointers, the second about what the screens show
PointersRight ==
    /\ ScreensTypes /\ ViewsRight /\ ListsRight /\ ListedRight /\ NewRight
    /\ PhasesRight /\ SomeScreen /\ ClientsRight
PicturesRight == ScanRight /\ NewOnce /\ Matching /\ Settled /\ RealApart
ScreensInv == PointersRight /\ PicturesRight

\* the first and the last of some places of a list
LEMMA SomePlace ==
    ASSUME NEW n \in Nat, NEW P \in SUBSET (1..n), P # {}
    PROVE  /\ Min(P) \in P /\ \A i \in P : Min(P) <= i
           /\ Max(P) \in P /\ \A i \in P : Max(P) >= i
<1>1. \E i \in P : \A j \in P : i <= j
  BY LeastNumber
<1>2. \E i \in P : \A j \in P : i >= j
  <2> DEFINE Q == {n - i : i \in P}
  <2>1. Q \in SUBSET Nat /\ Q # {}
    <3>1. ASSUME NEW i \in P PROVE n - i \in Nat
      OBVIOUS
    <3> QED BY <3>1
  <2> HIDE DEF Q
  <2>2. PICK k \in Q : \A j \in Q : k <= j
    BY <2>1, LeastNumber
  <2>3. PICK i \in P : k = n - i
    BY <2>2 DEF Q
  <2>4. ASSUME NEW j \in P PROVE i >= j
    <3>1. n - j \in Q
      BY DEF Q
    <3>2. n - i <= n - j
      BY <2>2, <2>3, <3>1
    <3> QED BY <3>2
  <2> QED BY <2>4
<1> QED BY <1>1, <1>2 DEF Min, Max

\* the least and the largest of two numbers, and of a number and some in 0..1
LEMMA TwoNumbers ==
    ASSUME NEW a \in Int, NEW b \in Int
    PROVE  /\ Min({a, b}) = (IF a <= b THEN a ELSE b)
           /\ Max({a, b}) = (IF a >= b THEN a ELSE b)
<1>1. Min({a, b}) \in {a, b} /\ \A y \in {a, b} : Min({a, b}) <= y
  <2>1. \E x \in {a, b} : \A y \in {a, b} : x <= y
    OBVIOUS
  <2> QED BY <2>1 DEF Min
<1>2. Max({a, b}) \in {a, b} /\ \A y \in {a, b} : Max({a, b}) >= y
  <2>1. \E x \in {a, b} : \A y \in {a, b} : x >= y
    OBVIOUS
  <2> QED BY <2>1 DEF Max
<1> QED BY <1>1, <1>2

LEMMA TopStrut ==
    ASSUME NEW S \in SUBSET (0..1)
    PROVE  Max({0} \cup S) \in 0..1
<1>1. \E x \in {0} \cup S : \A y \in {0} \cup S : x >= y
  <2>1. CASE 1 \in S
    BY <2>1
  <2>2. CASE 1 \notin S
    BY <2>2
  <2> QED BY <2>1, <2>2
<1> DEFINE T == {0} \cup S
<1>2. PICK x \in T : \A y \in T : x >= y
  BY <1>1
<1>3. T \in SUBSET (0..1)
  OBVIOUS
<1> HIDE DEF T
<1>4. Max(T) \in T
  BY <1>2 DEF Max
<1> QED BY <1>3, <1>4 DEF T

LEMMA GapNat ==
    ASSUME NEW p \in Int, NEW low \in Int, NEW size \in Nat
    PROVE  Gap(p, low, size) \in Nat /\ Gap(p, low, size) * Gap(p, low, size) \in Nat
<1>1. Gap(p, low, size) \in Nat
  BY DEF Gap
<1>2. \A k \in Nat : k * k \in Nat
  OBVIOUS
<1> QED BY <1>1, <1>2

\* screen_getbycoord finds a screen if there is one
LEMMA ByCoordRight ==
    ASSUME NEW l \in Seq(Object), NEW f \in [Object -> ScreenState], NEW g \in Area
    PROVE  /\ l = <<>> => ByCoord(l, f, g) = NoScreen
           /\ l # <<>> => ByCoord(l, f, g) \in ToSet(l)
<1> DEFINE d(k) == Distance(f[l[k]].geo, g.x, g.y)
           holds == {k \in DOMAIN l : CoordInScreen(f[l[k]].geo, g.x, g.y)}
           near == {k \in DOMAIN l : \A j \in DOMAIN l : d(k) <= d(j)}
           all == {d(k) : k \in DOMAIN l}
<1>1. DOMAIN l = 1..Len(l) /\ Len(l) \in Nat
  OBVIOUS
<1>2. SUFFICES ASSUME l # <<>> PROVE ByCoord(l, f, g) \in ToSet(l)
  BY DEF ByCoord
<1>3. ASSUME NEW i \in DOMAIN l PROVE d(i) \in Nat
  <2>1. PICK a : a = f[l[i]].geo
    OBVIOUS
  <2>2. a \in Area
    BY <2>1 DEF ScreenState
  <2>3. Distance(a, g.x, g.y) \in Nat
    <3>1. g.x \in Int /\ g.y \in Int /\ a.x \in Int /\ a.y \in Int /\ a.w \in Nat /\ a.h \in Nat
      BY <2>2 DEF Area
    <3>2. \A m, n \in Nat : m + n \in Nat
      OBVIOUS
    <3> QED BY <3>1, <3>2, GapNat DEF Distance
  <2> QED BY <2>1, <2>3
<1> HIDE DEF d
<1>4. 1 \in DOMAIN l
  BY <1>1, <1>2
<1>11. all \in SUBSET Nat /\ all # {}
  BY <1>3, <1>4
<1>5. PICK m \in all : \A k \in all : m <= k
  BY <1>11, LeastNumber
<1>6. near # {}
  BY <1>5
<1>7. PICK P : P = (IF holds # {} THEN holds ELSE near)
  OBVIOUS
<1>8. P \in SUBSET (1..Len(l)) /\ P # {}
  BY <1>1, <1>6, <1>7
<1>9. Min(P) \in DOMAIN l
  BY <1>1, <1>8, SomePlace
<1>10. ByCoord(l, f, g) = l[Min(P)]
  BY <1>2, <1>7 DEF ByCoord, d
<1> QED BY <1>9, <1>10 DEF ToSet

LEMMA WorkareaRight ==
    ASSUME NEW o \in Object, NEW f \in [Object -> ScreenState], NEW where \in [Client -> Object \cup {NoScreen}],
           NEW asked \in [Client -> 0..1]
    PROVE  Workarea(o, f, where, asked) \in Part /\ Within(Workarea(o, f, where, asked), f[o].geo)
<1> DEFINE S == {asked[c] : c \in {e \in Client : where[e] = o}}
<1>1. PICK top, g : top = Max({0} \cup S) /\ g = f[o].geo
  OBVIOUS
<1>2. top \in 0..1
  BY <1>1, TopStrut
<1>3. g \in Area
  BY <1>1 DEF ScreenState
<1>4. g.x \in Int /\ g.y \in Int /\ g.w \in Nat /\ g.h \in Nat /\ top <= g.h /\ top \in Nat
      /\ g = [x |-> g.x, y |-> g.y, w |-> g.w, h |-> g.h]
  BY <1>2, <1>3 DEF Area
<1>5. PICK a : a = [g EXCEPT !.y = @ + top, !.h = @ - top]
  OBVIOUS
<1>6. a.x = g.x /\ a.y = g.y + top /\ a.w = g.w /\ a.h = g.h - top /\ a = [x |-> g.x, y |-> g.y + top, w |-> g.w, h |-> g.h - top]
  BY <1>4, <1>5
<1>7. Workarea(o, f, where, asked) = a
  <2>1. (IF top < g.h THEN top ELSE g.h) = top
    BY <1>4
  <2> QED BY <1>1, <1>5, <2>1 DEF Workarea
<1>8. a \in Part
  BY <1>4, <1>6 DEF Part
<1>9. Within(a, g)
  BY <1>4, <1>6 DEF Within
<1> QED BY <1>1, <1>7, <1>8, <1>9

LEMMA FittedRight ==
    ASSUME NEW g \in Area, NEW from \in Area, NEW to \in Area
    PROVE  Fitted(g, from, to) \in Area
<1>1. /\ g.x \in Int /\ g.y \in Int /\ g.w \in Nat \ {0} /\ g.h \in Nat \ {0} /\ from.x \in Int /\ from.y \in Int
      /\ to.x \in Int /\ to.y \in Int /\ to.w \in Nat \ {0} /\ to.h \in Nat \ {0}
  BY DEF Area
<1>2. PICK w, h : w = Min({g.w, to.w}) /\ h = Min({g.h, to.h})
  OBVIOUS
<1>3. w \in Nat \ {0} /\ h \in Nat \ {0}
  BY <1>1, <1>2, TwoNumbers
<1>4. PICK x, y : x = Min({to.x + g.x - from.x, to.x + to.w - w}) /\ y = Min({to.y + g.y - from.y, to.y + to.h - h})
  OBVIOUS
<1>5. to.x + g.x - from.x \in Int /\ to.x + to.w - w \in Int /\ to.y + g.y - from.y \in Int /\ to.y + to.h - h \in Int
  BY <1>1, <1>3
<1>6. x \in Int /\ y \in Int
  BY <1>4, <1>5, TwoNumbers
<1>7. PICK a : a = [x |-> x, y |-> y, w |-> w, h |-> h]
  OBVIOUS
<1>8. a \in Area /\ [a EXCEPT !.x = to.x, !.y = to.y] \in Area
  BY <1>1, <1>3, <1>6, <1>7 DEF Area
<1>9. Fitted(g, from, to) = Forced(to, a)
  BY <1>2, <1>4, <1>7 DEF Fitted
<1> QED BY <1>8, <1>9 DEF Forced

\* what stays of a list when only some places are kept
LEMMA ChosenRight ==
    ASSUME NEW S, NEW l \in Seq(S), NEW places
    PROVE  /\ Chosen(l, places) \in Seq(S)
           /\ ToSet(Chosen(l, places)) = {l[i] : i \in DOMAIN l \cap places}
           /\ \A a, b \in DOMAIN Chosen(l, places) : a < b =>
                 \E i, j \in DOMAIN l \cap places : i < j /\ l[i] = Chosen(l, places)[a] /\ l[j] = Chosen(l, places)[b]
<1> DEFINE n == Len(l)
           goes == [x \in (1..n) \X Seq(S) |-> IF x[1] \in places THEN Append(x[2], l[x[1]]) ELSE x[2]]
           Computes(f) == f = [i \in 0..n |-> IF i = 0 THEN <<>>
                                              ELSE IF i \in places THEN Append(f[i - 1], l[i]) ELSE f[i - 1]]
           kept == CHOOSE f : Computes(f)
<1>1. n \in Nat /\ DOMAIN l = 1..n /\ <<>> \in Seq(S) /\ \A i \in 1..n : l[i] \in S
  OBVIOUS
<1>2. goes \in [(1..n) \X Seq(S) -> Seq(S)]
  BY <1>1
<1> HIDE DEF n
<1>3. \E f : Computes(f)
  <2>1. PICK f \in [0..n -> Seq(S)] : f[0] = <<>> /\ \A i \in 1..n : f[i] = goes[<<i, f[i - 1]>>]
    <3>1. PICK X, g, start : X = Seq(S) /\ g = goes /\ start = <<>>
      OBVIOUS
    <3> HIDE DEF goes
    <3>2. g \in [(1..n) \X X -> X] /\ start \in X
      BY <1>1, <1>2, <3>1
    <3>3. \E f \in [0..n -> X] : Steps(n, start, g, f)
      BY <1>1, <3>2, NumberRecursion
    <3> QED BY <3>1, <3>3 DEF Steps
  <2>2. \A i \in 1..n : i - 1 \in 0..n /\ i \in 0..n /\ i # 0
    BY <1>1
  <2>3. \A i \in 1..n : f[i] = IF i \in places THEN Append(f[i - 1], l[i]) ELSE f[i - 1]
    <3>1. ASSUME NEW i \in 1..n PROVE f[i] = IF i \in places THEN Append(f[i - 1], l[i]) ELSE f[i - 1]
      <4>1. <<i, f[i - 1]>> \in (1..n) \X Seq(S)
        BY <2>1, <2>2
      <4> QED BY <2>1, <4>1
    <3> QED BY <3>1
  <2>4. \A i \in 0..n : i = 0 \/ i \in 1..n
    BY <1>1
  <2>5. Computes(f)
    BY <2>1, <2>3, <2>4
  <2> QED BY <2>5
<1>4. Computes(kept)
  BY <1>3
<1> HIDE DEF kept, goes
<1>5. Chosen(l, places) = kept[n]
  BY DEF Chosen, kept, n
<1>6. /\ kept[0] = <<>>
      /\ \A i \in 1..n : i \in Nat /\ i - 1 \in 0..n /\ i \in 0..n /\ i # 0
      /\ \A i \in 1..n : kept[i] = IF i \in places THEN Append(kept[i - 1], l[i]) ELSE kept[i - 1]
  <2>1. 0 \in 0..n /\ \A i \in 1..n : i \in Nat /\ i - 1 \in 0..n /\ i \in 0..n /\ i # 0
    BY <1>1
  <2> QED BY <1>4, <2>1
<1> HIDE DEF Computes
<1> DEFINE Upto(i) == (1..i) \cap places
           Kept(i, q) == /\ q \in Seq(S) /\ ToSet(q) = {l[j] : j \in Upto(i)}
                         /\ \A a, b \in DOMAIN q : a < b => \E j, k \in Upto(i) : j < k /\ l[j] = q[a] /\ l[k] = q[b]
           P == {i \in 0..n : Kept(i, kept[i])}
<1>7. 0 \in P
  <2>1. 0 \in 0..n
    BY <1>1
  <2>2. Kept(0, <<>>)
    BY DEF ToSet
  <2> HIDE DEF Kept
  <2> QED BY <1>6, <2>1, <2>2
<1>8. ASSUME NEW i \in 1..n, i - 1 \in P PROVE i \in P
  <2>1. PICK e, q, r : e = l[i] /\ q = kept[i - 1] /\ r = kept[i]
    OBVIOUS
  <2>2. e \in S /\ Kept(i - 1, q) /\ r = (IF i \in places THEN Append(q, e) ELSE q) /\ i \in Nat
    BY <1>1, <1>6, <1>8, <2>1
  <2>3. /\ i \in places => Upto(i) = Upto(i - 1) \cup {i}
        /\ i \notin places => Upto(i) = Upto(i - 1)
        /\ \A j \in Upto(i - 1) : j < i
    BY <2>2
  <2> HIDE DEF Upto
  <2>6. SUFFICES Kept(i, r)
    <3> HIDE DEF Kept
    <3> QED BY <1>6, <2>1
  <2>4. CASE i \notin places
    BY <2>2, <2>3, <2>4
  <2>5. CASE i \in places
    <3>1. r = Append(q, e) /\ q \in Seq(S)
      BY <2>2, <2>5
    <3>2. /\ r \in Seq(S) /\ DOMAIN r = 1..(Len(q) + 1) /\ DOMAIN q = 1..Len(q) /\ Len(q) \in Nat /\ r[Len(q) + 1] = e
          /\ \A a \in DOMAIN q : a \in DOMAIN r /\ a # Len(q) + 1 /\ r[a] = q[a]
          /\ \A a \in DOMAIN r : a = Len(q) + 1 \/ a \in DOMAIN q
      BY <2>2, <3>1, PushCall
    <3>3. ToSet(r) = ToSet(q) \cup {e}
      BY <3>2 DEF ToSet
    <3>4. ToSet(r) = {l[j] : j \in Upto(i)}
      BY <2>1, <2>2, <2>3, <2>5, <3>3
    <3>5. ASSUME NEW a \in DOMAIN r, NEW b \in DOMAIN r, a < b
          PROVE  \E j, k \in Upto(i) : j < k /\ l[j] = r[a] /\ l[k] = r[b]
      <4>1. a \in DOMAIN q
        BY <3>2, <3>5
      <4>2. CASE b \in DOMAIN q
        BY <2>2, <2>3, <2>5, <3>2, <3>5, <4>1, <4>2
      <4>3. CASE b = Len(q) + 1
        <5>1. q[a] \in ToSet(q)
          BY <4>1 DEF ToSet
        <5>2. PICK j \in Upto(i - 1) : l[j] = q[a]
          BY <2>2, <5>1
        <5>3. j \in Upto(i) /\ i \in Upto(i) /\ j < i
          BY <2>3, <2>5
        <5> QED BY <2>1, <3>2, <4>1, <4>3, <5>2, <5>3
      <4> QED BY <3>2, <4>2, <4>3
    <3> QED BY <3>2, <3>4, <3>5
  <2> QED BY <2>4, <2>5
<1>9. \A i \in 0..n : i \in P
  <2> HIDE DEF P
  <2> QED BY <1>1, <1>7, <1>8, NumberInduction DEF P
<1>10. Kept(n, kept[n])
  <2>1. n \in 0..n
    BY <1>1
  <2> QED BY <1>9, <2>1
<1>11. Upto(n) = DOMAIN l \cap places
  BY <1>1
<1> HIDE DEF Upto
<1> QED BY <1>5, <1>10, <1>11

\* of a list without repetition
LEMMA ChosenOnce ==
    ASSUME NEW S, NEW l \in Seq(S), NEW places, IsInjective(l)
    PROVE  IsInjective(Chosen(l, places))
<1> DEFINE c == Chosen(l, places)
<1>1. c \in Seq(S) /\ \A a, b \in DOMAIN c : a < b => \E i, j \in DOMAIN l : i < j /\ l[i] = c[a] /\ l[j] = c[b]
  BY ChosenRight
<1>2. DOMAIN l \subseteq Nat /\ DOMAIN c \subseteq Nat
  BY <1>1
<1> HIDE DEF c
<1>3. \A a, b \in DOMAIN c : a < b => c[a] # c[b]
  BY <1>1, <1>2 DEF IsInjective
<1>4. \A a, b \in DOMAIN c : a = b \/ a < b \/ b < a
  BY <1>2
<1> QED BY <1>3, <1>4 DEF IsInjective, c

\* an element more, the first one less, and two that change places
LEMMA MoreScreens ==
    ASSUME NEW S, NEW l \in Seq(S), NEW e \in S
    PROVE  /\ Append(l, e) \in Seq(S) /\ ToSet(Append(l, e)) = ToSet(l) \cup {e} /\ Append(l, e) # <<>>
           /\ e \notin ToSet(l) /\ IsInjective(l) => IsInjective(Append(l, e))
<1> DEFINE r == Append(l, e)
<1>1. /\ r \in Seq(S) /\ DOMAIN r = 1..(Len(l) + 1) /\ DOMAIN l = 1..Len(l) /\ Len(l) \in Nat /\ r[Len(l) + 1] = e /\ r # <<>>
      /\ \A a \in DOMAIN l : a \in DOMAIN r /\ a # Len(l) + 1 /\ r[a] = l[a]
      /\ \A a \in DOMAIN r : a = Len(l) + 1 \/ a \in DOMAIN l
  BY PushCall
<1> HIDE DEF r
<1>2. ToSet(r) = ToSet(l) \cup {e}
  BY <1>1 DEF ToSet
<1>3. e \notin ToSet(l) /\ IsInjective(l) => IsInjective(r)
  BY <1>1 DEF IsInjective, ToSet
<1> QED BY <1>1, <1>2, <1>3 DEF r

LEMMA FewerScreens ==
    ASSUME NEW S, NEW l \in Seq(S), l # <<>>
    PROVE  /\ Head(l) \in S /\ Head(l) \in ToSet(l) /\ Tail(l) \in Seq(S) /\ ToSet(l) = ToSet(Tail(l)) \cup {Head(l)}
           /\ IsInjective(l) => IsInjective(Tail(l)) /\ Head(l) \notin ToSet(Tail(l))
<1> DEFINE r == Tail(l)
<1>1. /\ r \in Seq(S) /\ DOMAIN l = 1..Len(l) /\ Len(l) \in Nat \ {0}
      /\ Head(l) = l[1] /\ 1 \in DOMAIN l /\ l[1] \in S
      /\ DOMAIN r = 1..(Len(l) - 1)
      /\ \A i \in DOMAIN r : i + 1 \in DOMAIN l /\ i + 1 > 1 /\ r[i] = l[i + 1]
      /\ \A i \in DOMAIN l : i > 1 => i - 1 \in DOMAIN r /\ r[i - 1] = l[i]
  BY DropHead
<1> HIDE DEF r
<1>2. \A i \in DOMAIN l : i = 1 \/ i > 1
  BY <1>1
<1>3. ToSet(l) = ToSet(r) \cup {l[1]}
  <2>1. ASSUME NEW i \in DOMAIN l PROVE l[i] \in ToSet(r) \cup {l[1]}
    BY <1>1, <1>2 DEF ToSet
  <2>2. ASSUME NEW i \in DOMAIN r PROVE r[i] \in ToSet(l)
    BY <1>1 DEF ToSet
  <2>3. l[1] \in ToSet(l)
    BY <1>1 DEF ToSet
  <2> QED BY <2>1, <2>2, <2>3 DEF ToSet
<1>4. ASSUME IsInjective(l) PROVE IsInjective(r) /\ l[1] \notin ToSet(r)
  <2>1. \A i, j \in DOMAIN r : i + 1 = j + 1 => i = j
    BY <1>1
  <2>2. \A i \in DOMAIN r : i + 1 # 1
    BY <1>1
  <2> QED BY <1>1, <1>4, <2>1, <2>2 DEF IsInjective, ToSet
<1> QED BY <1>1, <1>3, <1>4 DEF r

Swaps(l, i, j, r) ==
    /\ i \in DOMAIN l /\ j \in DOMAIN l /\ DOMAIN r = DOMAIN l
    /\ \A k \in DOMAIN l : r[k] = l[IF k = j THEN i ELSE IF k = i THEN j ELSE k]

LEMMA SwappedScreens ==
    ASSUME NEW l \in Seq(Object), NEW i, NEW j, NEW r \in Seq(Object), Swaps(l, i, j, r)
    PROVE  ToSet(r) = ToSet(l) /\ (r = <<>> <=> l = <<>>) /\ (IsInjective(l) => IsInjective(r))
<1> DEFINE b(k) == IF k = j THEN i ELSE IF k = i THEN j ELSE k
<1>1. DOMAIN r = DOMAIN l /\ DOMAIN l = 1..Len(l) /\ i \in DOMAIN l /\ j \in DOMAIN l
  BY DEF Swaps
<1>2. \A k \in DOMAIN l : r[k] = l[b(k)] /\ b(k) \in DOMAIN l /\ b(b(k)) = k
  BY DEF Swaps
<1>3. ToSet(r) = ToSet(l)
  <2> HIDE DEF b
  <2>1. \A k \in DOMAIN l : l[k] = r[b(k)]
    BY <1>2
  <2> QED BY <1>1, <1>2, <2>1 DEF ToSet
<1>4. IsInjective(l) => IsInjective(r)
  <2> HIDE DEF b
  <2> QED BY <1>1, <1>2 DEF IsInjective
<1>5. i \in DOMAIN r /\ r # <<>> /\ l # <<>>
  <2>1. i \in DOMAIN r /\ i \in DOMAIN l
    BY <1>1
  <2> QED BY <2>1
<1> QED BY <1>1, <1>3, <1>4, <1>5

LEMMA EmptyScreens == ToSet(<<>>) = {} /\ IsInjective(<<>>) /\ \A S : <<>> \in Seq(S)
BY DEF ToSet, IsInjective

LEMMA NoScreens == ASSUME NEW S, NEW l \in Seq(S), ToSet(l) = {} PROVE l = <<>>
<1>1. DOMAIN l = {}
  BY DEF ToSet
<1> QED BY <1>1

-----------------------------------------------------------------------------
(* Scanning the monitors. *)

Acc == [views : Seq(View), next : Nat \ {0}, found : Seq(Seen), last : Nat, stop : BOOLEAN]

Numbered(vs, n) ==
    /\ \A i \in DOMAIN vs : vs[i].id < n
    /\ \A i, j \in DOMAIN vs : vs[i].id = vs[j].id => i = j

\* what was found is on a viewport that was marked
AccRight(acc) ==
    /\ acc \in Acc /\ Numbered(acc.views, acc.next)
    /\ \A i \in DOMAIN acc.found : \E k \in DOMAIN acc.views : acc.views[k].marked /\ acc.views[k].id = acc.found[i].view

OldDriver(vs, i) == DefaultOutput \in ToSet(vs[i].outs)

\* k is the viewport that viewport_add marked
Marks(acc, outs, r, k) ==
    /\ k \in DOMAIN r.views /\ r.views[k].id = r.last /\ r.views[k].marked
    /\ \A i \in DOMAIN r.views : i # k => i \in DOMAIN acc.views /\ r.views[i] = acc.views[i]
    /\ \A i \in DOMAIN acc.views : i \in DOMAIN r.views /\ r.views[i].id = acc.views[i].id
    /\ OldDriver(r.views, k) <=> DefaultOutput \in ToSet(outs) \/ (k \in DOMAIN acc.views /\ OldDriver(acc.views, k))

LEMMA OutputsJoined ==
    ASSUME NEW p \in Seq(OutputName), NEW q \in Seq(OutputName)
    PROVE  p \o q \in Seq(OutputName) /\ ToSet(p \o q) = ToSet(p) \cup ToSet(q)
<1>1. p \o q \in Seq(OutputName) /\ Elements(p \o q) = Elements(p) \cup Elements(q)
  BY ConcatElements
<1> QED BY <1>1 DEF Elements, ToSet

LEMMA ViewAddRight ==
    ASSUME NEW acc, AccRight(acc), NEW area0 \in Area, NEW outs \in Seq(OutputName)
    PROVE  LET r == ViewAdd(acc, area0, outs)
           IN  /\ AccRight(r) /\ r.found = acc.found /\ r.stop = acc.stop /\ r.next >= acc.next
               /\ \E k \in DOMAIN r.views : Marks(acc, outs, r, k)
<1> DEFINE same == {i \in DOMAIN acc.views : acc.views[i].area = area0}
           k == IF same = {} THEN Len(acc.views) + 1 ELSE Min(same)
           new == [id |-> acc.next, area |-> area0, outs |-> <<>>, marked |-> FALSE]
           grown == IF same # {} THEN acc.views ELSE Append(acc.views, new)
           wider == [grown[k] EXCEPT !.marked = TRUE, !.outs = @ \o outs]
           vs == [i \in DOMAIN grown |-> IF i = k THEN wider ELSE grown[i]]
           next == IF same = {} THEN acc.next + 1 ELSE acc.next
           r == [acc EXCEPT !.views = vs, !.next = next, !.last = grown[k].id]
<1>1. /\ acc \in Acc /\ acc.views \in Seq(View) /\ acc.next \in Nat \ {0} /\ acc.found \in Seq(Seen) /\ acc.stop \in BOOLEAN
      /\ DOMAIN acc.views = 1..Len(acc.views) /\ Len(acc.views) \in Nat
  <2>1. acc \in Acc
    BY DEF AccRight
  <2> QED BY <2>1 DEF Acc
<1>2. r = ViewAdd(acc, area0, outs)
  BY <1>1 DEF ViewAdd, Acc
<1>3. /\ grown \in Seq(View) /\ k \in DOMAIN grown /\ next \in Nat \ {0} /\ next >= acc.next
      /\ \A i \in DOMAIN grown : grown[i].id < next
      /\ \A i, j \in DOMAIN grown : grown[i].id = grown[j].id => i = j
      /\ \A i \in DOMAIN grown : i # k => i \in DOMAIN acc.views
      /\ \A i \in DOMAIN acc.views : i \in DOMAIN grown /\ grown[i] = acc.views[i]
      /\ k \notin DOMAIN acc.views => grown[k].outs = <<>>
  <2>1. CASE same # {}
    <3>1. grown = acc.views /\ next = acc.next /\ k = Min(same)
      BY <2>1
    <3>2. same \in SUBSET (1..Len(acc.views))
      BY <1>1
    <3>3. Min(same) \in same
      BY <1>1, <2>1, <3>2, SomePlace
    <3>4. k \in DOMAIN acc.views
      BY <3>1, <3>3
    <3> HIDE DEF same, k, grown, next
    <3>5. \A i \in DOMAIN acc.views : acc.views[i].id < acc.next
      BY DEF AccRight, Numbered
    <3>6. \A i, j \in DOMAIN acc.views : acc.views[i].id = acc.views[j].id => i = j
      BY DEF AccRight, Numbered
    <3>7. acc.next >= acc.next
      BY <1>1
    <3> QED BY <1>1, <3>1, <3>4, <3>5, <3>6, <3>7
  <2>2. CASE same = {}
    <3>1. grown = Append(acc.views, new) /\ next = acc.next + 1 /\ k = Len(acc.views) + 1
      BY <2>2
    <3>2. new \in View /\ new.id = acc.next /\ new.outs = <<>>
      BY <1>1 DEF View
    <3>3. PICK e : e = new
      OBVIOUS
    <3> HIDE DEF same, k, grown, next, new
    <3>4. /\ grown \in Seq(View) /\ DOMAIN grown = 1..(Len(acc.views) + 1) /\ grown[k] = e
          /\ \A i \in DOMAIN acc.views : i \in DOMAIN grown /\ i # k /\ grown[i] = acc.views[i]
          /\ \A i \in DOMAIN grown : i = k \/ i \in DOMAIN acc.views
      BY <1>1, <3>1, <3>2, <3>3, PushCall
    <3>5. k \in DOMAIN grown
      BY <1>1, <3>1, <3>4
    <3>6. \A i \in DOMAIN acc.views : acc.views[i].id \in Nat /\ acc.views[i].id < acc.next
      <4>1. ASSUME NEW i \in DOMAIN acc.views PROVE acc.views[i].id \in Nat
        <5>1. acc.views[i] \in View
          BY <1>1
        <5> QED BY <5>1 DEF View
      <4> QED BY <4>1 DEF AccRight, Numbered
    <3>7. \A i \in DOMAIN grown : grown[i].id < next /\ (i # k => grown[i].id # grown[k].id)
      BY <1>1, <3>1, <3>2, <3>3, <3>4, <3>6
    <3>8. \A i, j \in DOMAIN grown : grown[i].id = grown[j].id => i = j
      BY <3>4, <3>7 DEF AccRight, Numbered
    <3> QED BY <1>1, <3>1, <3>2, <3>3, <3>4, <3>5, <3>7, <3>8
  <2> QED BY <2>1, <2>2
<1> HIDE DEF same, k, grown, next
<1>4. /\ wider \in View /\ wider.id = grown[k].id /\ wider.marked /\ wider.outs = grown[k].outs \o outs
  <2>1. PICK v : v = grown[k]
    OBVIOUS
  <2>2. v \in View
    BY <1>3, <2>1
  <2>3. v.outs \o outs \in Seq(OutputName)
    BY <2>2, OutputsJoined DEF View
  <2> QED BY <2>1, <2>2, <2>3 DEF View
<1>5. ToSet(wider.outs) = ToSet(grown[k].outs) \cup ToSet(outs)
  BY <1>3, <1>4, OutputsJoined DEF View
<1> HIDE DEF wider
<1>6. /\ vs \in Seq(View) /\ DOMAIN vs = DOMAIN grown /\ vs[k] = wider
      /\ \A i \in DOMAIN vs : i # k => vs[i] = grown[i]
  <2>1. PICK n \in Nat : DOMAIN grown = 1..n
    BY <1>3
  <2>2. vs \in [1..n -> View]
    BY <1>3, <1>4, <2>1
  <2>3. vs \in Seq(View)
    BY <2>2, FunctionSequence
  <2> QED BY <1>3, <2>3
<1> HIDE DEF vs
<1>7. r.views = vs /\ r.next = next /\ r.last = grown[k].id /\ r.found = acc.found /\ r.stop = acc.stop
  BY <1>1 DEF Acc
<1>8. r \in Acc
  <2>1. grown[k] \in View
    BY <1>3
  <2>2. grown[k].id \in Nat
    BY <2>1 DEF View
  <2> QED BY <2>2, <1>1, <1>3, <1>6, <2>1 DEF Acc
<1> HIDE DEF r
<1>9. \A i \in DOMAIN vs : vs[i].id = grown[i].id
  BY <1>4, <1>6
<1>10. Numbered(r.views, r.next)
  BY <1>3, <1>6, <1>7, <1>9 DEF Numbered
<1>11. \A i \in DOMAIN acc.views : i \in DOMAIN r.views /\ r.views[i].id = acc.views[i].id /\ (acc.views[i].marked => r.views[i].marked)
  <2>1. ASSUME NEW i \in DOMAIN acc.views
        PROVE  i \in DOMAIN r.views /\ r.views[i].id = acc.views[i].id /\ (acc.views[i].marked => r.views[i].marked)
    <3>1. i \in DOMAIN vs /\ r.views = vs /\ grown[i] = acc.views[i] /\ vs[i].id = grown[i].id
      BY <1>3, <1>6, <1>7, <1>9
    <3>2. CASE i = k
      BY <1>4, <1>6, <3>1, <3>2
    <3>3. CASE i # k
      BY <1>6, <3>1, <3>3
    <3> QED BY <3>1, <3>2, <3>3
  <2> QED BY <2>1
<1>12. AccRight(r)
  BY <1>7, <1>8, <1>10, <1>11 DEF AccRight
<1>13. OldDriver(vs, k) <=> DefaultOutput \in ToSet(outs) \/ (k \in DOMAIN acc.views /\ OldDriver(acc.views, k))
  BY <1>3, <1>5, <1>6, EmptyScreens DEF OldDriver
<1>14. Marks(acc, outs, r, k)
  BY <1>3, <1>4, <1>6, <1>7, <1>9, <1>11, <1>13 DEF Marks
<1>15. k \in DOMAIN r.views
  BY <1>3, <1>6, <1>7
<1> QED BY <1>2, <1>3, <1>7, <1>12, <1>14, <1>15

OldMarked(acc) == \E k \in DOMAIN acc.views : acc.views[k].marked /\ OldDriver(acc.views, k)

\* the viewports stay, with their numbers
Kept(acc, r) == \A i \in DOMAIN acc.views : i \in DOMAIN r.views /\ r.views[i].id = acc.views[i].id

LEMMA FoundRight ==
    ASSUME NEW acc, AccRight(acc), NEW k \in DOMAIN acc.views, acc.views[k].id = acc.last, acc.views[k].marked,
           NEW xid \in Xid \ {FakeXid}, NEW area0 \in Area
    PROVE  LET r == Found(acc, xid, area0)
           IN  /\ AccRight(r) /\ r.views = acc.views /\ r.next = acc.next /\ r.last = acc.last /\ r.stop = acc.stop
               /\ r.found = (IF ignore THEN acc.found
                             ELSE Append(acc.found, [xid |-> xid, geo |-> area0, view |-> acc.last]))
<1>1. acc \in Acc /\ acc.views \in Seq(View) /\ acc.found \in Seq(Seen)
  <2>1. acc \in Acc
    BY DEF AccRight
  <2> QED BY <2>1 DEF Acc
<1>2. CASE ignore
  BY <1>2 DEF Found
<1>3. CASE ~ignore
  <2>1. PICK e, r : e = [xid |-> xid, geo |-> area0, view |-> acc.last] /\ r = [acc EXCEPT !.found = Append(acc.found, e)]
    OBVIOUS
  <2>2. Found(acc, xid, area0) = r
    BY <1>3, <2>1 DEF Found
  <2>3. e \in Seen
    <3>1. acc.views[k] \in View
      BY <1>1
    <3>2. acc.last \in Nat \ {0}
      BY <3>1 DEF View
    <3> QED BY <2>1, <3>2 DEF Seen
  <2>4. PICK q : q = Append(acc.found, e)
    OBVIOUS
  <2>5. /\ q \in Seq(Seen) /\ q[Len(acc.found) + 1] = e
        /\ \A i \in DOMAIN acc.found : q[i] = acc.found[i]
        /\ \A i \in DOMAIN q : i = Len(acc.found) + 1 \/ i \in DOMAIN acc.found
    BY <1>1, <2>3, <2>4, PushCall
  <2>6. r \in Acc /\ r.views = acc.views /\ r.next = acc.next /\ r.last = acc.last /\ r.stop = acc.stop /\ r.found = q
    BY <1>1, <2>1, <2>4, <2>5 DEF Acc
  <2>7. \A i \in DOMAIN q : \E j \in DOMAIN acc.views : acc.views[j].marked /\ acc.views[j].id = q[i].view
    <3>1. e.view = acc.last
      BY <2>1
    <3>2. \A i \in DOMAIN acc.found : \E j \in DOMAIN acc.views : acc.views[j].marked /\ acc.views[j].id = acc.found[i].view
      BY DEF AccRight
    <3>3. ASSUME NEW i \in DOMAIN q
          PROVE  \E j \in DOMAIN acc.views : acc.views[j].marked /\ acc.views[j].id = q[i].view
      <4>1. CASE i \in DOMAIN acc.found
        BY <2>5, <3>2, <4>1
      <4>2. CASE i = Len(acc.found) + 1
        BY <2>5, <3>1, <4>2
      <4> QED BY <2>5, <4>1, <4>2
    <3> QED BY <3>3
  <2>8. AccRight(r)
    BY <2>6, <2>7 DEF AccRight
  <2> QED BY <1>3, <2>1, <2>2, <2>4, <2>6, <2>8
<1> QED BY <1>2, <1>3

\* one monitor of a RandR scan
LEMMA RandrMonitorRight ==
    ASSUME NEW acc, AccRight(acc), NEW m \in Monitor, ignore \in BOOLEAN
    PROVE  LET r == RandrMonitor(acc, m)
           IN  /\ AccRight(r) /\ r.next >= acc.next
               /\ ignore => r.found = acc.found
               /\ acc.stop \/ m.outs = <<>> => r = acc
               /\ ~ignore /\ ~acc.stop /\ m.outs # <<>> /\ ~OldMarked(acc) =>
                     \/ r.stop /\ r.found = <<>> /\ OldMarked(r)
                     \/ /\ ~r.stop /\ ~OldMarked(r)
                        /\ r.found = Append(acc.found, [xid |-> m.xid, geo |-> m.area, view |-> r.last])
<1> DEFINE a == ViewAdd(acc, m.area, m.outs)
           compat == \E v \in ToSet(a.views) : v.id = a.last /\ DefaultOutput \in ToSet(v.outs)
           r == RandrMonitor(acc, m)
<1>1. acc \in Acc /\ acc.next \in Nat
  <2>1. acc \in Acc
    BY DEF AccRight
  <2> QED BY <2>1 DEF Acc
<1>2. m.xid \in Xid \ {FakeXid} /\ m.area \in Area /\ m.outs \in Seq(OutputName)
  BY DEF Monitor
<1>3. CASE acc.stop \/ m.outs = <<>>
  BY <1>1, <1>3 DEF RandrMonitor
<1>4. CASE ~(acc.stop \/ m.outs = <<>>)
  <2>1. /\ AccRight(a) /\ a.found = acc.found /\ a.stop = acc.stop /\ a.next >= acc.next
        /\ \E k \in DOMAIN a.views : Marks(acc, m.outs, a, k)
    BY <1>2, ViewAddRight
  <2>2. r = IF ~ignore /\ compat THEN [a EXCEPT !.found = <<>>, !.stop = TRUE] ELSE Found(a, m.xid, m.area)
    BY <1>4 DEF RandrMonitor
  <2> HIDE DEF a, r
  <2>3. PICK k \in DOMAIN a.views : Marks(acc, m.outs, a, k)
    BY <2>1
  <2>4. a.views[k].id = a.last /\ a.views[k].marked
    BY <2>3 DEF Marks
  <2>5. a \in Acc
    BY <2>1 DEF AccRight
  <2>6. compat <=> OldDriver(a.views, k)
    <3>1. \A i \in DOMAIN a.views : a.views[i].id = a.last => i = k
      BY <2>1, <2>4 DEF AccRight, Numbered
    <3>2. a.views[k] \in ToSet(a.views)
      BY DEF ToSet
    <3>3. ASSUME NEW v \in ToSet(a.views), v.id = a.last PROVE v = a.views[k]
      BY <3>1, <3>3 DEF ToSet
    <3> QED BY <2>4, <3>2, <3>3 DEF OldDriver
  <2> HIDE DEF compat
  <2>7. ~OldMarked(acc) => (OldMarked(a) <=> OldDriver(a.views, k))
    <3>1. \A i \in DOMAIN a.views : i # k => i \in DOMAIN acc.views /\ a.views[i] = acc.views[i]
      BY <2>3 DEF Marks
    <3>2. \A i \in DOMAIN a.views : i # k => (OldDriver(a.views, i) <=> OldDriver(acc.views, i))
      BY <3>1 DEF OldDriver
    <3> QED BY <2>4, <3>1, <3>2 DEF OldMarked
  <2>8. CASE ~ignore /\ compat
    <3>1. r = [a EXCEPT !.found = <<>>, !.stop = TRUE]
      BY <2>2, <2>8
    <3>2. r \in Acc /\ r.views = a.views /\ r.next = a.next /\ r.found = <<>> /\ r.stop = TRUE
      BY <2>5, <3>1, EmptyScreens DEF Acc
    <3>3. AccRight(r)
      BY <2>1, <3>2 DEF AccRight
    <3>4. OldMarked(r)
      BY <2>4, <2>6, <2>8, <3>2 DEF OldMarked
    <3> QED BY <1>4, <2>1, <2>8, <3>2, <3>3, <3>4 DEF r
  <2>9. CASE ~(~ignore /\ compat)
    <3>1. r = Found(a, m.xid, m.area)
      BY <2>2, <2>9
    <3>2. /\ AccRight(r) /\ r.views = a.views /\ r.next = a.next /\ r.last = a.last /\ r.stop = a.stop
          /\ r.found = (IF ignore THEN a.found ELSE Append(a.found, [xid |-> m.xid, geo |-> m.area, view |-> a.last]))
      BY <1>2, <2>1, <2>4, <3>1, FoundRight
    <3>3. OldMarked(r) <=> OldMarked(a)
      BY <3>2 DEF OldMarked
    <3> QED BY <1>4, <2>1, <2>6, <2>7, <2>9, <3>2, <3>3 DEF r
  <2> QED BY <2>8, <2>9
<1> QED BY <1>3, <1>4

LEMMA XineramaMonitorRight ==
    ASSUME NEW acc, AccRight(acc), NEW m \in Monitor, ignore \in BOOLEAN
    PROVE  LET r == XineramaMonitor(acc, m)
           IN  AccRight(r) /\ r.next >= acc.next /\ (ignore => r.found = acc.found)
<1> DEFINE a == ViewAdd(acc, m.area, <<>>)
<1>1. m.area \in Area /\ <<>> \in Seq(OutputName) /\ NoXid \in Xid \ {FakeXid}
  BY ScreensAssumption DEF Monitor, Xid
<1>2. /\ AccRight(a) /\ a.found = acc.found /\ a.next >= acc.next
      /\ \E k \in DOMAIN a.views : Marks(acc, <<>>, a, k)
  BY <1>1, ViewAddRight
<1>3. XineramaMonitor(acc, m) = Found(a, NoXid, m.area)
  BY DEF XineramaMonitor
<1> HIDE DEF a
<1>4. PICK k \in DOMAIN a.views : a.views[k].id = a.last /\ a.views[k].marked
  BY <1>2 DEF Marks
<1>5. PICK r : r = Found(a, NoXid, m.area)
  OBVIOUS
<1>6. AccRight(r) /\ r.next = a.next /\ (ignore => r.found = a.found)
  BY <1>1, <1>2, <1>4, <1>5, FoundRight
<1> QED BY <1>2, <1>3, <1>5, <1>6

\* the root window as the only screen
LEMMA ScanX11Right ==
    ASSUME NEW acc, AccRight(acc), ignore \in BOOLEAN
    PROVE  LET r == ScanX11(acc)
           IN  /\ AccRight(r) /\ r.next >= acc.next /\ Kept(acc, r)
               /\ r.found = (IF ignore THEN acc.found
                             ELSE Append(acc.found, [xid |-> NoXid, geo |-> Root, view |-> r.last]))
               /\ (\E i \in DOMAIN r.views : OldDriver(r.views, i)) <=> (\E i \in DOMAIN acc.views : OldDriver(acc.views, i))
<1> DEFINE a == ViewAdd(acc, Root, <<>>)
<1>1. Root \in Area /\ <<>> \in Seq(OutputName) /\ NoXid \in Xid \ {FakeXid}
  BY ScreensAssumption DEF Xid
<1>2. /\ AccRight(a) /\ a.found = acc.found /\ a.next >= acc.next
      /\ \E k \in DOMAIN a.views : Marks(acc, <<>>, a, k)
  BY <1>1, ViewAddRight
<1>3. ScanX11(acc) = Found(a, NoXid, Root)
  BY DEF ScanX11
<1> HIDE DEF a
<1>4. PICK k \in DOMAIN a.views : Marks(acc, <<>>, a, k)
  BY <1>2
<1>5. a.views[k].id = a.last /\ a.views[k].marked
  BY <1>4 DEF Marks
<1>6. PICK r : r = Found(a, NoXid, Root)
  OBVIOUS
<1>7. /\ AccRight(r) /\ r.views = a.views /\ r.next = a.next /\ r.last = a.last
      /\ r.found = (IF ignore THEN a.found ELSE Append(a.found, [xid |-> NoXid, geo |-> Root, view |-> a.last]))
  BY <1>1, <1>2, <1>5, <1>6, FoundRight
<1>8. Kept(acc, r)
  BY <1>4, <1>7 DEF Marks, Kept
<1>9. ASSUME NEW i \in DOMAIN acc.views
      PROVE  OldDriver(a.views, i) <=> OldDriver(acc.views, i)
  <2>1. i # k => a.views[i] = acc.views[i]
    BY <1>4, <1>9 DEF Marks
  <2>2. OldDriver(a.views, k) <=> (k \in DOMAIN acc.views /\ OldDriver(acc.views, k))
    BY <1>4, EmptyScreens DEF Marks
  <2> QED BY <2>1, <2>2 DEF OldDriver
<1>10. \A i \in DOMAIN a.views : OldDriver(a.views, i) => i \in DOMAIN acc.views
  BY <1>4, EmptyScreens DEF Marks
<1>11. \A i \in DOMAIN acc.views : i \in DOMAIN a.views
  BY <1>4 DEF Marks
<1>12. (\E i \in DOMAIN r.views : OldDriver(r.views, i)) <=> (\E i \in DOMAIN acc.views : OldDriver(acc.views, i))
  BY <1>7, <1>9, <1>10, <1>11
<1> QED BY <1>2, <1>3, <1>6, <1>7, <1>8, <1>12

\* what the list says of the first i monitors
Finds(l, i) ==
    LET outs == {j \in 1..i : layout[j].outs # <<>>}
    IN  /\ \A j \in outs : \E k \in DOMAIN l : l[k].geo = layout[j].area
        /\ \A k \in DOMAIN l : \E j \in outs : l[k].xid = layout[j].xid
        /\ XidsOnce(DOMAIN l, l)

ScanShows(a, i) ==
    \/ a.stop /\ a.found = <<>> /\ OldMarked(a)
    \/ ~a.stop /\ ~OldMarked(a) /\ Finds(a.found, i)

LayoutRight ==
    /\ layout \in Seq(Monitor)
    /\ \A i, j \in DOMAIN layout : layout[i].xid = layout[j].xid => i = j

LEMMA ScannedNext ==
    ASSUME NEW a, AccRight(a), NEW i \in DOMAIN layout, ScanShows(a, i - 1), LayoutRight, ignore \in BOOLEAN, ~ignore
    PROVE  ScanShows(RandrMonitor(a, layout[i]), i)
<1> DEFINE m == layout[i]
           r == RandrMonitor(a, m)
           outs(k) == {j \in 1..k : layout[j].outs # <<>>}
<1>1. i \in Nat /\ DOMAIN layout = 1..Len(layout) /\ Len(layout) \in Nat /\ m \in Monitor
  BY DEF LayoutRight
<1>2. /\ a.stop \/ m.outs = <<>> => r = a
      /\ ~a.stop /\ m.outs # <<>> /\ ~OldMarked(a) =>
            \/ r.stop /\ r.found = <<>> /\ OldMarked(r)
            \/ /\ ~r.stop /\ ~OldMarked(r)
               /\ r.found = Append(a.found, [xid |-> m.xid, geo |-> m.area, view |-> r.last])
  BY <1>1, RandrMonitorRight
<1>3. a.found \in Seq(Seen) /\ DOMAIN a.found = 1..Len(a.found) /\ AccRight(r)
  <2>1. AccRight(r)
    BY <1>1, RandrMonitorRight
  <2>2. a \in Acc
    BY DEF AccRight
  <2> QED BY <2>1, <2>2 DEF Acc
<1>4. CASE a.stop
  BY <1>2, <1>4 DEF ScanShows
<1>5. CASE ~a.stop /\ m.outs = <<>>
  <2>1. outs(i) = outs(i - 1)
    BY <1>1, <1>5
  <2>2. r = a /\ ~OldMarked(a) /\ Finds(a.found, i - 1)
    BY <1>2, <1>5 DEF ScanShows
  <2>3. Finds(a.found, i)
    BY <2>1, <2>2 DEF Finds
  <2> QED BY <1>5, <2>2, <2>3 DEF ScanShows
<1>6. CASE ~a.stop /\ m.outs # <<>>
  <2>1. ~OldMarked(a) /\ Finds(a.found, i - 1)
    BY <1>6 DEF ScanShows
  <2>2. outs(i) = outs(i - 1) \cup {i} /\ i \notin outs(i - 1) /\ outs(i) \subseteq DOMAIN layout
    BY <1>1, <1>6
  <2>3. CASE r.stop /\ r.found = <<>> /\ OldMarked(r)
    BY <2>3 DEF ScanShows
  <2>4. CASE ~r.stop /\ ~OldMarked(r) /\ r.found = Append(a.found, [xid |-> m.xid, geo |-> m.area, view |-> r.last])
    <3>1. PICK e : e = [xid |-> m.xid, geo |-> m.area, view |-> r.last]
      OBVIOUS
    <3>2. PICK l : l = a.found
      OBVIOUS
    <3>3. e.xid = m.xid /\ e.geo = m.area /\ r.found = Append(l, e) /\ l \in Seq(Seen \cup {e})
      BY <1>3, <2>4, <3>1, <3>2
    <3>4. PICK q : q = r.found
      OBVIOUS
    <3>5. /\ Len(l) + 1 \in DOMAIN q /\ q[Len(l) + 1] = e
          /\ \A k \in DOMAIN l : k \in DOMAIN q /\ q[k] = l[k]
          /\ \A k \in DOMAIN q : k = Len(l) + 1 \/ k \in DOMAIN l
      <4>1. q = Append(l, e) /\ e \in Seen \cup {e}
        BY <3>3, <3>4
      <4>2. /\ DOMAIN q = 1..(Len(l) + 1) /\ Len(l) \in Nat /\ q[Len(l) + 1] = e
            /\ \A k \in DOMAIN l : k \in DOMAIN q /\ q[k] = l[k]
            /\ \A k \in DOMAIN q : k = Len(l) + 1 \/ k \in DOMAIN l
        BY <3>3, <4>1, PushCall
      <4> QED BY <4>2
    <3>6. /\ \A j \in outs(i - 1) : \E k \in DOMAIN l : l[k].geo = layout[j].area
          /\ \A k \in DOMAIN l : \E j \in outs(i - 1) : l[k].xid = layout[j].xid
          /\ XidsOnce(DOMAIN l, l)
      BY <2>1, <3>2 DEF Finds
    <3> HIDE DEF outs
    <3>7. \A j \in outs(i) : \E k \in DOMAIN q : q[k].geo = layout[j].area
      BY <2>2, <3>3, <3>5, <3>6
    <3>8. \A k \in DOMAIN q : \E j \in outs(i) : q[k].xid = layout[j].xid
      BY <2>2, <3>3, <3>5, <3>6
    <3>9. \A k \in DOMAIN l : l[k].xid # e.xid
      BY <2>2, <3>3, <3>6 DEF LayoutRight
    <3>10. XidsOnce(DOMAIN q, q)
      BY <3>5, <3>6, <3>9 DEF XidsOnce
    <3>11. Finds(r.found, i)
      BY <3>4, <3>7, <3>8, <3>10 DEF Finds, outs
    <3> QED BY <2>4, <3>11 DEF ScanShows
  <2> QED BY <1>2, <1>6, <2>1, <2>3, <2>4
<1> QED BY <1>4, <1>5, <1>6

LEMMA ScanMonitorsRight ==
    ASSUME NEW acc, AccRight(acc), NEW withRandr \in BOOLEAN, ignore \in BOOLEAN, LayoutRight
    PROVE  LET r == ScanMonitors(acc, withRandr)
           IN  /\ AccRight(r) /\ r.next >= acc.next
               /\ ignore => r.found = acc.found
               /\ withRandr /\ ~ignore /\ ScanShows(acc, 0) => ScanShows(r, Len(layout))
<1> DEFINE n == Len(layout)
           one(a, i) == IF withRandr THEN RandrMonitor(a, layout[i]) ELSE XineramaMonitor(a, layout[i])
           Grown(a) == AccRight(a) /\ a.next >= acc.next /\ (ignore => a.found = acc.found)
           X == {a \in Acc : Grown(a)}
           goes == [x \in (1..n) \X X |-> one(x[2], x[1])]
           Computes(f) == f = [i \in 0..n |-> IF i = 0 THEN acc
                                              ELSE IF withRandr THEN RandrMonitor(f[i - 1], layout[i])
                                              ELSE XineramaMonitor(f[i - 1], layout[i])]
           seen == CHOOSE f : Computes(f)
<1>1. n \in Nat /\ DOMAIN layout = 1..n /\ \A i \in 1..n : layout[i] \in Monitor
  BY DEF LayoutRight
<1>2. \A a \in Acc : a.next \in Nat
  BY DEF Acc
<1>3. acc \in X
  <2>1. acc \in Acc
    BY DEF AccRight
  <2> QED BY <1>2, <2>1
<1>4. ASSUME NEW a \in X, NEW i \in 1..n PROVE one(a, i) \in X
  <2>1. layout[i] \in Monitor /\ AccRight(a) /\ a.next >= acc.next /\ (ignore => a.found = acc.found)
    BY <1>1
  <2>2. PICK r : r = one(a, i)
    OBVIOUS
  <2>3. AccRight(r) /\ r.next >= a.next /\ (ignore => r.found = a.found)
    <3>1. CASE withRandr
      BY <2>1, <2>2, <3>1, RandrMonitorRight
    <3>2. CASE ~withRandr
      BY <2>1, <2>2, <3>2, XineramaMonitorRight
    <3> QED BY <3>1, <3>2
  <2>4. r \in Acc
    BY <2>3 DEF AccRight
  <2>5. r.next >= acc.next
    BY <1>2, <1>3, <2>1, <2>3, <2>4
  <2>6. r \in X
    BY <2>1, <2>3, <2>4, <2>5
  <2> QED BY <2>2, <2>6
<1> HIDE DEF n, one, X
<1>5. goes \in [(1..n) \X X -> X]
  BY <1>4
<1>6. \E f : Computes(f)
  <2>1. PICK f \in [0..n -> X] : f[0] = acc /\ \A i \in 1..n : f[i] = goes[<<i, f[i - 1]>>]
    <3>1. PICK g : g = goes
      OBVIOUS
    <3> HIDE DEF goes
    <3>2. \E f \in [0..n -> X] : Steps(n, acc, g, f)
      BY <1>1, <1>3, <1>5, <3>1, NumberRecursion
    <3> QED BY <3>1, <3>2 DEF Steps
  <2>2. \A i \in 1..n : i - 1 \in 0..n /\ i \in 0..n /\ i # 0
    BY <1>1
  <2>3. \A i \in 1..n : f[i] = one(f[i - 1], i)
    <3>1. ASSUME NEW i \in 1..n PROVE f[i] = one(f[i - 1], i)
      <4>1. <<i, f[i - 1]>> \in (1..n) \X X
        BY <2>1, <2>2
      <4> QED BY <2>1, <4>1
    <3> QED BY <3>1
  <2>4. \A i \in 0..n : i = 0 \/ i \in 1..n
    BY <1>1
  <2>5. Computes(f)
    BY <2>1, <2>3, <2>4 DEF one
  <2> QED BY <2>5
<1>7. Computes(seen)
  BY <1>6
<1> HIDE DEF seen, goes
<1>8. ScanMonitors(acc, withRandr) = seen[n]
  BY DEF ScanMonitors, seen, n
<1>9. /\ seen[0] = acc
      /\ \A i \in 1..n : i \in Nat /\ i - 1 \in 0..n /\ i \in 0..n /\ i # 0
      /\ \A i \in 1..n : seen[i] = one(seen[i - 1], i)
  <2>1. 0 \in 0..n /\ \A i \in 1..n : i \in Nat /\ i - 1 \in 0..n /\ i \in 0..n /\ i # 0
    BY <1>1
  <2> QED BY <1>7, <2>1 DEF one
<1> HIDE DEF Computes
<1> DEFINE P == {i \in 0..n : seen[i] \in X /\ (withRandr /\ ~ignore /\ ScanShows(acc, 0) => ScanShows(seen[i], i))}
<1>10. 0 \in P
  <2>1. 0 \in 0..n
    BY <1>1
  <2> QED BY <1>3, <1>9, <2>1
<1>11. ASSUME NEW i \in 1..n, i - 1 \in P PROVE i \in P
  <2>1. seen[i] \in X /\ seen[i - 1] \in X /\ i \in 0..n
    BY <1>4, <1>9, <1>11
  <2>2. ASSUME withRandr, ~ignore, ScanShows(acc, 0) PROVE ScanShows(seen[i], i)
    <3>1. ScanShows(seen[i - 1], i - 1) /\ AccRight(seen[i - 1])
      BY <1>11, <2>1, <2>2 DEF X
    <3>2. ScanShows(RandrMonitor(seen[i - 1], layout[i]), i)
      BY <1>1, <2>2, <3>1, ScannedNext
    <3> QED BY <1>9, <2>2, <3>2 DEF one
  <2> QED BY <2>1, <2>2
<1>12. \A i \in 0..n : i \in P
  <2> HIDE DEF P
  <2> QED BY <1>1, <1>10, <1>11, NumberInduction DEF P
<1>13. n \in P
  <2>1. n \in 0..n
    BY <1>1
  <2> QED BY <1>12, <2>1
<1> QED BY <1>8, <1>13 DEF X, n

-----------------------------------------------------------------------------
(* Merging the screens at one place. *)

LEMMA WithinTransitive ==
    ASSUME NEW a \in Area, NEW b \in Area, NEW d \in Area, Within(a, b), Within(b, d)
    PROVE  Within(a, d)
<1>1. /\ a.x \in Int /\ a.y \in Int /\ a.w \in Nat /\ a.h \in Nat /\ b.x \in Int /\ b.y \in Int /\ b.w \in Nat /\ b.h \in Nat
      /\ d.x \in Int /\ d.y \in Int /\ d.w \in Nat /\ d.h \in Nat
  BY DEF Area
<1> QED BY <1>1 DEF Within

\* r has of l what screen_deduplicate leaves
Stems(l, r) ==
    /\ \A k \in DOMAIN l : \E m \in DOMAIN r : Within(l[k].geo, r[m].geo)
    /\ \A m \in DOMAIN r : \E k \in DOMAIN l : r[m].xid = l[k].xid /\ r[m].view = l[k].view
    /\ XidsOnce(DOMAIN l, l) => XidsOnce(DOMAIN r, r)

LEMMA StemsTransitive ==
    ASSUME NEW l \in Seq(Seen), NEW q \in Seq(Seen), NEW r \in Seq(Seen), Stems(l, q), Stems(q, r)
    PROVE  Stems(l, r)
<1>1. ASSUME NEW k \in DOMAIN l PROVE \E m \in DOMAIN r : Within(l[k].geo, r[m].geo)
  <2>1. PICK i \in DOMAIN q : Within(l[k].geo, q[i].geo)
    BY DEF Stems
  <2>2. PICK m \in DOMAIN r : Within(q[i].geo, r[m].geo)
    BY DEF Stems
  <2>3. l[k] \in Seen /\ q[i] \in Seen /\ r[m] \in Seen
    OBVIOUS
  <2>4. l[k].geo \in Area /\ q[i].geo \in Area /\ r[m].geo \in Area
    BY <2>3 DEF Seen
  <2> QED BY <2>1, <2>2, <2>4, WithinTransitive
<1>2. ASSUME NEW m \in DOMAIN r PROVE \E k \in DOMAIN l : r[m].xid = l[k].xid /\ r[m].view = l[k].view
  <2>1. PICK i \in DOMAIN q : r[m].xid = q[i].xid /\ r[m].view = q[i].view
    BY DEF Stems
  <2>2. PICK k \in DOMAIN l : q[i].xid = l[k].xid /\ q[i].view = l[k].view
    BY DEF Stems
  <2> QED BY <2>1, <2>2
<1>3. XidsOnce(DOMAIN l, l) => XidsOnce(DOMAIN r, r)
  BY DEF Stems
<1> QED BY <1>1, <1>2, <1>3 DEF Stems

LEMMA StemsSame ==
    ASSUME NEW l \in Seq(Seen)
    PROVE  Stems(l, l)
<1>1. ASSUME NEW k \in DOMAIN l PROVE Within(l[k].geo, l[k].geo)
  <2>1. l[k] \in Seen
    OBVIOUS
  <2>2. PICK a : a = l[k].geo
    OBVIOUS
  <2>3. a \in Area
    BY <2>1, <2>2 DEF Seen
  <2>4. Within(a, a)
    BY <2>3 DEF Within, Area
  <2> QED BY <2>2, <2>4
<1> QED BY <1>1 DEF Stems

LEMMA LargerOne ==
    \A v, w \in Nat \ {0} : \A m : m = (IF v >= w THEN v ELSE w) => m \in Nat \ {0} /\ m >= v /\ m >= w
OBVIOUS

LEMMA SumGrows == \A x \in Int, v, w \in Nat \ {0} : w >= v => x + v <= x + w
OBVIOUS

LEMMA MergeRight ==
    ASSUME NEW l \in Seq(Seen), NEW i \in DOMAIN l, NEW j \in DOMAIN l, Duplicate(l, i, j)
    PROVE  LET r == Merge(l, i, j)
           IN  r \in Seq(Seen) /\ Len(r) = Len(l) - 1 /\ Stems(l, r)
<1> DEFINE W == Max({l[i].geo.w, l[j].geo.w})
           H == Max({l[i].geo.h, l[j].geo.h})
<1>1. l[i] \in Seen /\ l[j] \in Seen /\ DOMAIN l = 1..Len(l) /\ Len(l) \in Nat /\ i \in Nat /\ j \in Nat
  OBVIOUS
<1>2. PICK a, b : a = l[i].geo /\ b = l[j].geo
  OBVIOUS
<1>3. /\ a \in Area /\ b \in Area /\ a.x = b.x /\ a.y = b.y /\ i # j
  BY <1>1, <1>2 DEF Seen, Duplicate
<1>4. /\ a.x \in Int /\ a.y \in Int /\ a.w \in Nat \ {0} /\ a.h \in Nat \ {0} /\ b.x \in Int /\ b.y \in Int
      /\ b.w \in Nat \ {0} /\ b.h \in Nat \ {0}
  BY <1>3 DEF Area
<1>5. W \in Nat \ {0} /\ H \in Nat \ {0} /\ W >= a.w /\ W >= b.w /\ H >= a.h /\ H >= b.h
  <2>1. W = Max({a.w, b.w}) /\ H = Max({a.h, b.h})
    BY <1>2
  <2>2. a.w \in Int /\ b.w \in Int /\ a.h \in Int /\ b.h \in Int
    BY <1>4
  <2>3. W = (IF a.w >= b.w THEN a.w ELSE b.w) /\ H = (IF a.h >= b.h THEN a.h ELSE b.h)
    BY <2>1, <2>2, TwoNumbers
  <2> HIDE DEF W, H
  <2>4. W \in Nat \ {0} /\ W >= a.w /\ W >= b.w
    BY <1>4, <2>3, LargerOne
  <2>5. H \in Nat \ {0} /\ H >= a.h /\ H >= b.h
    BY <1>4, <2>3, LargerOne
  <2> QED BY <2>4, <2>5
<1> HIDE DEF W, H
<1>6. PICK g : g = [a EXCEPT !.w = W, !.h = H]
  OBVIOUS
<1>7. g \in Area /\ Within(a, g) /\ Within(b, g)
  <2>1. g \in Area /\ g.x = a.x /\ g.y = a.y /\ g.w = W /\ g.h = H
    BY <1>3, <1>5, <1>6 DEF Area
  <2>2. /\ g.x = a.x /\ g.y = a.y /\ a.x + a.w <= g.x + g.w /\ a.y + a.h <= g.y + g.h
        /\ g.x = b.x /\ g.y = b.y /\ b.x + b.w <= g.x + g.w /\ b.y + b.h <= g.y + g.h
    <3>1. a.x + a.w <= a.x + W /\ a.y + a.h <= a.y + H
      BY <1>4, <1>5, SumGrows
    <3>2. b.x + b.w <= b.x + W /\ b.y + b.h <= b.y + H
      BY <1>4, <1>5, SumGrows
    <3> QED BY <1>3, <2>1, <3>1, <3>2, ZenonT(30)
  <2>3. g.x <= a.x /\ g.y <= a.y /\ g.x <= b.x /\ g.y <= b.y
    BY <1>4, <2>2
  <2> QED BY <2>1, <2>2, <2>3 DEF Within
<1>8. PICK e : e = [l[i] EXCEPT !.geo = g]
  OBVIOUS
<1>9. e \in Seen /\ e.geo = g /\ e.xid = l[i].xid /\ e.view = l[i].view
  BY <1>1, <1>7, <1>8 DEF Seen
<1>10. PICK q : q = [l EXCEPT ![i] = e]
  OBVIOUS
<1>11. q \in Seq(Seen) /\ DOMAIN q = DOMAIN l /\ Len(q) = Len(l) /\ q[i] = e /\ \A k \in DOMAIN l : k # i => q[k] = l[k]
  BY <1>9, <1>10
<1>12. PICK r : r = RemoveAt(q, j)
  OBVIOUS
<1>13. Merge(l, i, j) = r
  <2>1. Merge(l, i, j) = RemoveAt([l EXCEPT ![i] = [l[i] EXCEPT !.geo = [l[i].geo EXCEPT !.w = W, !.h = H]]], j)
    BY <1>1, <1>2, <1>3 DEF Merge, W, H, Seen, Area
  <2> QED BY <1>2, <1>6, <1>8, <1>10, <1>12, <2>1
<1>14. /\ r \in Seq(Seen) /\ Len(r) = Len(l) - 1
       /\ \A k \in DOMAIN r : r[k] = IF k < j THEN q[k] ELSE q[k + 1]
  <2>1. r = SubSeq(q, 1, j - 1) \o SubSeq(q, j + 1, Len(q))
    BY <1>12 DEF RemoveAt
  <2>2. j \in DOMAIN q
    BY <1>11
  <2>3. /\ r \in Seq(Seen) /\ Len(r) = Len(q) - 1
        /\ \A k \in DOMAIN r : r[k] = IF k < j THEN q[k] ELSE q[k + 1]
    BY <1>11, <2>1, <2>2, RemoveElement
  <2> QED BY <1>11, <2>3
<1>15. DOMAIN r = 1..(Len(l) - 1)
  BY <1>14
<1> DEFINE from(k) == IF k < j THEN k ELSE k + 1
           to(k) == IF k < j THEN k ELSE k - 1
<1>16. /\ \A k \in DOMAIN r : from(k) \in DOMAIN l /\ r[k] = q[from(k)]
       /\ \A k, m \in DOMAIN r : from(k) = from(m) => k = m
       /\ \A k \in DOMAIN l : k # j => to(k) \in DOMAIN r /\ from(to(k)) = k
  BY <1>1, <1>14, <1>15
<1> HIDE DEF from, to
<1>17. \A k \in DOMAIN l : q[k].xid = l[k].xid /\ q[k].view = l[k].view
  BY <1>9, <1>11
<1>18. ASSUME NEW k \in DOMAIN l PROVE \E m \in DOMAIN r : Within(l[k].geo, r[m].geo)
  <2>1. to(i) \in DOMAIN r /\ r[to(i)] = e
    BY <1>3, <1>11, <1>16
  <2>2. CASE k = i \/ k = j
    BY <1>2, <1>7, <1>9, <2>1, <2>2
  <2>3. CASE k # i /\ k # j
    <3>1. to(k) \in DOMAIN r /\ r[to(k)] = l[k]
      BY <1>11, <1>16, <2>3
    <3>2. Within(l[k].geo, l[k].geo)
      <4>1. l[k] \in Seen
        OBVIOUS
      <4>2. PICK s : s = l[k].geo
        OBVIOUS
      <4>3. s \in Area
        BY <4>1, <4>2 DEF Seen
      <4>4. Within(s, s)
        BY <4>3 DEF Within, Area
      <4> QED BY <4>2, <4>4
    <3> QED BY <3>1, <3>2
  <2> QED BY <2>2, <2>3
<1>19. Stems(l, r)
  <2>1. \A m \in DOMAIN r : r[m].xid = l[from(m)].xid /\ r[m].view = l[from(m)].view
    BY <1>16, <1>17
  <2>2. XidsOnce(DOMAIN l, l) => XidsOnce(DOMAIN r, r)
    BY <1>16, <2>1 DEF XidsOnce
  <2> QED BY <1>16, <1>18, <2>1, <2>2 DEF Stems
<1> QED BY <1>13, <1>14, <1>19

NoDuplicates(l) == \A i, j \in DOMAIN l : ~Duplicate(l, i, j)

LEMMA MergeFirstRight ==
    ASSUME NEW l \in Seq(Seen)
    PROVE  LET r == MergeFirst(l)
           IN  /\ r \in Seq(Seen) /\ Stems(l, r)
               /\ IF NoDuplicates(l) THEN r = l ELSE Len(r) = Len(l) - 1
<1> DEFINE first == {i \in DOMAIN l : \E j \in DOMAIN l : Duplicate(l, i, j)}
           i == Min(first)
           second == {j \in DOMAIN l : Duplicate(l, i, j)}
<1>1. DOMAIN l = 1..Len(l) /\ Len(l) \in Nat
  OBVIOUS
<1>2. CASE first = {}
  <2>1. MergeFirst(l) = l /\ NoDuplicates(l)
    BY <1>2 DEF MergeFirst, NoDuplicates
  <2> QED BY <2>1, StemsSame
<1>3. CASE first # {}
  <2>1. first \in SUBSET (1..Len(l))
    BY <1>1
  <2>2. i \in first
    BY <1>1, <1>3, <2>1, SomePlace
  <2>3. second # {} /\ second \in SUBSET (1..Len(l)) /\ i \in DOMAIN l
    BY <1>1, <2>2
  <2>4. Min(second) \in second
    BY <1>1, <2>3, SomePlace
  <2>5. MergeFirst(l) = Merge(l, i, Min(second))
    BY <1>3 DEF MergeFirst
  <2>6. Min(second) \in DOMAIN l /\ Duplicate(l, i, Min(second))
    BY <2>4
  <2> HIDE DEF i, second
  <2>7. ~NoDuplicates(l)
    BY <2>3, <2>6 DEF NoDuplicates
  <2> QED BY <2>3, <2>5, <2>6, <2>7, MergeRight
<1> QED BY <1>2, <1>3

LEMMA DeduplicateRight ==
    ASSUME NEW l \in Seq(Seen)
    PROVE  LET r == Deduplicate(l)
           IN  /\ r \in Seq(Seen) /\ Stems(l, r) /\ (r = <<>> <=> l = <<>>) /\ Apart(DOMAIN r, r)
               /\ Len(r) <= Len(l)
<1> DEFINE n == Len(l)
           X == Seq(Seen)
           goes == [x \in (1..n) \X X |-> MergeFirst(x[2])]
           Computes(f) == f = [i \in 0..n |-> IF i = 0 THEN l ELSE MergeFirst(f[i - 1])]
           merged == CHOOSE f : Computes(f)
<1>1. n \in Nat /\ l \in X
  OBVIOUS
<1>2. goes \in [(1..n) \X X -> X]
  BY MergeFirstRight
<1> HIDE DEF n, X
<1>3. \E f : Computes(f)
  <2>1. PICK f \in [0..n -> X] : f[0] = l /\ \A i \in 1..n : f[i] = goes[<<i, f[i - 1]>>]
    <3>1. PICK g : g = goes
      OBVIOUS
    <3> HIDE DEF goes
    <3>2. \E f \in [0..n -> X] : Steps(n, l, g, f)
      BY <1>1, <1>2, <3>1, NumberRecursion
    <3> QED BY <3>1, <3>2 DEF Steps
  <2>2. \A i \in 1..n : i - 1 \in 0..n /\ i \in 0..n /\ i # 0
    BY <1>1
  <2>3. \A i \in 1..n : f[i] = MergeFirst(f[i - 1])
    <3>1. ASSUME NEW i \in 1..n PROVE f[i] = MergeFirst(f[i - 1])
      <4>1. <<i, f[i - 1]>> \in (1..n) \X X
        BY <2>1, <2>2
      <4> QED BY <2>1, <4>1
    <3> QED BY <3>1
  <2>4. \A i \in 0..n : i = 0 \/ i \in 1..n
    BY <1>1
  <2>5. Computes(f)
    BY <2>1, <2>3, <2>4
  <2> QED BY <2>5
<1>4. Computes(merged)
  BY <1>3
<1> HIDE DEF merged, goes
<1>5. Deduplicate(l) = merged[n]
  BY DEF Deduplicate, merged, n
<1>6. /\ merged[0] = l
      /\ \A i \in 1..n : i \in Nat /\ i - 1 \in 0..n /\ i \in 0..n /\ i # 0
      /\ \A i \in 1..n : merged[i] = MergeFirst(merged[i - 1])
  <2>1. 0 \in 0..n /\ \A i \in 1..n : i \in Nat /\ i - 1 \in 0..n /\ i \in 0..n /\ i # 0
    BY <1>1
  <2> QED BY <1>4, <2>1
<1> HIDE DEF Computes
<1> DEFINE Fits(i, r) == r \in X /\ Stems(l, r) /\ Len(r) <= n /\ (NoDuplicates(r) \/ Len(r) <= n - i)
           P == {i \in 0..n : Fits(i, merged[i])}
<1>7. 0 \in P
  <2>1. 0 \in 0..n
    BY <1>1
  <2>2. Stems(l, l) /\ Len(l) <= n /\ Len(l) <= n - 0
    BY <1>1, StemsSame DEF X, n
  <2> QED BY <1>1, <1>6, <2>1, <2>2
<1>8. ASSUME NEW i \in 1..n, i - 1 \in P PROVE i \in P
  <2>1. PICK q, r : q = merged[i - 1] /\ r = merged[i]
    OBVIOUS
  <2>2. q \in X /\ Stems(l, q) /\ Len(q) <= n /\ (NoDuplicates(q) \/ Len(q) <= n - (i - 1)) /\ r = MergeFirst(q) /\ i \in Nat
    BY <1>6, <1>8, <2>1
  <2>3. r \in X /\ Stems(q, r) /\ (IF NoDuplicates(q) THEN r = q ELSE Len(r) = Len(q) - 1)
    BY <2>2, MergeFirstRight DEF X
  <2>4. Stems(l, r)
    BY <1>1, <2>2, <2>3, StemsTransitive DEF X
  <2>5. Len(q) \in Nat /\ Len(r) \in Nat
    BY <2>2, <2>3 DEF X
  <2>8. Len(r) <= n /\ (NoDuplicates(r) \/ Len(r) <= n - i)
    <3>1. CASE NoDuplicates(q)
      BY <2>2, <2>3, <3>1
    <3>2. CASE ~NoDuplicates(q)
      BY <1>1, <2>2, <2>3, <2>5, <3>2
    <3> QED BY <3>1, <3>2
  <2> QED BY <1>6, <2>1, <2>3, <2>4, <2>8
<1>9. \A i \in 0..n : i \in P
  <2> HIDE DEF P
  <2> QED BY <1>1, <1>7, <1>8, NumberInduction DEF P
<1>10. PICK r : r = merged[n]
  OBVIOUS
<1>11. Fits(n, r)
  <2>1. n \in 0..n
    BY <1>1
  <2> QED BY <1>9, <1>10, <2>1
<1>12. NoDuplicates(r)
  <2>1. CASE Len(r) <= n - n
    <3>1. Len(r) \in Nat
      BY <1>11 DEF X
    <3>2. Len(r) = 0
      BY <1>1, <2>1, <3>1
    <3>3. DOMAIN r = {}
      BY <1>11, <3>2 DEF X
    <3> QED BY <3>3 DEF NoDuplicates
  <2> QED BY <1>11, <2>1
<1>13. Apart(DOMAIN r, r)
  <2>1. SUFFICES ASSUME NEW s \in DOMAIN r, NEW t \in DOMAIN r, s # t,
                        <<r[s].geo.x, r[s].geo.y>> = <<r[t].geo.x, r[t].geo.y>>
                 PROVE  FALSE
    BY DEF Apart
  <2>2. r[s] \in Seen /\ r[t] \in Seen
    BY <1>11 DEF X
  <2>3. PICK a, b : a = r[s].geo /\ b = r[t].geo
    OBVIOUS
  <2>4. a \in Area /\ b \in Area
    BY <2>2, <2>3 DEF Seen
  <2>5. a.w \in Nat /\ b.w \in Nat
    BY <2>4 DEF Area
  <2>6. a.x = b.x /\ a.y = b.y /\ s # t
    BY <2>1, <2>3
  <2>7. a.w < b.w => ~(b.w < a.w)
    BY <2>5
  <2>8. Duplicate(r, s, t) \/ Duplicate(r, t, s)
    BY <2>3, <2>6, <2>7 DEF Duplicate
  <2> QED BY <1>12, <2>8 DEF NoDuplicates
<1>14. r = <<>> <=> l = <<>>
  <2>1. r \in Seq(Seen) /\ Stems(l, r)
    BY <1>11 DEF X
  <2>2. DOMAIN r = {} <=> DOMAIN l = {}
    BY <2>1 DEF Stems
  <2> QED BY <2>1, <2>2
<1> QED BY <1>5, <1>10, <1>11, <1>13, <1>14 DEF X, n

-----------------------------------------------------------------------------
(* Steps that leave the real screens alone. *)

LEMMA ScreensKept ==
    ASSUME ScreensInv, UNCHANGED <<screens, info, views, nextView, ignore, randr, pending, run, told, layout>>
    PROVE  /\ ViewsRight' /\ ListsRight' /\ ListedRight' /\ NewRight' /\ PhasesRight' /\ SomeScreen'
           /\ PicturesRight' /\ Real' = Real /\ InView' = InView
<1>1. Real' = Real /\ InView' = InView
  BY DEF Real, InView, Compat
<1>2. ViewsRight' /\ ListsRight' /\ ListedRight'
  BY DEF ScreensInv, PointersRight, ViewsRight, ListsRight, ListedRight
<1>3. NewRight'
  BY DEF ScreensInv, PointersRight, NewRight, Known
<1>4. PhasesRight' /\ SomeScreen'
  BY <1>1 DEF ScreensInv, PointersRight, PhasesRight, SomeScreen, Refreshing
<1>5. ScanRight' /\ NewOnce'
  BY <1>1 DEF ScreensInv, PicturesRight, ScanRight, NewOnce
<1>6. Matching' /\ Settled' /\ RealApart'
  BY <1>1 DEF ScreensInv, PicturesRight, Matching, Settled, RealApart
<1> QED BY <1>1, <1>2, <1>3, <1>4, <1>5, <1>6 DEF PicturesRight

LEMMA SameShows ==
    ASSUME NEW S, NEW f, NEW g, \A s \in S : f[s].xid = g[s].xid /\ f[s].geo = g[s].geo, NEW shown
    PROVE  /\ Shows(shown, S, f) => Shows(shown, S, g)
           /\ Apart(S, f) => Apart(S, g)
           /\ XidsOnce(S, f) => XidsOnce(S, g)
<1>1. Shows(shown, S, f) => Shows(shown, S, g)
  <2>1. {f[s].xid : s \in S} = {g[s].xid : s \in S}
    OBVIOUS
  <2>2. (\A m \in shown : \E s \in S : Within(m.area, f[s].geo)) => \A m \in shown : \E s \in S : Within(m.area, g[s].geo)
    OBVIOUS
  <2> QED BY <2>1, <2>2 DEF Shows
<1>2. Apart(S, f) => Apart(S, g)
  BY DEF Apart
<1>3. XidsOnce(S, f) => XidsOnce(S, g)
  BY DEF XidsOnce
<1> QED BY <1>1, <1>2, <1>3

LEMMA SamePictures ==
    ASSUME ScreensInv, UNCHANGED <<views, ignore, randr, pending, told, layout>>,
           run'.pc = run.pc, run'.found = run.found, run'.new = run.new, run'.left = run.left,
           Real' = Real, \A o \in Real \cup ToSet(run.new) : info'[o].xid = info[o].xid /\ info'[o].geo = info[o].geo
    PROVE  PicturesRight'
<1>1. InView' = InView
  BY DEF InView, Compat
<1>2. PICK n : n = ToSet(run.new)
  OBVIOUS
<1>3. /\ Shows(InView, n, info) => Shows(InView, n, info')
      /\ Apart(n, info) => Apart(n, info')
      /\ XidsOnce(n, info) => XidsOnce(n, info')
  BY <1>2, SameShows
<1>4. /\ Shows(InView, Real, info) => Shows(InView, Real, info')
      /\ Apart(Real, info) => Apart(Real, info')
      /\ XidsOnce(Real, info) => XidsOnce(Real, info')
  BY SameShows
<1>5. ScanRight'
  BY <1>1, <1>2, <1>3 DEF ScreensInv, PicturesRight, ScanRight
<1>6. NewOnce'
  BY <1>2, <1>3, <1>4 DEF ScreensInv, PicturesRight, NewOnce
<1>7. Matching'
  BY DEF ScreensInv, PicturesRight, Matching
<1>8. Settled' /\ RealApart'
  BY <1>1, <1>4 DEF ScreensInv, PicturesRight, Settled, RealApart
<1> QED BY <1>5, <1>6, <1>7, <1>8 DEF PicturesRight

\* the types of what an action reads
LEMMA Fields ==
    ASSUME ScreensTypes
    PROVE  /\ run.pc \in Pc /\ run.found \in Seq(Seen) /\ run.new \in Seq(Object) /\ run.left \in Seq(Object) /\ run.gone \in Seq(Object)
           /\ \A o \in Object : /\ info[o] \in ScreenState /\ info[o].valid \in BOOLEAN /\ info[o].c \in BOOLEAN /\ info[o].xid \in Xid
                                /\ info[o].geo \in Area /\ info[o].work \in Part /\ info[o].view \in Nat /\ info[o].refs \in 0..2
           /\ \A S \in {ToSet(screens), ToSet(run.new), ToSet(run.left), ToSet(run.gone)} : S \subseteq Object
           /\ Real \subseteq ToSet(screens)
<1>1. /\ run.pc \in Pc /\ run.found \in Seq(Seen) /\ run.new \in Seq(Object) /\ run.left \in Seq(Object) /\ run.gone \in Seq(Object)
  BY DEF ScreensTypes
<1>2. ASSUME NEW o \in Object
      PROVE  /\ info[o] \in ScreenState /\ info[o].valid \in BOOLEAN /\ info[o].c \in BOOLEAN /\ info[o].xid \in Xid
             /\ info[o].geo \in Area /\ info[o].work \in Part /\ info[o].view \in Nat /\ info[o].refs \in 0..2
  <2>1. info[o] \in ScreenState
    BY DEF ScreensTypes
  <2> QED BY <2>1 DEF ScreenState
<1>3. \A l \in Seq(Object) : ToSet(l) \subseteq Object
  BY DEF ToSet
<1>4. screens \in Seq(Object)
  BY DEF ScreensTypes
<1> QED BY <1>1, <1>2, <1>3, <1>4 DEF Real

LEMMA AreaInside == ASSUME NEW a \in Area PROVE Within(a, a) /\ a \in Part
BY DEF Within, Area, Part

\* the primary screen after screen_update_primary
LEMMA PrimaryRight ==
    ASSUME NEW l \in Seq(Object), NEW f, NEW vs, NEW was
    PROVE  UpdatePrimary(l, f, vs, was) \in ToSet(l) \cup {was}
<1> DEFINE shows == {i \in DOMAIN l : main \in Outputs(vs, f[l[i]].view)}
<1>1. CASE shows = {}
  BY <1>1 DEF UpdatePrimary
<1>2. CASE shows # {}
  <2>1. DOMAIN l = 1..Len(l) /\ Len(l) \in Nat
    OBVIOUS
  <2>2. shows \in SUBSET (1..Len(l))
    BY <2>1
  <2>3. Max(shows) \in DOMAIN l
    BY <1>2, <2>1, <2>2, SomePlace
  <2>4. l[Max(shows)] \in ToSet(l)
    BY <2>3 DEF ToSet
  <2> QED BY <2>4 DEF UpdatePrimary
<1> QED BY <1>1, <1>2

-----------------------------------------------------------------------------
(* The steps of Lua and the X server. *)

LEMMA ScrReadPrimary == ASSUME ScreensInv, ReadPrimary PROVE ScreensInv'
<1> USE DEF ReadPrimary, MayAct
<1>1. UNCHANGED <<screens, info, views, nextView, ignore, randr, pending, run, told, layout, on, at, strut, changes>>
      /\ primary' = screens[1] /\ screens # <<>> /\ lua' = lua - 1 /\ lua > 0
  BY DEF xserver
<1>2. screens[1] \in ToSet(screens) /\ ToSet(screens) \subseteq Object
  <2>1. screens \in Seq(Object)
    BY DEF ScreensInv, PointersRight, ScreensTypes
  <2> QED BY <1>1, <2>1 DEF ToSet
<1>3. ScreensTypes'
  <2>1. MaxLua \in Nat
    BY ScreensAssumption
  <2> QED BY <1>1, <1>2, <2>1 DEF ScreensInv, PointersRight, ScreensTypes
<1>4. ClientsRight'
  BY <1>1, <1>2 DEF ScreensInv, PointersRight, ClientsRight, ClientsOnScreens
<1> QED BY <1>1, <1>3, <1>4, ScreensKept DEF ScreensInv, PointersRight

LEMMA ScrMoveClient == ASSUME ScreensInv, NEW c \in Client, NEW g \in Places, MoveClient(c, g) PROVE ScreensInv'
<1>1. /\ UNCHANGED <<screens, info, views, nextView, strut, primary, ignore, randr, pending, run, told, layout, changes>>
      /\ lua' = lua - 1 /\ lua > 0 /\ on[c] # NoScreen /\ run.pc # "boot" /\ at' = [at EXCEPT ![c] = g]
      /\ on' = [on EXCEPT ![c] = IF AreaInScreen(info[on[c]].geo, g) THEN on[c] ELSE ByCoord(screens, info, g)]
  BY DEF MoveClient, MayAct, xserver
<1>2. /\ screens \in Seq(Object) /\ info \in [Object -> ScreenState] /\ on \in [Client -> Object \cup {NoScreen}] /\ g \in Area
      /\ at \in [Client -> Area] /\ ClientsOnScreens /\ MaxLua \in Nat /\ lua \in 0..MaxLua
  BY <1>1, ScreensAssumption DEF ScreensInv, PointersRight, ScreensTypes, ClientsRight
<1>3. PICK to : to = IF AreaInScreen(info[on[c]].geo, g) THEN on[c] ELSE ByCoord(screens, info, g)
  OBVIOUS
<1>4. to \in Object \cup {NoScreen} /\ IF to = NoScreen THEN screens = <<>> ELSE to \in ToSet(screens) \cup ToSet(run.gone)
  <2>1. ToSet(screens) \subseteq Object
    BY <1>2 DEF ToSet
  <2>2. CASE to = on[c]
    BY <1>1, <1>2, <2>2 DEF ClientsOnScreens
  <2>3. CASE to = ByCoord(screens, info, g)
    <3>1. 0 \notin Object
      BY ScreensAssumption DEF Object
    <3> QED BY <1>2, <2>1, <2>3, <3>1, ByCoordRight DEF NoScreen
  <2> QED BY <1>3, <2>2, <2>3
<1>5. on' = [on EXCEPT ![c] = to]
  BY <1>1, <1>3
<1>6. ScreensTypes'
  BY <1>1, <1>2, <1>4, <1>5 DEF ScreensInv, PointersRight, ScreensTypes
<1>7. ClientsRight'
  BY <1>1, <1>2, <1>4, <1>5 DEF ScreensInv, PointersRight, ClientsRight, ClientsOnScreens
<1> QED BY <1>1, <1>6, <1>7, ScreensKept DEF ScreensInv, PointersRight

LEMMA ScrSetScreen == ASSUME ScreensInv, NEW c \in Client, NEW o \in Object, SetScreen(c, o) PROVE ScreensInv'
<1>1. /\ UNCHANGED <<screens, info, views, nextView, strut, primary, ignore, randr, pending, run, told, layout, changes>>
      /\ lua' = lua - 1 /\ lua > 0 /\ on[c] # NoScreen /\ run.pc # "boot" /\ o \in ToSet(screens)
      /\ at' = [at EXCEPT ![c] = Fitted(at[c], info[on[c]].geo, info[o].geo)] /\ on' = [on EXCEPT ![c] = o]
  BY DEF SetScreen, MayAct, xserver
<1>2. /\ on \in [Client -> Object \cup {NoScreen}] /\ info \in [Object -> ScreenState]
      /\ at \in [Client -> Area] /\ ClientsOnScreens /\ MaxLua \in Nat /\ lua \in 0..MaxLua
  BY <1>1, ScreensAssumption DEF ScreensInv, PointersRight, ScreensTypes, ClientsRight
<1>3. Fitted(at[c], info[on[c]].geo, info[o].geo) \in Area
  <2>1. on[c] \in Object
    BY <1>1, <1>2
  <2>2. info[on[c]].geo \in Area /\ info[o].geo \in Area
    BY <2>1, Fields DEF ScreensInv, PointersRight
  <2> QED BY <1>2, <2>2, FittedRight
<1>4. ScreensTypes'
  BY <1>1, <1>2, <1>3 DEF ScreensInv, PointersRight, ScreensTypes
<1>5. 0 \notin Object
  BY ScreensAssumption DEF Object
<1>6. ClientsRight'
  BY <1>1, <1>2, <1>5 DEF ScreensInv, PointersRight, ClientsRight, ClientsOnScreens, NoScreen
<1> QED BY <1>1, <1>4, <1>6, ScreensKept DEF ScreensInv, PointersRight

LEMMA ScrPlug == ASSUME ScreensInv, NEW l \in Layouts, NEW m \in Output, Plug(l, m) PROVE ScreensInv'
<1>1. /\ UNCHANGED <<screens, info, views, nextView, at, on, strut, primary, ignore, randr, pending, run, lua>>
      /\ layout' = l /\ told' = TRUE /\ changes' = changes + 1
  BY DEF Plug
<1>2. ScreensTypes'
  BY <1>1 DEF ScreensInv, PointersRight, ScreensTypes
<1>3. Real' = Real
  BY <1>1 DEF Real
<1>4. ViewsRight' /\ ListsRight' /\ ListedRight' /\ NewRight'
  BY <1>1 DEF ScreensInv, PointersRight, ViewsRight, ListsRight, ListedRight, NewRight, Known
<1>5. PhasesRight' /\ SomeScreen' /\ ClientsRight'
  BY <1>1, <1>3 DEF ScreensInv, PointersRight, PhasesRight, SomeScreen, Refreshing, ClientsRight, ClientsOnScreens
<1>6. ScanRight' /\ Settled'
  BY <1>1 DEF ScanRight, Settled
<1>7. NewOnce' /\ Matching' /\ RealApart'
  BY <1>1, <1>3 DEF ScreensInv, PicturesRight, NewOnce, Matching, RealApart
<1> QED BY <1>2, <1>4, <1>5, <1>6, <1>7 DEF ScreensInv, PointersRight, PicturesRight

LEMMA ScrRandrEvent == ASSUME ScreensInv, RandrEvent PROVE ScreensInv'
<1>1. /\ UNCHANGED <<screens, info, views, nextView, at, on, strut, ignore, randr, run, lua, layout, changes>>
      /\ run.pc = "idle" /\ told' = FALSE /\ pending' = (pending \/ randr)
      /\ primary' = UpdatePrimary(screens, info, views, primary)
  BY DEF RandrEvent
<1>2. primary' \in ToSet(screens) \cup {primary} /\ ToSet(screens) \subseteq Object
  BY <1>1, Fields, PrimaryRight DEF ScreensInv, PointersRight, ScreensTypes
<1>3. ScreensTypes'
  BY <1>1, <1>2 DEF ScreensInv, PointersRight, ScreensTypes
<1>4. Real' = Real
  BY <1>1 DEF Real
<1>5. ViewsRight' /\ ListsRight' /\ ListedRight' /\ NewRight'
  BY <1>1 DEF ScreensInv, PointersRight, ViewsRight, ListsRight, ListedRight, NewRight, Known
<1>6. PhasesRight'
  BY <1>1 DEF ScreensInv, PointersRight, PhasesRight, Refreshing
<1>7. SomeScreen' /\ ClientsRight'
  BY <1>1, <1>2, <1>4 DEF ScreensInv, PointersRight, SomeScreen, ClientsRight, ClientsOnScreens
<1>8. ScanRight' /\ Settled' /\ Matching' /\ RealApart'
  BY <1>1 DEF ScanRight, Settled, Matching, RealApart
<1>9. NewOnce'
  BY <1>1, <1>4 DEF ScreensInv, PicturesRight, NewOnce
<1> QED BY <1>3, <1>5, <1>6, <1>7, <1>8, <1>9 DEF ScreensInv, PointersRight, PicturesRight

LEMMA AllocatedRight ==
    ASSUME NEW n \in Nat, Room(n)
    PROVE  /\ Allocated(n) \in Seq(Object) /\ Len(Allocated(n)) = n /\ IsInjective(Allocated(n))
           /\ DOMAIN Allocated(n) = 1..n /\ \A o \in ToSet(Allocated(n)) : o \in Object /\ info[o].refs = 0
<1> DEFINE free == {o \in Object : info[o].refs = 0}
<1>1. PICK a : a = Allocated(n)
  OBVIOUS
<1>2. a \in [1..n -> free] /\ IsInjective(a)
  <2>1. Allocated(n) \in Fresh(n)
    BY DEF Room, Allocated
  <2> QED BY <1>1, <2>1 DEF Fresh
<1>3. a \in [1..n -> Object] /\ \A i \in DOMAIN a : a[i] \in Object /\ info[a[i]].refs = 0
  BY <1>2
<1>4. a \in Seq(Object) /\ Len(a) = n /\ DOMAIN a = 1..n
  BY <1>3, FunctionSequence
<1> QED BY <1>1, <1>2, <1>3, <1>4 DEF ToSet

LEMMA ScrSwap == ASSUME ScreensInv, NEW i \in Object, NEW j \in Object, SwapScreens(i, j) PROVE ScreensInv'
<1>1. /\ UNCHANGED <<info, views, nextView, at, on, strut, primary, ignore, randr, pending, run, told, layout, changes>>
      /\ lua' = lua - 1 /\ lua > 0 /\ run.pc # "boot" /\ run.pc # "modify" /\ i \in DOMAIN screens /\ j \in DOMAIN screens
      /\ screens' = [screens EXCEPT ![i] = screens[j], ![j] = screens[i]]
  BY DEF SwapScreens, MayList, MayAct, xserver
<1>2. screens \in Seq(Object) /\ MaxLua \in Nat /\ IsInjective(screens)
  BY ScreensAssumption DEF ScreensInv, PointersRight, ScreensTypes, ListsRight
<1>3. screens' \in Seq(Object) /\ ToSet(screens') = ToSet(screens) /\ (screens' = <<>> <=> screens = <<>>) /\ IsInjective(screens')
  <2>1. PICK r : r = [screens EXCEPT ![i] = screens[j], ![j] = screens[i]]
    OBVIOUS
  <2>2. i \in DOMAIN screens /\ j \in DOMAIN screens /\ screens' = r
    BY <1>1, <2>1
  <2>3. r \in Seq(Object) /\ ToSet(r) = ToSet(screens) /\ (r = <<>> <=> screens = <<>>) /\ (IsInjective(screens) => IsInjective(r))
    <3>1. r \in Seq(Object) /\ DOMAIN r = DOMAIN screens
      BY <1>2, <2>1, <2>2
    <3>2. \A k \in DOMAIN screens : r[k] = screens[IF k = j THEN i ELSE IF k = i THEN j ELSE k]
      BY <1>2, <2>1, <2>2
    <3>3. Swaps(screens, i, j, r)
      BY <2>2, <3>1, <3>2 DEF Swaps
    <3> QED BY <1>2, <3>1, <3>3, SwappedScreens
  <2> QED BY <1>2, <2>2, <2>3
<1>4. ScreensTypes'
  <2>1. ScreensTypes
    BY DEF ScreensInv, PointersRight
  <2>2. lua \in 0..MaxLua /\ lua > 0
    BY <1>1, <2>1 DEF ScreensTypes
  <2>3. lua' \in 0..MaxLua
    BY <1>1, <1>2, <2>2
  <2> QED BY <1>1, <1>3, <2>1, <2>3 DEF ScreensTypes
<1>5. Real' = Real
  BY <1>1, <1>3 DEF Real
<1>6. ViewsRight' /\ ListsRight' /\ ListedRight'
  BY <1>1, <1>3 DEF ScreensInv, PointersRight, ViewsRight, ListsRight, ListedRight
<1>7. \A o \in Object : Known(screens, o) => Known(screens, o)'
  <2>1. \A o \in Object : Known(screens, o) <=> \E s \in ToSet(screens) : info[s].xid = info[o].xid
    BY DEF Known, ToSet
  <2>2. \A o \in Object : Known(screens, o)' <=> \E s \in ToSet(screens') : info'[s].xid = info'[o].xid
    BY DEF Known, ToSet
  <2> QED BY <1>1, <1>3, <2>1, <2>2
<1>8. NewRight'
  BY <1>1, <1>3, <1>7, Fields DEF ScreensInv, PointersRight, NewRight
<1>9. PhasesRight' /\ SomeScreen' /\ ClientsRight'
  BY <1>1, <1>3, <1>5 DEF ScreensInv, PointersRight, PhasesRight, SomeScreen, Refreshing, ClientsRight, ClientsOnScreens
<1>10. PicturesRight'
  BY <1>1, <1>5, SamePictures
<1> QED BY <1>4, <1>6, <1>8, <1>9, <1>10 DEF ScreensInv, PointersRight

LEMMA ScrSetStrut == ASSUME ScreensInv, NEW c \in Client, NEW n \in 0..1, SetStrut(c, n) PROVE ScreensInv'
<1>1. /\ UNCHANGED <<screens, views, nextView, at, on, primary, ignore, randr, pending, run, told, layout, changes>>
      /\ lua' = lua - 1 /\ lua > 0 /\ run.pc # "boot" /\ strut' = [strut EXCEPT ![c] = n]
      /\ info' = [o \in Object |-> IF o \in ToSet(screens) THEN [info[o] EXCEPT !.work = Workarea(o, info, on, strut')] ELSE info[o]]
  BY DEF SetStrut, MayAct, xserver
<1>2. /\ info \in [Object -> ScreenState] /\ on \in [Client -> Object \cup {NoScreen}] /\ MaxLua \in Nat /\ lua \in 0..MaxLua
      /\ strut \in [Client -> 0..1]
  BY ScreensAssumption DEF ScreensInv, PointersRight, ScreensTypes
<1>3. strut' \in [Client -> 0..1]
  BY <1>1, <1>2
<1>4. ASSUME NEW o \in Object
      PROVE  /\ Workarea(o, info, on, strut') \in Part /\ Within(Workarea(o, info, on, strut'), info[o].geo)
             /\ info'[o] \in ScreenState /\ info'[o].valid = info[o].valid /\ info'[o].c = info[o].c /\ info'[o].xid = info[o].xid
             /\ info'[o].geo = info[o].geo /\ info'[o].view = info[o].view /\ info'[o].refs = info[o].refs
             /\ o \in ToSet(screens) => info'[o].work = Workarea(o, info, on, strut')
  <2>1. PICK w : w = Workarea(o, info, on, strut')
    OBVIOUS
  <2>2. w \in Part /\ Within(w, info[o].geo)
    BY <1>2, <1>3, <2>1, WorkareaRight
  <2>3. info[o] \in ScreenState /\ info'[o] = (IF o \in ToSet(screens) THEN [info[o] EXCEPT !.work = w] ELSE info[o])
    BY <1>1, <1>2, <2>1
  <2>4. /\ info'[o] \in ScreenState /\ info'[o].valid = info[o].valid /\ info'[o].c = info[o].c /\ info'[o].xid = info[o].xid
        /\ info'[o].geo = info[o].geo /\ info'[o].view = info[o].view /\ info'[o].refs = info[o].refs
        /\ o \in ToSet(screens) => info'[o].work = w
    BY <2>2, <2>3 DEF ScreenState
  <2> QED BY <2>1, <2>2, <2>4
<1>5. info' \in [Object -> ScreenState]
  BY <1>1, <1>4
<1>16. UNCHANGED <<screens, views, nextView, at, on, primary, ignore, randr, pending, run, told, layout, changes>>
       /\ lua' \in 0..MaxLua /\ run.pc # "boot"
  BY <1>1, <1>2
<1>6. ScreensTypes'
  BY <1>3, <1>5, <1>16 DEF ScreensInv, PointersRight, ScreensTypes
<1>7. ToSet(screens) \subseteq Object /\ ToSet(run.new) \subseteq Object /\ ToSet(run.gone) \subseteq Object
  BY Fields DEF ScreensInv, PointersRight
<1>8. Real' = Real
  BY <1>16, <1>4, <1>7 DEF Real
<1>9. ViewsRight'
  BY <1>16, <1>4 DEF ScreensInv, PointersRight, ViewsRight
<1>10. ListsRight'
  BY <1>16, <1>4, <1>7 DEF ScreensInv, PointersRight, ListsRight
<1>11. ListedRight'
  <2>1. ASSUME NEW o \in ToSet(screens) PROVE Within(info'[o].work, info'[o].geo)
    BY <1>4, <1>7
  <2> QED BY <1>4, <1>7, <1>16, <2>1 DEF ScreensInv, PointersRight, ListedRight
<1>12. \A o \in Object : Known(screens, o) => Known(screens, o)'
  <2>1. \A i \in DOMAIN screens : screens[i] \in Object
    BY <1>7 DEF ToSet
  <2> QED BY <1>16, <1>4, <2>1 DEF Known
<1>13. NewRight'
  BY <1>16, <1>4, <1>7, <1>12 DEF ScreensInv, PointersRight, NewRight
<1>14. PhasesRight' /\ SomeScreen' /\ ClientsRight'
  BY <1>16, <1>8 DEF ScreensInv, PointersRight, PhasesRight, SomeScreen, Refreshing, ClientsRight, ClientsOnScreens
<1>15. PicturesRight'
  <2>1. \A o \in Real \cup ToSet(run.new) : info'[o].xid = info[o].xid /\ info'[o].geo = info[o].geo
    BY <1>4, <1>7 DEF Real
  <2> QED BY <1>16, <1>8, <2>1, SamePictures
<1> QED BY <1>6, <1>9, <1>10, <1>11, <1>13, <1>14, <1>15 DEF ScreensInv, PointersRight

LEMMA ScrFakeResize == ASSUME ScreensInv, NEW o \in Object, NEW g \in Places, FakeResize(o, g) PROVE ScreensInv'
<1> DEFINE f == [info EXCEPT ![o].geo = g]
<1>1. /\ UNCHANGED <<screens, views, nextView, at, on, strut, primary, ignore, randr, pending, run, told, layout, changes>>
      /\ lua' = lua - 1 /\ lua > 0 /\ run.pc # "boot" /\ o \in ToSet(screens) /\ info[o].xid = FakeXid
      /\ info' = [f EXCEPT ![o].work = Workarea(o, f, on, strut)]
  BY DEF FakeResize, MayAct, xserver
<1>2. /\ info \in [Object -> ScreenState] /\ on \in [Client -> Object \cup {NoScreen}] /\ MaxLua \in Nat /\ lua \in 0..MaxLua
      /\ strut \in [Client -> 0..1] /\ g \in Area
  BY ScreensAssumption DEF ScreensInv, PointersRight, ScreensTypes
<1>3. PICK s, r : s = info[o] /\ r = [s EXCEPT !.geo = g]
  OBVIOUS
<1>4. s \in ScreenState /\ r \in ScreenState /\ r.geo = g /\ r.valid = s.valid /\ r.c = s.c /\ r.xid = s.xid /\ r.view = s.view /\ r.refs = s.refs
  BY <1>2, <1>3 DEF ScreenState
<1>5. f = [info EXCEPT ![o] = r]
  BY <1>3
<1>6. f \in [Object -> ScreenState] /\ f[o] = r /\ \A p \in Object : p # o => f[p] = info[p]
  BY <1>2, <1>4, <1>5
<1>7. PICK w : w = Workarea(o, f, on, strut)
  OBVIOUS
<1>8. w \in Part /\ Within(w, g)
  BY <1>2, <1>4, <1>6, <1>7, WorkareaRight
<1>9. info' = [f EXCEPT ![o] = [r EXCEPT !.work = w]]
  BY <1>1, <1>6, <1>7
<1> HIDE DEF f
<1>10. PICK e : e = [r EXCEPT !.work = w]
  OBVIOUS
<1>11. /\ e \in ScreenState /\ e.geo = g /\ e.work = w /\ e.valid = s.valid /\ e.c = s.c /\ e.xid = s.xid /\ e.view = s.view
       /\ e.refs = s.refs
  BY <1>4, <1>8, <1>10 DEF ScreenState
<1>12. info' \in [Object -> ScreenState] /\ info'[o] = e /\ \A p \in Object : p # o => info'[p] = info[p]
  BY <1>6, <1>9, <1>10, <1>11
<1>13. \A p \in Object : /\ info'[p].valid = info[p].valid /\ info'[p].c = info[p].c /\ info'[p].xid = info[p].xid
                         /\ info'[p].view = info[p].view /\ info'[p].refs = info[p].refs
  BY <1>3, <1>11, <1>12
<1>14. ScreensTypes'
  BY <1>1, <1>2, <1>12 DEF ScreensInv, PointersRight, ScreensTypes
<1>15. ToSet(screens) \subseteq Object /\ ToSet(run.new) \subseteq Object /\ ToSet(run.gone) \subseteq Object
  BY Fields DEF ScreensInv, PointersRight
<1>16. Real' = Real
  BY <1>1, <1>13, <1>15 DEF Real
<1>17. ViewsRight'
  BY <1>1, <1>13 DEF ScreensInv, PointersRight, ViewsRight
<1>18. ListsRight'
  BY <1>1, <1>13, <1>15 DEF ScreensInv, PointersRight, ListsRight
<1>19. ListedRight'
  <2>1. ASSUME NEW p \in ToSet(screens) PROVE Within(info'[p].work, info'[p].geo)
    <3>1. CASE p = o
      BY <1>8, <1>11, <1>12, <3>1
    <3>2. CASE p # o
      BY <1>12, <1>15, <3>2 DEF ScreensInv, PointersRight, ListedRight
    <3> QED BY <3>1, <3>2
  <2> QED BY <1>1, <1>13, <1>15, <2>1 DEF ScreensInv, PointersRight, ListedRight
<1>20. \A p \in Object : Known(screens, p) => Known(screens, p)'
  <2>1. \A i \in DOMAIN screens : screens[i] \in Object
    BY <1>15 DEF ToSet
  <2> QED BY <1>1, <1>13, <2>1 DEF Known
<1>21. NewRight'
  BY <1>1, <1>13, <1>15, <1>20 DEF ScreensInv, PointersRight, NewRight
<1>22. PhasesRight' /\ SomeScreen' /\ ClientsRight'
  BY <1>1, <1>16 DEF ScreensInv, PointersRight, PhasesRight, SomeScreen, Refreshing, ClientsRight, ClientsOnScreens
<1>23. PicturesRight'
  <2>1. o \notin Real /\ o \notin ToSet(run.new)
    BY <1>1 DEF ScreensInv, PointersRight, ListedRight, NewRight, Real
  <2>2. \A p \in Real \cup ToSet(run.new) : info'[p].xid = info[p].xid /\ info'[p].geo = info[p].geo
    BY <1>12, <1>15, <2>1 DEF Real
  <2> QED BY <1>1, <1>16, <2>2, SamePictures
<1> QED BY <1>14, <1>17, <1>18, <1>19, <1>21, <1>22, <1>23 DEF ScreensInv, PointersRight

LEMMA ScrFakeAdd == ASSUME ScreensInv, NEW g \in Places, FakeAdd(g) PROVE ScreensInv'
<1>1. PICK o, e : o = Allocated(1)[1] /\ e = [Object2([xid |-> FakeXid, geo |-> g, view |-> 0], 1) EXCEPT !.c = FALSE]
  OBVIOUS
<1>2. /\ UNCHANGED <<views, nextView, at, strut, primary, ignore, randr, pending, run, told, layout, changes>>
      /\ lua' = lua - 1 /\ lua > 0 /\ run.pc # "boot" /\ run.pc # "modify"
      /\ screens' = Append(screens, o) /\ info' = [info EXCEPT ![o] = e]
      /\ on' = [c \in Client |-> ByCoord(screens', info', at[c])] /\ Room(1)
  BY <1>1 DEF FakeAdd, MayList, MayAct, xserver
<1>3. /\ screens \in Seq(Object) /\ info \in [Object -> ScreenState] /\ MaxLua \in Nat /\ lua \in 0..MaxLua
      /\ g \in Area /\ at \in [Client -> Area] /\ nextView \in Nat \ {0}
  BY ScreensAssumption DEF ScreensInv, PointersRight, ScreensTypes
<1>4. o \in Object /\ info[o].refs = 0
  <2>1. 1 \in DOMAIN Allocated(1)
    BY <1>2, AllocatedRight
  <2>2. o \in ToSet(Allocated(1))
    BY <1>1, <2>1 DEF ToSet
  <2> QED BY <1>2, <2>2, AllocatedRight
<1>5. /\ e \in ScreenState /\ e.valid = TRUE /\ e.c = FALSE /\ e.xid = FakeXid /\ e.geo = g /\ e.work = g /\ e.view = 0 /\ e.refs = 1
  <2>1. FakeXid \in Xid /\ g \in Part
    BY <1>3, AreaInside DEF Xid
  <2>2. e = [valid |-> TRUE, c |-> FALSE, xid |-> FakeXid, geo |-> g, work |-> g, view |-> 0, refs |-> 1]
    BY <1>1 DEF Object2
  <2> QED BY <1>3, <2>1, <2>2 DEF ScreenState
<1>6. /\ info' \in [Object -> ScreenState] /\ info'[o] = e /\ \A p \in Object : p # o => info'[p] = info[p]
  BY <1>2, <1>3, <1>4, <1>5
<1>7. screens' \in Seq(Object) /\ ToSet(screens') = ToSet(screens) \cup {o} /\ screens' # <<>>
  BY <1>2, <1>3, <1>4, MoreScreens
<1>8. o \notin ToSet(screens) /\ o \notin ToSet(run.new) /\ o \notin ToSet(run.gone)
  BY <1>4, Fields DEF ScreensInv, PointersRight, ListsRight
<1>9. ToSet(screens) \subseteq Object /\ ToSet(run.new) \subseteq Object /\ ToSet(run.gone) \subseteq Object
  BY Fields DEF ScreensInv, PointersRight
<1>10. \A c \in Client : on'[c] \in ToSet(screens')
  BY <1>2, <1>3, <1>6, <1>7, ByCoordRight
<1>11. ScreensTypes'
  <2>1. on' \in [Client -> Object \cup {NoScreen}]
    BY <1>2, <1>4, <1>7, <1>9, <1>10
  <2>2. UNCHANGED <<views, nextView, at, strut, primary, ignore, randr, pending, run, told, layout, changes>> /\ lua' \in 0..MaxLua
    BY <1>2, <1>3
  <2> QED BY <1>6, <1>7, <2>1, <2>2 DEF ScreensInv, PointersRight, ScreensTypes
<1>12. Real' = Real
  BY <1>4, <1>5, <1>6, <1>7, <1>8, <1>9 DEF Real
<1>13. ViewsRight'
  <2>1. \A p \in Object : info'[p].view < nextView
    BY <1>3, <1>5, <1>6 DEF ScreensInv, PointersRight, ViewsRight
  <2> QED BY <1>2, <2>1 DEF ScreensInv, PointersRight, ViewsRight
<1>14. ListsRight'
  <2>1. IsInjective(screens')
    BY <1>2, <1>3, <1>4, <1>8, MoreScreens DEF ScreensInv, PointersRight, ListsRight
  <2>2. UNCHANGED run
    BY <1>2
  <2> QED BY <1>4, <1>5, <1>6, <1>7, <1>8, <1>9, <2>1, <2>2 DEF ScreensInv, PointersRight, ListsRight
<1>15. ListedRight'
  <2>1. Within(g, g) /\ views' = views
    BY <1>2, <1>3, AreaInside
  <2> QED BY <1>5, <1>6, <1>7, <1>8, <1>9, <2>1 DEF ScreensInv, PointersRight, ListedRight
<1>16. \A p \in ToSet(run.new) : Known(screens, p) => Known(screens, p)'
  <2>1. \A p : Known(screens, p) <=> \E s \in ToSet(screens) : info[s].xid = info[p].xid
    BY DEF Known, ToSet
  <2>2. \A p : Known(screens, p)' <=> \E s \in ToSet(screens') : info'[s].xid = info'[p].xid
    BY DEF Known, ToSet
  <2> QED BY <1>6, <1>7, <1>8, <1>9, <2>1, <2>2
<1>17. NewRight'
  BY <1>2, <1>6, <1>8, <1>9, <1>16 DEF ScreensInv, PointersRight, NewRight
<1>18. PhasesRight' /\ SomeScreen' /\ ClientsRight'
  <2>1. UNCHANGED <<views, primary, ignore, randr, pending, run>> /\ run.pc # "boot"
    BY <1>2
  <2>2. PhasesRight' /\ SomeScreen'
    BY <1>12, <2>1 DEF ScreensInv, PointersRight, PhasesRight, SomeScreen, Refreshing
  <2>3. NoScreen \notin ToSet(screens')
    BY <1>4, <1>7, <1>9, ScreensAssumption DEF NoScreen, Object
  <2>4. ClientsRight'
    BY <1>7, <1>10, <2>1, <2>3 DEF ScreensInv, PointersRight, ClientsRight, ClientsOnScreens
  <2> QED BY <2>2, <2>4
<1>19. PicturesRight'
  <2>1. \A p \in Real \cup ToSet(run.new) : info'[p].xid = info[p].xid /\ info'[p].geo = info[p].geo
    BY <1>6, <1>8, <1>9 DEF Real
  <2> QED BY <1>2, <1>12, <2>1, SamePictures
<1> QED BY <1>11, <1>13, <1>14, <1>15, <1>17, <1>18, <1>19 DEF ScreensInv, PointersRight

\* the list without some of its screens
LEMMA ChosenScreens ==
    ASSUME NEW l \in Seq(Object), NEW S
    PROVE  LET r == Chosen(l, {i \in DOMAIN l : l[i] \in S})
           IN  r \in Seq(Object) /\ ToSet(r) = ToSet(l) \cap S /\ (IsInjective(l) => IsInjective(r))
<1> DEFINE places == {i \in DOMAIN l : l[i] \in S}
<1>1. PICK r : r = Chosen(l, places)
  OBVIOUS
<1>2. r \in Seq(Object) /\ ToSet(r) = {l[i] : i \in DOMAIN l \cap places} /\ (IsInjective(l) => IsInjective(r))
  <2> HIDE DEF places
  <2> QED BY <1>1, ChosenRight, ChosenOnce
<1>3. ToSet(r) = ToSet(l) \cap S
  BY <1>2 DEF ToSet
<1> QED BY <1>1, <1>2, <1>3

\* the clients of a screen go to others
LEMMA EvacuatedRight ==
    ASSUME ScreensTypes, NEW o \in Object, NEW l \in Seq(Object), ToSet(l) \subseteq Object
    PROVE  /\ Evacuated(o, l) \in [Client -> Object \cup {NoScreen}]
           /\ \A c \in Client : IF on[c] # o THEN Evacuated(o, l)[c] = on[c]
                                ELSE IF l = <<>> THEN Evacuated(o, l)[c] = NoScreen ELSE Evacuated(o, l)[c] \in ToSet(l)
<1>1. info \in [Object -> ScreenState] /\ at \in [Client -> Area] /\ on \in [Client -> Object \cup {NoScreen}]
  BY DEF ScreensTypes
<1>2. ASSUME NEW c \in Client
      PROVE  /\ l = <<>> => ByCoord(l, info, at[c]) = NoScreen
             /\ l # <<>> => ByCoord(l, info, at[c]) \in ToSet(l)
  BY <1>1, ByCoordRight
<1> QED BY <1>1, <1>2 DEF Evacuated

LEMMA ScrFakeRemove == ASSUME ScreensInv, NEW o \in Object, FakeRemove(o) PROVE ScreensInv'
<1>1. /\ UNCHANGED <<views, nextView, at, strut, ignore, randr, pending, run, told, layout, changes>>
      /\ lua' = lua - 1 /\ lua > 0 /\ run.pc # "boot" /\ run.pc # "modify"
      /\ o \in ToSet(screens) /\ info[o].xid = FakeXid
      /\ screens' = Chosen(screens, {i \in DOMAIN screens : screens[i] # o}) /\ info' = [info EXCEPT ![o] = Dead]
      /\ primary' = WithoutPrimary(o) /\ on' = Evacuated(o, screens')
  BY DEF FakeRemove, MayList, MayAct, xserver
<1>2. /\ screens \in Seq(Object) /\ info \in [Object -> ScreenState] /\ MaxLua \in Nat /\ lua \in 0..MaxLua
      /\ nextView \in Nat \ {0} /\ ScreensTypes /\ primary \in Object \cup {NoScreen}
  BY <1>1, ScreensAssumption DEF ScreensInv, PointersRight, ScreensTypes
<1>3. ToSet(screens) \subseteq Object /\ ToSet(run.new) \subseteq Object /\ ToSet(run.gone) \subseteq Object
  BY Fields DEF ScreensInv, PointersRight
<1>4. screens' \in Seq(Object) /\ ToSet(screens') = ToSet(screens) \ {o} /\ IsInjective(screens')
  <2>1. PICK S : S = Object \ {o}
    OBVIOUS
  <2>2. {i \in DOMAIN screens : screens[i] # o} = {i \in DOMAIN screens : screens[i] \in S}
    BY <1>2, <2>1
  <2>3. screens' \in Seq(Object) /\ ToSet(screens') = ToSet(screens) \cap S /\ (IsInjective(screens) => IsInjective(screens'))
    BY <1>1, <1>2, <2>2, ChosenScreens
  <2> QED BY <1>3, <2>1, <2>3 DEF ScreensInv, PointersRight, ListsRight
<1>5. /\ Dead \in ScreenState /\ Dead.view = 0 /\ Dead.refs = 0 /\ Dead.c = FALSE
  <2>1. Root \in Area /\ Root \in Part /\ NoXid \in Xid
    BY ScreensAssumption, AreaInside DEF Xid
  <2> QED BY <2>1 DEF Dead, ScreenState
<1>6. /\ info' \in [Object -> ScreenState] /\ info'[o] = Dead /\ \A p \in Object : p # o => info'[p] = info[p]
  BY <1>1, <1>2, <1>5
<1>7. o \notin ToSet(run.new) /\ o \notin ToSet(run.gone) /\ info[o].c = FALSE
  BY <1>1, Fields DEF ScreensInv, PointersRight, ListsRight, NewRight, ListedRight
<1>8. on' \in [Client -> Object \cup {NoScreen}]
  BY <1>1, <1>2, <1>3, <1>4, EvacuatedRight
<1>9. ScreensTypes'
  <2>1. primary' \in Object \cup {NoScreen}
    BY <1>1, <1>2 DEF WithoutPrimary
  <2> QED BY <1>1, <1>2, <1>4, <1>6, <1>8, <2>1 DEF ScreensTypes
<1>10. Real' = Real
  BY <1>3, <1>4, <1>6, <1>7 DEF Real
<1>11. ViewsRight'
  <2>1. \A p \in Object : info'[p].view < nextView
    BY <1>2, <1>5, <1>6 DEF ScreensInv, PointersRight, ViewsRight
  <2> QED BY <1>1, <2>1 DEF ScreensInv, PointersRight, ViewsRight
<1>12. ListsRight'
  <2>1. UNCHANGED run
    BY <1>1
  <2> QED BY <1>3, <1>4, <1>5, <1>6, <1>7, <2>1 DEF ScreensInv, PointersRight, ListsRight
<1>13. ListedRight'
  <2>1. views' = views
    BY <1>1
  <2> QED BY <1>3, <1>4, <1>6, <2>1 DEF ScreensInv, PointersRight, ListedRight
<1>14. \A p \in ToSet(run.new) : Known(screens, p) => Known(screens, p)'
  <2>1. \A p : Known(screens, p) <=> \E s \in ToSet(screens) : info[s].xid = info[p].xid
    BY DEF Known, ToSet
  <2>2. \A p : Known(screens, p)' <=> \E s \in ToSet(screens') : info'[s].xid = info'[p].xid
    BY DEF Known, ToSet
  <2>3. \A p \in ToSet(run.new) : info[p].xid # FakeXid
    BY DEF ScreensInv, PointersRight, NewRight
  <2> QED BY <1>1, <1>3, <1>4, <1>6, <1>7, <2>1, <2>2, <2>3
<1>15. NewRight'
  BY <1>1, <1>3, <1>6, <1>7, <1>14 DEF ScreensInv, PointersRight, NewRight
<1>16. PhasesRight' /\ SomeScreen'
  BY <1>1, <1>10 DEF ScreensInv, PointersRight, PhasesRight, SomeScreen, Refreshing
<1>17. ClientsRight'
  <2>1. primary' \in ToSet(screens') \cup ToSet(run.gone) \cup {NoScreen}
    BY <1>1, <1>4, <1>7 DEF ScreensInv, PointersRight, ClientsRight, WithoutPrimary
  <2>2. screens # <<>> /\ 0 \notin Object
    BY <1>1, EmptyScreens, ScreensAssumption DEF Object
  <2>3. ASSUME NEW c \in Client
        PROVE  IF on'[c] = NoScreen THEN screens' = <<>> ELSE on'[c] \in ToSet(screens') \cup ToSet(run.gone)
    <3>1. /\ on[c] # o => on'[c] = on[c]
          /\ on[c] = o => IF screens' = <<>> THEN on'[c] = NoScreen ELSE on'[c] \in ToSet(screens')
      BY <1>1, <1>2, <1>3, <1>4, EvacuatedRight
    <3>2. on[c] \in ToSet(screens) \cup ToSet(run.gone)
      BY <1>1, <2>2 DEF ScreensInv, PointersRight, ClientsRight, ClientsOnScreens
    <3> QED BY <1>3, <1>4, <2>2, <3>1, <3>2 DEF NoScreen
  <2> QED BY <1>1, <2>1, <2>3 DEF ClientsRight, ClientsOnScreens
<1>18. PicturesRight'
  <2>1. o \notin Real
    BY <1>7 DEF Real
  <2>2. \A p \in Real \cup ToSet(run.new) : info'[p].xid = info[p].xid /\ info'[p].geo = info[p].geo
    BY <1>3, <1>6, <1>7, <2>1 DEF Real
  <2> QED BY <1>1, <1>10, <2>2, SamePictures
<1> QED BY <1>9, <1>11, <1>12, <1>13, <1>15, <1>16, <1>17, <1>18 DEF ScreensInv, PointersRight

-----------------------------------------------------------------------------
(* The steps of screen_refresh after the scan. *)

LEMMA KnownOnList ==
    ASSUME NEW l, NEW o
    PROVE  Known(l, o) <=> \E s \in ToSet(l) : info[s].xid = info[o].xid
BY DEF Known, ToSet

LEMMA ScrRefreshAdd == ASSUME ScreensInv, RefreshAdd PROVE ScreensInv'
<1>1. PICK o, rest : o = Head(run.left) /\ rest = Tail(run.left)
  OBVIOUS
<1>2. /\ UNCHANGED <<views, nextView, at, on, strut, primary, ignore, randr, pending, lua, told, layout, changes>>
      /\ run.pc = "add" /\ run.left # <<>> /\ run' = [run EXCEPT !.left = rest]
      /\ IF Known(screens, o) THEN UNCHANGED <<screens, info>>
         ELSE /\ screens' = Append(screens, o)
              /\ info' = [info EXCEPT ![o] = [info[o] EXCEPT !.valid = TRUE, !.work = info[o].geo, !.refs = info[o].refs + 1]]
  <2>1. info \in [Object -> ScreenState]
    BY DEF ScreensInv, PointersRight, ScreensTypes
  <2> QED BY <1>1, <2>1 DEF RefreshAdd, xserver
<1>3. /\ screens \in Seq(Object) /\ info \in [Object -> ScreenState] /\ nextView \in Nat \ {0} /\ ScreensTypes
      /\ run.left \in Seq(Object) /\ run \in [pc : Pc, found : Seq(Seen), new : Seq(Object), left : Seq(Object), gone : Seq(Object)]
  BY DEF ScreensInv, PointersRight, ScreensTypes
<1>4. rest \in Seq(Object) /\ ToSet(run.left) = ToSet(rest) \cup {o} /\ o \in Object /\ o \in ToSet(run.left)
  BY <1>1, <1>2, <1>3, FewerScreens
<1>5. /\ run' \in [pc : Pc, found : Seq(Seen), new : Seq(Object), left : Seq(Object), gone : Seq(Object)]
      /\ run'.pc = "add" /\ run'.left = rest /\ run'.new = run.new /\ run'.gone = run.gone /\ run'.found = run.found
  BY <1>2, <1>3, <1>4
<1>6. o \in ToSet(run.new)
  BY <1>2, <1>4 DEF ScreensInv, PointersRight, NewRight
<1>7. ToSet(screens) \subseteq Object /\ ToSet(run.new) \subseteq Object /\ ToSet(run.gone) \subseteq Object /\ run.gone = <<>>
  BY <1>2, Fields DEF ScreensInv, PointersRight, PhasesRight
<1>8. Matching' /\ Settled' /\ RealApart'
  BY <1>5 DEF Matching, Settled, RealApart
<1>9. InView' = InView
  BY <1>2 DEF InView, Compat
<1>10. CASE Known(screens, o)
  <2>1. UNCHANGED <<screens, info, views, nextView, at, on, strut, primary, ignore, randr, pending, lua, told, layout, changes>>
    BY <1>2, <1>10
  <2>2. ScreensTypes'
    BY <1>5, <2>1 DEF ScreensInv, PointersRight, ScreensTypes
  <2>3. Real' = Real
    BY <2>1 DEF Real
  <2>4. ViewsRight' /\ ListsRight' /\ ListedRight'
    BY <1>5, <2>1 DEF ScreensInv, PointersRight, ViewsRight, ListsRight, ListedRight
  <2>5. NewRight'
    <3>1. \A p \in ToSet(run.new) : p \in ToSet(rest) \/ Known(screens, p)
      BY <1>2, <1>4, <1>10 DEF ScreensInv, PointersRight, NewRight
    <3>2. \A p : Known(screens, p)' <=> Known(screens, p)
      BY <2>1 DEF Known
    <3> QED BY <1>2, <1>4, <1>5, <2>1, <3>1, <3>2 DEF ScreensInv, PointersRight, NewRight
  <2>6. PhasesRight' /\ SomeScreen' /\ ClientsRight'
    BY <1>2, <1>5, <2>1, <2>3 DEF ScreensInv, PointersRight, PhasesRight, SomeScreen, Refreshing, ClientsRight, ClientsOnScreens
  <2>7. ScanRight' /\ NewOnce'
    BY <1>2, <1>5, <1>9, <2>1, <2>3 DEF ScreensInv, PicturesRight, ScanRight, NewOnce
  <2> QED BY <1>8, <2>2, <2>4, <2>5, <2>6, <2>7 DEF ScreensInv, PointersRight, PicturesRight
<1>11. CASE ~Known(screens, o)
  <2>1. PICK s, e : s = info[o] /\ e = [s EXCEPT !.valid = TRUE, !.work = s.geo, !.refs = s.refs + 1]
    OBVIOUS
  <2>2. /\ screens' = Append(screens, o) /\ info' = [info EXCEPT ![o] = e]
    BY <1>2, <1>11, <2>1
  <2>3. o \notin ToSet(screens) /\ \A p \in ToSet(screens) : info[p].xid # info[o].xid
    BY <1>11, KnownOnList
  <2>4. s \in ScreenState /\ s.refs = 1 /\ s.geo \in Area /\ s.c /\ s.xid # FakeXid /\ s.view \in Ids(views) \cup {0} /\ o \notin ToSet(run.gone)
    BY <1>4, <1>6, <1>7, <2>1, <2>3, EmptyScreens, Fields DEF ScreensInv, PointersRight, ListsRight, NewRight
  <2>5. /\ e \in ScreenState /\ e.valid = TRUE /\ e.work = s.geo /\ e.refs = 2 /\ e.geo = s.geo /\ e.c = s.c /\ e.xid = s.xid
        /\ e.view = s.view
    <3>1. s.refs + 1 = 2 /\ s.geo \in Part
      BY <2>4, AreaInside
    <3>2. e = [s EXCEPT !.valid = TRUE, !.work = s.geo, !.refs = 2]
      BY <2>1, <3>1
    <3>3. /\ e.valid = TRUE /\ e.work = s.geo /\ e.refs = 2 /\ e.geo = s.geo /\ e.c = s.c /\ e.xid = s.xid
          /\ e.view = s.view
      BY <2>4, <3>2 DEF ScreenState
    <3>4. e \in ScreenState
      <4>1. s \in ScreenState
        BY <2>4
      <4>2. e = [valid |-> TRUE, c |-> s.c, xid |-> s.xid, geo |-> s.geo, work |-> s.geo, view |-> s.view, refs |-> 2]
        BY <3>2, <4>1 DEF ScreenState
      <4>3. s.c \in BOOLEAN /\ s.xid \in Xid /\ s.geo \in Area /\ s.view \in Nat
        BY <4>1 DEF ScreenState
      <4> QED BY <3>1, <4>2, <4>3 DEF ScreenState
    <3> QED BY <3>3, <3>4
  <2>6. info' \in [Object -> ScreenState] /\ info'[o] = e /\ \A p \in Object : p # o => info'[p] = info[p]
    BY <1>3, <1>4, <2>2, <2>5
  <2>7. screens' \in Seq(Object) /\ ToSet(screens') = ToSet(screens) \cup {o} /\ screens' # <<>> /\ (IsInjective(screens) => IsInjective(screens'))
    <3>1. screens \in Seq(Object) /\ o \in Object /\ screens' = Append(screens, o)
      BY <1>3, <1>4, <2>2
    <3>2. screens' \in Seq(Object) /\ ToSet(screens') = ToSet(screens) \cup {o} /\ screens' # <<>>
      BY <3>1, MoreScreens
    <3>3. IsInjective(screens) => IsInjective(screens')
      BY <2>3, <3>1, MoreScreens
    <3> QED BY <3>2, <3>3
  <2>8. UNCHANGED <<views, nextView, at, on, strut, primary, ignore, randr, pending, lua, told, layout, changes>>
    BY <1>2
  <2>9. ScreensTypes'
    BY <1>5, <2>6, <2>7, <2>8 DEF ScreensInv, PointersRight, ScreensTypes
  <2>10. \A p \in Object : info'[p].xid = info[p].xid /\ info'[p].geo = info[p].geo /\ info'[p].view = info[p].view /\ info'[p].c = info[p].c
    BY <2>1, <2>5, <2>6
  <2>11. Real' = Real \cup {o}
    <3>1. info'[o].c
      BY <2>4, <2>5, <2>6
    <3> QED BY <1>4, <1>7, <2>7, <2>10, <3>1 DEF Real
  <2>12. ViewsRight'
    BY <1>5, <2>8, <2>10 DEF ScreensInv, PointersRight, ViewsRight
  <2>13. ListsRight'
    <3>1. ASSUME NEW p \in Object
          PROVE  info'[p].refs = (IF p \in ToSet(screens') THEN 1 ELSE 0) + (IF p \in ToSet(run.new) THEN 1 ELSE 0)
                                   + (IF p \in ToSet(run.gone) THEN 1 ELSE 0)
      <4>1. CASE p = o
        BY <1>6, <2>4, <2>5, <2>6, <2>7, <4>1
      <4>2. CASE p # o
        BY <2>6, <2>7, <4>2 DEF ScreensInv, PointersRight, ListsRight
      <4> QED BY <4>1, <4>2
    <3>2. ToSet(run.gone) = {}
      BY <1>7, EmptyScreens
    <3> QED BY <1>5, <2>7, <3>1, <3>2 DEF ScreensInv, PointersRight, ListsRight
  <2>14. ListedRight'
    <3>1. Within(e.work, e.geo)
      BY <2>4, <2>5, AreaInside
    <3>2. ASSUME NEW p \in ToSet(screens')
          PROVE  /\ info'[p].valid /\ info'[p].view \in Ids(views) \cup {0} /\ (info'[p].c <=> info'[p].xid # FakeXid)
                 /\ Within(info'[p].work, info'[p].geo)
      <4>1. CASE p = o
        BY <2>4, <2>5, <2>6, <3>1, <4>1
      <4>2. CASE p # o
        <5>1. p \in ToSet(screens) /\ info'[p] = info[p]
          BY <1>7, <2>6, <2>7, <4>2
        <5> QED BY <5>1 DEF ScreensInv, PointersRight, ListedRight
      <4> QED BY <4>1, <4>2
    <3> QED BY <2>8, <3>2 DEF ListedRight
  <2>15. \A p \in Object : Known(screens, p)' <=> Known(screens, p) \/ info[p].xid = info[o].xid
    <3>1. \A p : Known(screens, p)' <=> \E q \in ToSet(screens') : info'[q].xid = info'[p].xid
      BY DEF Known, ToSet
    <3>2. \A p : Known(screens, p) <=> \E q \in ToSet(screens) : info[q].xid = info[p].xid
      BY DEF Known, ToSet
    <3> QED BY <1>4, <1>7, <2>7, <2>10, <3>1, <3>2
  <2>16. NewRight'
    <3>1. \A p \in ToSet(run.new) : p \in ToSet(rest) \/ Known(screens, p)'
      BY <1>2, <1>4, <1>7, <2>15 DEF ScreensInv, PointersRight, NewRight
    <3>2. ToSet(rest) \subseteq ToSet(run.new)
      BY <1>2, <1>4 DEF ScreensInv, PointersRight, NewRight
    <3> QED BY <1>2, <1>5, <1>7, <2>8, <2>10, <3>1, <3>2 DEF ScreensInv, PointersRight, NewRight
  <2>17. ~ignore
    BY <1>6, EmptyScreens DEF ScreensInv, PointersRight, SomeScreen
  <2>18. SomeScreen'
    BY <1>2, <1>5, <2>8, <2>11, <2>17 DEF ScreensInv, PointersRight, SomeScreen
  <2>19. PhasesRight'
    BY <1>2, <1>5, <2>8 DEF ScreensInv, PointersRight, PhasesRight, Refreshing
  <2>20. ClientsRight'
    <3>1. screens # <<>>
      BY <1>2, <2>17, EmptyScreens DEF ScreensInv, PointersRight, SomeScreen, Real
    <3> QED BY <1>2, <1>5, <2>7, <2>8, <3>1 DEF ScreensInv, PointersRight, ClientsRight, ClientsOnScreens
  <2>21. ScanRight'
    <3>1. \A p \in ToSet(run.new) : info[p].xid = info'[p].xid /\ info[p].geo = info'[p].geo
      BY <1>7, <2>10
    <3>2. PICK n, shown : n = ToSet(run.new) /\ shown = InView
      OBVIOUS
    <3>3. Shows(shown, n, info) => Shows(shown, n, info')
      BY <3>1, <3>2, SameShows
    <3> QED BY <1>2, <1>5, <1>9, <2>8, <3>2, <3>3 DEF ScreensInv, PicturesRight, ScanRight
  <2>22. NewOnce'
    <3>1. \A p \in ToSet(run.new) : info[p].xid = info'[p].xid /\ info[p].geo = info'[p].geo
      BY <1>7, <2>10
    <3>2. PICK n : n = ToSet(run.new)
      OBVIOUS
    <3>3. (Apart(n, info) => Apart(n, info')) /\ (XidsOnce(n, info) => XidsOnce(n, info'))
      BY <3>1, <3>2, SameShows
    <3>4. XidsOnce(Real, info) => XidsOnce(Real', info')
      BY <1>4, <1>7, <2>3, <2>10, <2>11 DEF XidsOnce, Real
    <3> QED BY <1>5, <2>8, <3>2, <3>3, <3>4 DEF ScreensInv, PicturesRight, NewOnce
  <2> QED BY <1>8, <2>9, <2>12, <2>13, <2>14, <2>16, <2>18, <2>19, <2>20, <2>21, <2>22 DEF ScreensInv, PointersRight, PicturesRight
<1> QED BY <1>10, <1>11

LEMMA ScrRefreshRemoved == ASSUME ScreensInv, RefreshRemoved PROVE ScreensInv'
<1>1. /\ UNCHANGED <<screens, info, views, nextView, at, on, strut, primary, ignore, randr, pending, lua, told, layout, changes>>
      /\ run.pc = "remove" /\ run.gone = <<>> /\ run' = [run EXCEPT !.pc = "modify", !.left = screens]
  BY DEF RefreshRemoved, xserver
<1>2. /\ screens \in Seq(Object)
      /\ run \in [pc : Pc, found : Seq(Seen), new : Seq(Object), left : Seq(Object), gone : Seq(Object)]
  BY DEF ScreensInv, PointersRight, ScreensTypes
<1>3. /\ run' \in [pc : Pc, found : Seq(Seen), new : Seq(Object), left : Seq(Object), gone : Seq(Object)]
      /\ run'.pc = "modify" /\ run'.left = screens /\ run'.new = run.new /\ run'.gone = <<>> /\ run'.found = run.found
  BY <1>1, <1>2 DEF Pc
<1>4. Real' = Real /\ InView' = InView
  BY <1>1 DEF Real, InView, Compat
<1>5. ScreensTypes'
  BY <1>1, <1>3 DEF ScreensInv, PointersRight, ScreensTypes
<1>6. ViewsRight' /\ ListsRight' /\ ListedRight'
  BY <1>1, <1>3 DEF ScreensInv, PointersRight, ViewsRight, ListsRight, ListedRight
<1>7. NewRight'
  BY <1>1, <1>3 DEF ScreensInv, PointersRight, NewRight
<1>8. PhasesRight' /\ SomeScreen' /\ ClientsRight'
  BY <1>1, <1>3, <1>4 DEF ScreensInv, PointersRight, PhasesRight, SomeScreen, Refreshing, ClientsRight, ClientsOnScreens
<1>9. ScanRight' /\ NewOnce'
  BY <1>1, <1>3, <1>4 DEF ScreensInv, PicturesRight, ScanRight, NewOnce
<1>10. Matching'
  BY <1>1, <1>3, <1>4 DEF ScreensInv, PicturesRight, Matching, Real
<1>11. Settled' /\ RealApart'
  BY <1>3 DEF Settled, RealApart
<1> QED BY <1>5, <1>6, <1>7, <1>8, <1>9, <1>10, <1>11 DEF ScreensInv, PointersRight, PicturesRight

LEMMA ScrRefreshCollect == ASSUME ScreensInv, RefreshCollect PROVE ScreensInv'
<1> DEFINE G == {o \in Object : Gone(o)}
<1>1. PICK stay, leave : /\ stay = Chosen(screens, {i \in DOMAIN screens : ~Gone(screens[i])})
                         /\ leave = Chosen(screens, {i \in DOMAIN screens : Gone(screens[i])})
  OBVIOUS
<1>2. /\ UNCHANGED <<info, views, nextView, at, on, strut, primary, ignore, randr, pending, lua, told, layout, changes>>
      /\ run.pc = "add" /\ run.left = <<>> /\ run' = [run EXCEPT !.pc = "remove", !.gone = leave] /\ screens' = stay
  BY <1>1 DEF RefreshCollect, xserver
<1>3. /\ screens \in Seq(Object) /\ ScreensTypes
      /\ run \in [pc : Pc, found : Seq(Seen), new : Seq(Object), left : Seq(Object), gone : Seq(Object)]
      /\ IsInjective(screens) /\ run.gone = <<>>
  BY <1>2 DEF ScreensInv, PointersRight, ScreensTypes, ListsRight, PhasesRight
<1>4. ToSet(screens) \subseteq Object /\ ToSet(run.new) \subseteq Object /\ \A i \in DOMAIN screens : screens[i] \in Object
  BY <1>3, Fields
<1>5. stay \in Seq(Object) /\ ToSet(stay) = ToSet(screens) \ G /\ IsInjective(stay)
  <2>1. PICK S : S = Object \ G
    OBVIOUS
  <2>2. {i \in DOMAIN screens : ~Gone(screens[i])} = {i \in DOMAIN screens : screens[i] \in S}
    BY <1>4, <2>1
  <2>3. stay \in Seq(Object) /\ ToSet(stay) = ToSet(screens) \cap S /\ (IsInjective(screens) => IsInjective(stay))
    BY <1>1, <1>3, <2>2, ChosenScreens
  <2> QED BY <1>3, <1>4, <2>1, <2>3
<1>6. leave \in Seq(Object) /\ ToSet(leave) = ToSet(screens) \cap G /\ IsInjective(leave)
  <2>1. PICK S : S = G
    OBVIOUS
  <2>2. {i \in DOMAIN screens : Gone(screens[i])} = {i \in DOMAIN screens : screens[i] \in S}
    BY <1>4, <2>1
  <2>3. leave \in Seq(Object) /\ ToSet(leave) = ToSet(screens) \cap S /\ (IsInjective(screens) => IsInjective(leave))
    BY <1>1, <1>3, <2>2, ChosenScreens
  <2> QED BY <1>3, <2>1, <2>3
<1>7. \A o \in Object : Gone(o) <=> info[o].c /\ info[o].xid # FakeXid /\ \A n \in ToSet(run.new) : info[n].xid # info[o].xid
  BY KnownOnList DEF Gone
<1>8. \A o \in G : o \notin ToSet(run.new) /\ info[o].xid # FakeXid
  BY <1>7
<1>9. \A n \in ToSet(run.new) : \E o \in Real : o \notin G /\ info[o].xid = info[n].xid
  <2>1. ASSUME NEW n \in ToSet(run.new) PROVE \E o \in Real : o \notin G /\ info[o].xid = info[n].xid
    <3>1. Known(screens, n)
      BY <1>2, EmptyScreens DEF ScreensInv, PointersRight, NewRight
    <3>2. PICK o \in ToSet(screens) : info[o].xid = info[n].xid
      BY <3>1, KnownOnList
    <3>3. info[o].xid # FakeXid
      BY <3>2 DEF ScreensInv, PointersRight, NewRight
    <3>4. o \in Real
      BY <3>3 DEF ScreensInv, PointersRight, ListedRight, Real
    <3> QED BY <1>7, <3>2, <3>4
  <2> QED BY <2>1
<1> HIDE DEF G
<1>10. Real' = Real \ G
  BY <1>2, <1>5 DEF Real
<1>11. /\ run' \in [pc : Pc, found : Seq(Seen), new : Seq(Object), left : Seq(Object), gone : Seq(Object)]
       /\ run'.pc = "remove" /\ run'.left = run.left /\ run'.new = run.new /\ run'.gone = leave /\ run'.found = run.found
  BY <1>2, <1>3, <1>6 DEF Pc
<1>12. UNCHANGED <<info, views, nextView, at, on, strut, primary, ignore, randr, pending, lua, told, layout, changes>>
  BY <1>2
<1>13. ScreensTypes'
  BY <1>2, <1>5, <1>11, <1>12 DEF ScreensInv, PointersRight, ScreensTypes
<1>14. ViewsRight'
  BY <1>11, <1>12 DEF ScreensInv, PointersRight, ViewsRight
<1>15. ListsRight'
  <2>1. ASSUME NEW o \in Object
        PROVE  info[o].refs = (IF o \in ToSet(stay) THEN 1 ELSE 0) + (IF o \in ToSet(run.new) THEN 1 ELSE 0)
                                + (IF o \in ToSet(leave) THEN 1 ELSE 0)
    <3>1. info[o].refs = (IF o \in ToSet(screens) THEN 1 ELSE 0) + (IF o \in ToSet(run.new) THEN 1 ELSE 0)
      BY <1>3, EmptyScreens DEF ScreensInv, PointersRight, ListsRight
    <3>2. CASE o \in G
      BY <1>5, <1>6, <3>1, <3>2
    <3>3. CASE o \notin G
      BY <1>5, <1>6, <3>1, <3>3
    <3> QED BY <3>2, <3>3
  <2>2. \A o \in ToSet(leave) : o \notin ToSet(stay) \cup ToSet(run.new) /\ info[o].xid # FakeXid
    BY <1>5, <1>6, <1>8
  <2> QED BY <1>2, <1>5, <1>6, <1>11, <1>12, <2>1, <2>2 DEF ScreensInv, PointersRight, ListsRight
<1>16. ListedRight'
  BY <1>2, <1>5, <1>12 DEF ScreensInv, PointersRight, ListedRight
<1>17. NewRight'
  BY <1>11, <1>12 DEF ScreensInv, PointersRight, NewRight
<1>18. PhasesRight'
  BY <1>2, <1>11, <1>12 DEF ScreensInv, PointersRight, PhasesRight, Refreshing
<1>19. SomeScreen'
  <2>1. ASSUME ~ignore PROVE run.new # <<>> /\ Real' # {}
    <3>1. run.new # <<>>
      BY <1>2, <2>1 DEF ScreensInv, PointersRight, SomeScreen
    <3>2. PICK n : n \in ToSet(run.new)
      BY <1>3, <3>1, NoScreens
    <3> QED BY <1>9, <1>10, <3>1, <3>2
  <2>2. ASSUME ignore PROVE Real = {} /\ run.found = <<>> /\ run.new = <<>> /\ leave = <<>>
    <3>1. Real = {} /\ run.found = <<>> /\ run.new = <<>>
      BY <2>2 DEF ScreensInv, PointersRight, SomeScreen
    <3>2. ToSet(leave) = {}
      BY <1>6, <1>7, <3>1 DEF Real, G
    <3> QED BY <1>6, <3>1, <3>2, NoScreens
  <2> QED BY <1>10, <1>11, <1>12, <2>1, <2>2 DEF SomeScreen
<1>20. ClientsRight'
  <2>1. ToSet(screens) \cup ToSet(run.gone) = ToSet(stay) \cup ToSet(leave)
    BY <1>3, <1>5, <1>6, EmptyScreens
  <2>2. screens = <<>> => stay = <<>>
    BY <1>5, EmptyScreens, NoScreens
  <2> QED BY <1>2, <1>11, <1>12, <2>1, <2>2 DEF ScreensInv, PointersRight, ClientsRight, ClientsOnScreens
<1>21. InView' = InView
  BY <1>12 DEF InView, Compat
<1>22. ScanRight'
  BY <1>2, <1>11, <1>12, <1>21 DEF ScreensInv, PicturesRight, ScanRight
<1>23. NewOnce'
  BY <1>10, <1>11, <1>12 DEF ScreensInv, PicturesRight, NewOnce, XidsOnce
<1>24. Matching'
  <2>1. \A o \in Real \ G : \E n \in ToSet(run.new) : info[o].xid = info[n].xid
    <3>1. \A o \in Real : o \in Object /\ info[o].c /\ info[o].xid # FakeXid
      BY <1>4 DEF Real, ScreensInv, PointersRight, ListedRight
    <3> QED BY <1>7, <3>1 DEF G
  <2> QED BY <1>9, <1>10, <1>11, <1>12, <2>1 DEF Matching
<1>25. Settled' /\ RealApart'
  BY <1>11 DEF Settled, RealApart
<1> QED BY <1>13, <1>14, <1>15, <1>16, <1>17, <1>18, <1>19, <1>20, <1>22, <1>23, <1>24, <1>25 DEF ScreensInv, PointersRight, PicturesRight

LEMMA ScrRefreshRemove == ASSUME ScreensInv, RefreshRemove PROVE ScreensInv'
<1>1. PICK o, rest : o = Head(run.gone) /\ rest = Tail(run.gone)
  OBVIOUS
<1>2. PICK s, e : s = info[o] /\ e = [s EXCEPT !.valid = FALSE, !.refs = s.refs - 1]
  OBVIOUS
<1>3. /\ screens \in Seq(Object) /\ info \in [Object -> ScreenState] /\ nextView \in Nat \ {0} /\ ScreensTypes
      /\ run.gone \in Seq(Object) /\ run \in [pc : Pc, found : Seq(Seen), new : Seq(Object), left : Seq(Object), gone : Seq(Object)]
  BY DEF ScreensInv, PointersRight, ScreensTypes
<1>4. /\ UNCHANGED <<screens, views, nextView, at, strut, ignore, randr, pending, lua, told, layout, changes>>
      /\ run.pc = "remove" /\ run.gone # <<>> /\ run' = [run EXCEPT !.gone = rest]
      /\ primary' = WithoutPrimary(o) /\ on' = Evacuated(o, screens)
      /\ info' = [info EXCEPT ![o] = e]
  BY <1>1, <1>2, <1>3 DEF RefreshRemove, xserver
<1>5. /\ rest \in Seq(Object) /\ ToSet(run.gone) = ToSet(rest) \cup {o} /\ o \in Object /\ IsInjective(rest) /\ o \notin ToSet(rest)
  <2>1. IsInjective(run.gone)
    BY DEF ScreensInv, PointersRight, ListsRight
  <2>2. rest \in Seq(Object) /\ ToSet(run.gone) = ToSet(rest) \cup {o} /\ o \in Object
    BY <1>1, <1>3, <1>4, FewerScreens
  <2>3. IsInjective(rest) /\ o \notin ToSet(rest)
    BY <1>1, <1>3, <1>4, <2>1, FewerScreens
  <2> QED BY <2>2, <2>3
<1>6. /\ run' \in [pc : Pc, found : Seq(Seen), new : Seq(Object), left : Seq(Object), gone : Seq(Object)]
      /\ run'.pc = "remove" /\ run'.left = run.left /\ run'.new = run.new /\ run'.gone = rest /\ run'.found = run.found
  BY <1>3, <1>4, <1>5
<1>7. ToSet(screens) \subseteq Object /\ ToSet(run.new) \subseteq Object /\ ToSet(run.gone) \subseteq Object
  BY Fields DEF ScreensInv, PointersRight
<1>8. o \notin ToSet(screens) /\ o \notin ToSet(run.new)
  BY <1>5 DEF ScreensInv, PointersRight, ListsRight
<1>9. s \in ScreenState /\ s.refs = 1 /\ s.refs - 1 = 0
  BY <1>2, <1>3, <1>5, <1>8 DEF ScreensInv, PointersRight, ListsRight
<1>10. /\ e \in ScreenState /\ e.refs = 0 /\ e.view = s.view /\ e.xid = s.xid
  <2>1. e = [s EXCEPT !.valid = FALSE, !.refs = 0]
    BY <1>2, <1>9
  <2>2. s \in ScreenState
    BY <1>9
  <2>3. e = [valid |-> FALSE, c |-> s.c, xid |-> s.xid, geo |-> s.geo, work |-> s.work, view |-> s.view, refs |-> 0]
    BY <2>1, <2>2 DEF ScreenState
  <2>4. s.c \in BOOLEAN /\ s.xid \in Xid /\ s.geo \in Area /\ s.work \in Part /\ s.view \in Nat
    BY <2>2 DEF ScreenState
  <2> QED BY <2>3, <2>4 DEF ScreenState
<1>11. info' \in [Object -> ScreenState] /\ info'[o] = e /\ \A p \in Object : p # o => info'[p] = info[p]
  BY <1>3, <1>4, <1>5, <1>10
<1>12. UNCHANGED <<screens, views, nextView, at, strut, ignore, randr, pending, lua, told, layout, changes>>
  BY <1>4
<1>13. ScreensTypes'
  <2>1. primary' \in Object \cup {NoScreen}
    BY <1>4 DEF ScreensInv, PointersRight, ScreensTypes, WithoutPrimary
  <2>2. on' \in [Client -> Object \cup {NoScreen}]
    BY <1>3, <1>4, <1>5, <1>7, EvacuatedRight
  <2> QED BY <1>6, <1>11, <1>12, <2>1, <2>2 DEF ScreensInv, PointersRight, ScreensTypes
<1>14. Real' = Real
  BY <1>7, <1>8, <1>11, <1>12 DEF Real
<1>15. ViewsRight'
  <2>1. \A p \in Object : info'[p].view = info[p].view
    BY <1>2, <1>10, <1>11
  <2> QED BY <1>6, <1>12, <2>1 DEF ScreensInv, PointersRight, ViewsRight
<1>16. ListsRight'
  <2>1. ASSUME NEW p \in Object
        PROVE  info'[p].refs = (IF p \in ToSet(screens) THEN 1 ELSE 0) + (IF p \in ToSet(run.new) THEN 1 ELSE 0)
                                 + (IF p \in ToSet(rest) THEN 1 ELSE 0)
    <3>1. CASE p = o
      BY <1>5, <1>8, <1>10, <1>11, <3>1
    <3>2. CASE p # o
      BY <1>5, <1>11, <3>2 DEF ScreensInv, PointersRight, ListsRight
    <3> QED BY <3>1, <3>2
  <2>2. \A p \in ToSet(rest) : p \notin ToSet(screens) \cup ToSet(run.new) /\ info'[p].xid # FakeXid
    BY <1>5, <1>7, <1>11 DEF ScreensInv, PointersRight, ListsRight
  <2> QED BY <1>5, <1>6, <1>12, <2>1, <2>2 DEF ScreensInv, PointersRight, ListsRight
<1>17. ListedRight'
  BY <1>7, <1>8, <1>11, <1>12 DEF ScreensInv, PointersRight, ListedRight
<1>18. NewRight'
  BY <1>4, <1>6, <1>7, <1>8, <1>11, <1>12 DEF ScreensInv, PointersRight, NewRight
<1>19. PhasesRight' /\ SomeScreen'
  <2>1. PhasesRight'
    BY <1>4, <1>6, <1>12 DEF ScreensInv, PointersRight, PhasesRight, Refreshing
  <2>2. ~ignore
    BY <1>4 DEF ScreensInv, PointersRight, SomeScreen
  <2>3. SomeScreen'
    BY <1>4, <1>6, <1>12, <1>14, <2>2 DEF ScreensInv, PointersRight, SomeScreen
  <2> QED BY <2>1, <2>3
<1>20. ClientsRight'
  <2>1. primary' \in ToSet(screens) \cup ToSet(rest) \cup {NoScreen}
    BY <1>4, <1>5 DEF ScreensInv, PointersRight, ClientsRight, WithoutPrimary
  <2>2. 0 \notin Object
    BY ScreensAssumption DEF Object
  <2>3. ASSUME NEW c \in Client
        PROVE  IF on'[c] = NoScreen THEN screens = <<>> ELSE on'[c] \in ToSet(screens) \cup ToSet(rest)
    <3>1. /\ on[c] # o => on'[c] = on[c]
          /\ on[c] = o => IF screens = <<>> THEN on'[c] = NoScreen ELSE on'[c] \in ToSet(screens)
      <4>1. ScreensTypes /\ o \in Object /\ screens \in Seq(Object) /\ ToSet(screens) \subseteq Object
        BY <1>3, <1>5, <1>7
      <4>2. /\ on[c] # o => Evacuated(o, screens)[c] = on[c]
            /\ on[c] = o => IF screens = <<>> THEN Evacuated(o, screens)[c] = NoScreen
                            ELSE Evacuated(o, screens)[c] \in ToSet(screens)
        BY <4>1, EvacuatedRight
      <4> QED BY <1>4, <4>2
    <3>2. IF on[c] = NoScreen THEN screens = <<>> ELSE on[c] \in ToSet(screens) \cup ToSet(rest) \cup {o}
      BY <1>4, <1>5 DEF ScreensInv, PointersRight, ClientsRight, ClientsOnScreens
    <3> QED BY <1>5, <1>7, <2>2, <3>1, <3>2 DEF NoScreen
  <2> QED BY <1>6, <1>12, <2>1, <2>3 DEF ClientsRight, ClientsOnScreens
<1>21. PicturesRight'
  <2>1. \A p \in Real \cup ToSet(run.new) : info'[p].xid = info[p].xid /\ info'[p].geo = info[p].geo
    BY <1>7, <1>8, <1>11 DEF Real
  <2>2. run'.pc = run.pc
    BY <1>4, <1>6
  <2> QED BY <1>6, <1>12, <1>14, <2>1, <2>2, SamePictures
<1> QED BY <1>13, <1>15, <1>16, <1>17, <1>18, <1>19, <1>20, <1>21 DEF ScreensInv, PointersRight

LEMMA ScrRefreshModify == ASSUME ScreensInv, RefreshModify PROVE ScreensInv'
<1>1. PICK o, rest, same : o = Head(run.left) /\ rest = Tail(run.left) /\ same = {n \in ToSet(run.new) : info[n].xid = info[o].xid}
  OBVIOUS
<1>2. /\ UNCHANGED <<screens, views, nextView, at, on, strut, primary, ignore, randr, pending, lua, told, layout, changes>>
      /\ run.pc = "modify" /\ run.left # <<>> /\ run' = [run EXCEPT !.left = rest]
      /\ info' = IF same = {} THEN info ELSE Modified(o, CHOOSE n \in same : TRUE)
  BY <1>1 DEF RefreshModify, xserver
<1>3. /\ screens \in Seq(Object) /\ info \in [Object -> ScreenState] /\ nextView \in Nat \ {0} /\ ScreensTypes
      /\ on \in [Client -> Object \cup {NoScreen}] /\ strut \in [Client -> 0..1]
      /\ run.left \in Seq(Object) /\ run \in [pc : Pc, found : Seq(Seen), new : Seq(Object), left : Seq(Object), gone : Seq(Object)]
  BY DEF ScreensInv, PointersRight, ScreensTypes
<1>4. rest \in Seq(Object) /\ ToSet(run.left) = ToSet(rest) \cup {o} /\ o \in Object /\ o \in ToSet(run.left)
  BY <1>1, <1>2, <1>3, FewerScreens
<1>5. /\ run' \in [pc : Pc, found : Seq(Seen), new : Seq(Object), left : Seq(Object), gone : Seq(Object)]
      /\ run'.pc = "modify" /\ run'.left = rest /\ run'.new = run.new /\ run'.gone = run.gone /\ run'.found = run.found
  BY <1>2, <1>3, <1>4
<1>6. /\ ToSet(screens) \subseteq Object /\ ToSet(run.new) \subseteq Object /\ ToSet(run.gone) \subseteq Object
      /\ o \in ToSet(screens) /\ run.gone = <<>>
  BY <1>2, <1>4, Fields DEF ScreensInv, PointersRight, NewRight, PhasesRight
<1>7. UNCHANGED <<screens, views, nextView, at, on, strut, primary, ignore, randr, pending, lua, told, layout, changes>>
  BY <1>2
\* the objects after the step
<1>8. /\ info' \in [Object -> ScreenState]
      /\ \A p \in Object : /\ info'[p].valid = info[p].valid /\ info'[p].c = info[p].c /\ info'[p].xid = info[p].xid
                           /\ info'[p].refs = info[p].refs
                           /\ p # o => info'[p].geo = info[p].geo /\ info'[p].work = info[p].work
      /\ Within(info'[o].work, info'[o].geo)
      /\ \A n \in same : info'[o].geo = info[n].geo
      /\ \A p \in Object : info'[p].view < nextView
      /\ \A p \in ToSet(screens) \cup ToSet(run.new) : info'[p].view \in Ids(views) \cup {0}
  <2>1. \A p \in ToSet(screens) \cup ToSet(run.new) : p \in Object /\ info[p].view \in Ids(views) \cup {0}
    BY <1>6 DEF ScreensInv, PointersRight, ListedRight, NewRight
  <2>2. Within(info[o].work, info[o].geo)
    BY <1>6 DEF ScreensInv, PointersRight, ListedRight
  <2>3. \A p \in Object : info[p].view < nextView
    BY DEF ScreensInv, PointersRight, ViewsRight
  <2>4. CASE same = {}
    BY <1>2, <1>3, <2>1, <2>2, <2>3, <2>4
  <2>5. CASE same # {}
    <3>1. PICK n : n = CHOOSE k \in same : TRUE
      OBVIOUS
    <3>2. n \in ToSet(run.new) /\ n \in Object /\ info[n].xid = info[o].xid
      BY <1>1, <1>6, <2>5, <3>1
    <3>3. \A p \in same : p = n
      <4>1. XidsOnce(ToSet(run.new), info)
        BY DEF ScreensInv, PicturesRight, NewOnce
      <4> QED BY <1>1, <3>2, <4>1 DEF XidsOnce
    <3>4. PICK s, g, v, w : s = info[o] /\ g = info[n].geo /\ v = info[n].view /\ w = info[o].view
      OBVIOUS
    <3>5. s \in ScreenState /\ g \in Area /\ v \in Nat /\ w \in Nat /\ v < nextView /\ w < nextView
          /\ v \in Ids(views) \cup {0} /\ w \in Ids(views) \cup {0} /\ s.work \in Part
      <4>1. s \in ScreenState
        BY <1>3, <1>4, <3>4
      <4>2. info[n] \in ScreenState
        BY <1>3, <3>2
      <4> QED BY <1>4, <1>6, <2>1, <2>3, <3>2, <3>4, <4>1, <4>2 DEF ScreenState
    <3>6. PICK m : m = [s EXCEPT !.geo = g]
      OBVIOUS
    <3>7. m \in ScreenState /\ m.geo = g /\ m.valid = s.valid /\ m.c = s.c /\ m.xid = s.xid /\ m.view = s.view /\ m.refs = s.refs /\ m.work = s.work
      BY <3>5, <3>6 DEF ScreenState
    <3>8. PICK moved : moved = [info EXCEPT ![o] = m]
      OBVIOUS
    <3>9. moved \in [Object -> ScreenState] /\ moved[o] = m /\ \A p \in Object : p # o => moved[p] = info[p]
      BY <1>3, <1>4, <3>7, <3>8
    <3>10. PICK a : a = IF s.geo # g THEN Workarea(o, moved, on, strut) ELSE s.work
      OBVIOUS
    <3>11. a \in Part /\ Within(a, g)
      <4>1. CASE s.geo # g
        BY <1>3, <1>4, <3>7, <3>9, <3>10, <4>1, WorkareaRight
      <4>2. CASE s.geo = g
        BY <2>2, <3>4, <3>5, <3>10, <4>2
      <4> QED BY <4>1, <4>2
    <3>12. info' = [moved EXCEPT ![o].work = a, ![o].view = v, ![n].view = w]
      <4>1. info' = Modified(o, n)
        BY <1>2, <2>5, <3>1
      <4>2. moved = [info EXCEPT ![o].geo = info[n].geo]
        BY <3>4, <3>6, <3>8
      <4>3. moved[o].work = s.work
        BY <3>7, <3>9
      <4> QED BY <1>3, <3>4, <3>10, <4>1, <4>2, <4>3 DEF Modified
    <3>13. PICK e : e = [m EXCEPT !.work = a, !.view = v]
      OBVIOUS
    <3>14. /\ e \in ScreenState /\ e.geo = g /\ e.valid = s.valid /\ e.c = s.c /\ e.xid = s.xid /\ e.view = v /\ e.refs = s.refs /\ e.work = a
           /\ [e EXCEPT !.view = w] \in ScreenState
      BY <3>5, <3>7, <3>11, <3>13 DEF ScreenState
    <3>15. CASE n = o
      <4>1. info' = [info EXCEPT ![o] = [e EXCEPT !.view = w]]
        BY <1>3, <1>4, <3>8, <3>12, <3>13, <3>15, <3>9
      <4>2. PICK d : d = [e EXCEPT !.view = w]
        OBVIOUS
      <4>3. /\ d \in ScreenState /\ d.geo = g /\ d.valid = s.valid /\ d.c = s.c /\ d.xid = s.xid /\ d.view = w /\ d.refs = s.refs /\ d.work = a
        BY <3>14, <4>2 DEF ScreenState
      <4>4. info' \in [Object -> ScreenState] /\ info'[o] = d /\ \A p \in Object : p # o => info'[p] = info[p]
        BY <1>3, <1>4, <4>1, <4>2, <4>3
      <4> QED BY <1>4, <2>1, <2>3, <3>3, <3>4, <3>5, <3>11, <4>3, <4>4
    <3>16. CASE n # o
      <4>1. PICK d : d = [info[n] EXCEPT !.view = w]
        OBVIOUS
      <4>2. info' = [info EXCEPT ![o] = e, ![n] = d]
        BY <1>3, <1>4, <3>2, <3>8, <3>9, <3>12, <3>13, <3>16, <4>1
      <4>3. /\ d \in ScreenState /\ d.geo = g /\ d.valid = info[n].valid /\ d.c = info[n].c /\ d.xid = info[n].xid /\ d.view = w
            /\ d.refs = info[n].refs /\ d.work = info[n].work
        <5>1. info[n] \in ScreenState
          BY <1>3, <3>2
        <5> QED BY <3>4, <3>5, <4>1, <5>1 DEF ScreenState
      <4>4. /\ info' \in [Object -> ScreenState] /\ info'[o] = e /\ info'[n] = d
            /\ \A p \in Object : p # o /\ p # n => info'[p] = info[p]
        BY <1>3, <1>4, <3>2, <3>14, <3>16, <4>2, <4>3
      <4>5. ASSUME NEW p \in Object
            PROVE  /\ info'[p].valid = info[p].valid /\ info'[p].c = info[p].c /\ info'[p].xid = info[p].xid
                   /\ info'[p].refs = info[p].refs
                   /\ p # o => info'[p].geo = info[p].geo /\ info'[p].work = info[p].work
                   /\ info'[p].view \in {info[p].view, v, w}
        <5>1. CASE p = o
          BY <3>4, <3>14, <4>4, <5>1
        <5>2. CASE p = n
          BY <3>4, <3>16, <4>3, <4>4, <5>2
        <5>3. CASE p # o /\ p # n
          BY <4>4, <5>3
        <5> QED BY <5>1, <5>2, <5>3
      <4>6. \A p \in Object : info'[p].view < nextView
        BY <2>3, <3>5, <4>5
      <4>7. \A p \in ToSet(screens) \cup ToSet(run.new) : info'[p].view \in Ids(views) \cup {0}
        BY <2>1, <3>5, <4>5
      <4>8. Within(info'[o].work, info'[o].geo) /\ \A p \in same : info'[o].geo = info[p].geo
        BY <3>3, <3>4, <3>11, <3>14, <4>4
      <4> QED BY <4>4, <4>5, <4>6, <4>7, <4>8
    <3> QED BY <3>15, <3>16
  <2> QED BY <2>4, <2>5
<1>9. ScreensTypes'
  BY <1>5, <1>7, <1>8 DEF ScreensInv, PointersRight, ScreensTypes
<1>10. Real' = Real /\ InView' = InView
  BY <1>6, <1>7, <1>8 DEF Real, InView, Compat
<1>11. ViewsRight'
  BY <1>5, <1>7, <1>8 DEF ScreensInv, PointersRight, ViewsRight
<1>12. ListsRight'
  BY <1>5, <1>6, <1>7, <1>8 DEF ScreensInv, PointersRight, ListsRight
<1>13. ListedRight'
  <2>1. ASSUME NEW p \in ToSet(screens) PROVE Within(info'[p].work, info'[p].geo)
    <3>1. CASE p = o
      BY <1>8, <3>1
    <3>2. CASE p # o
      BY <1>6, <1>8, <3>2 DEF ScreensInv, PointersRight, ListedRight
    <3> QED BY <3>1, <3>2
  <2> QED BY <1>6, <1>7, <1>8, <2>1 DEF ScreensInv, PointersRight, ListedRight
<1>14. NewRight'
  BY <1>2, <1>4, <1>5, <1>6, <1>7, <1>8 DEF ScreensInv, PointersRight, NewRight
<1>15. PhasesRight' /\ SomeScreen' /\ ClientsRight'
  BY <1>2, <1>5, <1>7, <1>10 DEF ScreensInv, PointersRight, PhasesRight, SomeScreen, Refreshing, ClientsRight, ClientsOnScreens
\* a new screen is changed only by itself
<1>16. \A n \in ToSet(run.new) : info'[n].geo = info[n].geo /\ info'[n].xid = info[n].xid
  <2>1. \A n \in ToSet(run.new) : n = o => n \in same
    BY <1>1
  <2> QED BY <1>6, <1>8, <2>1
<1>17. ScanRight' /\ NewOnce'
  <2>1. PICK n, shown : n = ToSet(run.new) /\ shown = InView
    OBVIOUS
  <2>2. /\ Shows(shown, n, info) => Shows(shown, n, info')
        /\ Apart(n, info) => Apart(n, info')
        /\ XidsOnce(n, info) => XidsOnce(n, info')
    BY <1>16, <2>1, SameShows
  <2>3. XidsOnce(Real, info) => XidsOnce(Real, info')
    BY <1>6, <1>8 DEF XidsOnce, Real
  <2>4. ScanRight'
    BY <1>2, <1>5, <1>7, <1>10, <2>1, <2>2 DEF ScreensInv, PicturesRight, ScanRight
  <2>5. NewOnce'
    BY <1>5, <1>7, <1>10, <2>1, <2>2, <2>3 DEF ScreensInv, PicturesRight, NewOnce
  <2> QED BY <2>4, <2>5
<1>18. Matching'
  <2>1. \A p \in Real : p \in Object
    BY <1>6 DEF Real
  <2>2. ASSUME NEW p \in Real, NEW n \in ToSet(run.new), info[p].xid = info[n].xid, p \notin ToSet(rest)
        PROVE  info'[p].geo = info[n].geo
    <3>1. CASE p = o
      BY <1>1, <1>8, <2>2, <3>1
    <3>2. CASE p # o
      BY <1>2, <1>4, <1>8, <2>1, <2>2, <3>2 DEF ScreensInv, PicturesRight, Matching
    <3> QED BY <3>1, <3>2
  <2>3. \A p \in Real, n \in ToSet(run.new) :
          info'[p].xid = info'[n].xid /\ p \notin ToSet(rest) => info'[p].geo = info'[n].geo
    BY <1>8, <1>16, <2>1, <2>2
  <2>4. ~ignore => /\ \A n \in ToSet(run.new) : \E p \in Real : info'[p].xid = info'[n].xid
                   /\ \A p \in Real : \E n \in ToSet(run.new) : info'[p].xid = info'[n].xid
    BY <1>2, <1>6, <1>8, <2>1 DEF ScreensInv, PicturesRight, Matching
  <2> QED BY <1>5, <1>7, <1>10, <2>3, <2>4 DEF Matching
<1>19. Settled' /\ RealApart'
  BY <1>5 DEF Settled, RealApart
<1> QED BY <1>9, <1>11, <1>12, <1>13, <1>14, <1>15, <1>17, <1>18, <1>19 DEF ScreensInv, PointersRight, PicturesRight

LEMMA DeadRight == Dead \in ScreenState /\ Dead.view = 0 /\ Dead.refs = 0 /\ ~Dead.c
<1>1. Root \in Area /\ NoXid \in Xid
  BY ScreensAssumption DEF Xid
<1>2. Root \in Part
  BY <1>1, AreaInside
<1> QED BY <1>1, <1>2 DEF Dead, ScreenState

LEMMA ScrRefreshEnd == ASSUME ScreensInv, RefreshEnd PROVE ScreensInv'
<1>1. /\ UNCHANGED <<screens, views, nextView, at, on, strut, ignore, randr, pending, lua, told, layout, changes>>
      /\ run.pc = "modify" /\ run.left = <<>> /\ run' = Idle /\ info' = Collected(Unref(info))
      /\ primary' = UpdatePrimary(screens, info, views, primary)
  BY DEF RefreshEnd, xserver
<1>2. UNCHANGED <<screens, views, nextView, at, on, strut, ignore, randr, pending, lua, told, layout, changes>>
  BY <1>1
<1>3. /\ screens \in Seq(Object) /\ info \in [Object -> ScreenState] /\ ScreensTypes /\ nextView \in Nat \ {0}
      /\ ToSet(screens) \subseteq Object /\ run.gone = <<>> /\ run.found = <<>>
  BY <1>1, Fields DEF ScreensInv, PointersRight, ScreensTypes, PhasesRight
<1>4. /\ run' \in [pc : Pc, found : Seq(Seen), new : Seq(Object), left : Seq(Object), gone : Seq(Object)]
      /\ run'.pc = "idle" /\ run'.new = <<>> /\ run'.left = <<>> /\ run'.gone = <<>> /\ run'.found = <<>>
  BY <1>1, EmptyScreens DEF Idle, Pc
<1>5. primary' \in ToSet(screens) \cup {NoScreen}
  <2>1. primary' \in ToSet(screens) \cup {primary}
    BY <1>1, <1>3, PrimaryRight
  <2>2. primary \in ToSet(screens) \cup {NoScreen}
    BY <1>3, EmptyScreens DEF ScreensInv, PointersRight, ClientsRight
  <2> QED BY <2>1, <2>2
\* what stays of an object
<1>6. ASSUME NEW o \in Object
      PROVE  /\ o \notin ToSet(screens) => info'[o] = Dead
             /\ o \in ToSet(screens) => info'[o] = [info[o] EXCEPT !.refs = 1]
  <2>1. PICK u : u = Unref(info)
    OBVIOUS
  <2>2. PICK s, k : s = info[o] /\ k = s.refs - 1
    OBVIOUS
  <2>3. s \in ScreenState
    BY <1>3, <2>2
  <2>4. u[o] = IF o \in ToSet(run.new) THEN [s EXCEPT !.refs = k] ELSE s
    BY <2>1, <2>2 DEF Unref
  <2>5. info'[o] = IF u[o].refs = 0 THEN Dead ELSE u[o]
    BY <1>1, <2>1 DEF Collected
  <2>6. s.refs = (IF o \in ToSet(screens) THEN 1 ELSE 0) + (IF o \in ToSet(run.new) THEN 1 ELSE 0)
    BY <1>3, <2>2, EmptyScreens DEF ScreensInv, PointersRight, ListsRight
  <2>7. u[o].refs = (IF o \in ToSet(screens) THEN 1 ELSE 0)
    BY <2>2, <2>3, <2>4, <2>6 DEF ScreenState
  <2>8. o \in ToSet(screens) => u[o] = [s EXCEPT !.refs = 1]
    BY <2>2, <2>3, <2>4, <2>6 DEF ScreenState
  <2> QED BY <2>2, <2>5, <2>7, <2>8
<1>7. ASSUME NEW o \in ToSet(screens)
      PROVE  /\ info'[o] \in ScreenState /\ info'[o].valid = info[o].valid /\ info'[o].c = info[o].c /\ info'[o].xid = info[o].xid
             /\ info'[o].geo = info[o].geo /\ info'[o].work = info[o].work /\ info'[o].view = info[o].view /\ info'[o].refs = 1
  <2>1. PICK s, e : s = info[o] /\ e = [s EXCEPT !.refs = 1]
    OBVIOUS
  <2>2. s \in ScreenState /\ info'[o] = e
    BY <1>3, <1>6, <2>1
  <2>3. e \in ScreenState /\ e.refs = 1 /\ e.valid = s.valid /\ e.c = s.c /\ e.xid = s.xid /\ e.geo = s.geo /\ e.work = s.work /\ e.view = s.view
    BY <2>1, <2>2 DEF ScreenState
  <2> QED BY <2>1, <2>2, <2>3
<1>8. \A o \in Object : info'[o] \in ScreenState /\ info'[o].view < nextView
                        /\ info'[o].refs = (IF o \in ToSet(screens) THEN 1 ELSE 0)
  <2>1. ASSUME NEW o \in Object
        PROVE  info'[o] \in ScreenState /\ info'[o].view < nextView /\ info'[o].refs = (IF o \in ToSet(screens) THEN 1 ELSE 0)
    <3>1. info[o].view < nextView
      BY DEF ScreensInv, PointersRight, ViewsRight
    <3>2. CASE o \in ToSet(screens)
      BY <1>7, <3>1, <3>2
    <3>3. CASE o \notin ToSet(screens)
      <4>1. info'[o] = Dead
        BY <1>6, <3>3
      <4>2. 0 < nextView
        BY <1>3
      <4> QED BY <3>3, <4>1, <4>2, DeadRight
    <3> QED BY <3>2, <3>3
  <2> QED BY <2>1
<1>9. info' \in [Object -> ScreenState]
  <2>1. DOMAIN info' = Object /\ info' = [o \in Object |-> info'[o]]
    BY <1>1 DEF Collected
  <2> QED BY <1>8, <2>1
<1>10. ScreensTypes'
  BY <1>2, <1>3, <1>4, <1>5, <1>9 DEF ScreensTypes
<1>11. Real' = Real /\ InView' = InView
  BY <1>2, <1>7 DEF Real, InView, Compat
<1>12. ViewsRight' /\ ListsRight' /\ ListedRight'
  <2>1. ViewsRight'
    BY <1>2, <1>4, <1>8 DEF ScreensInv, PointersRight, ViewsRight
  <2>2. ListsRight'
    BY <1>2, <1>4, <1>8, EmptyScreens DEF ScreensInv, PointersRight, ListsRight
  <2>3. ListedRight'
    BY <1>2, <1>7 DEF ScreensInv, PointersRight, ListedRight
  <2> QED BY <2>1, <2>2, <2>3
<1>13. NewRight' /\ PhasesRight'
  BY <1>1, <1>2, <1>4, EmptyScreens DEF ScreensInv, PointersRight, NewRight, PhasesRight, Refreshing
<1>14. SomeScreen' /\ ClientsRight'
  BY <1>1, <1>2, <1>3, <1>4, <1>5, <1>11, EmptyScreens DEF ScreensInv, PointersRight, SomeScreen, ClientsRight, ClientsOnScreens
<1>15. ScanRight' /\ Matching'
  BY <1>4 DEF ScanRight, Matching
<1>16. PICK new, shown : new = ToSet(run.new) /\ shown = InView
  OBVIOUS
<1>17. /\ ~ignore => /\ \A n \in new : \E o \in Real : info[o].xid = info[n].xid
                     /\ \A o \in Real : \E n \in new : info[o].xid = info[n].xid
       /\ \A o \in Real, n \in new : info[o].xid = info[n].xid => info[o].geo = info[n].geo
       /\ XidsOnce(Real, info) /\ Apart(new, info)
       /\ ignore => Real = {}
  BY <1>1, <1>16, EmptyScreens DEF ScreensInv, PointersRight, PicturesRight, PhasesRight, Refreshing, SomeScreen, Matching, NewOnce
<1>18. \A o \in Real : info'[o].xid = info[o].xid /\ info'[o].geo = info[o].geo
  BY <1>7 DEF Real
<1>19. XidsOnce(Real, info') /\ Apart(Real, info')
  <2>1. Apart(Real, info)
    <3>1. SUFFICES ASSUME NEW s \in Real, NEW t \in Real, s # t
                   PROVE  <<info[s].geo.x, info[s].geo.y>> # <<info[t].geo.x, info[t].geo.y>>
      BY DEF Apart
    <3>2. ~ignore
      BY <1>17
    <3>3. PICK n \in new : info[s].xid = info[n].xid
      BY <1>17, <3>2
    <3>4. PICK m \in new : info[t].xid = info[m].xid
      BY <1>17, <3>2
    <3>5. n # m
      BY <1>17, <3>1, <3>3, <3>4 DEF XidsOnce
    <3>6. info[s].geo = info[n].geo /\ info[t].geo = info[m].geo
      BY <1>17, <3>3, <3>4
    <3> QED BY <1>17, <3>5, <3>6 DEF Apart
  <2> QED BY <1>17, <1>18, <2>1, SameShows
<1>20. NewOnce' /\ RealApart'
  BY <1>4, <1>11, <1>19, EmptyScreens DEF NewOnce, RealApart, XidsOnce, Apart
<1>21. Settled'
  <2>1. SUFFICES ASSUME ~told, ~ignore PROVE Shows(shown, Real, info') /\ Real # {}
    BY <1>2, <1>11, <1>16 DEF Settled
  <2>2. Shows(shown, new, info) /\ Real # {}
    BY <1>1, <1>16, <2>1 DEF ScreensInv, PointersRight, PicturesRight, ScanRight, SomeScreen
  <2>3. Shows(shown, Real, info)
    BY <1>17, <2>1, <2>2 DEF Shows
  <2> QED BY <1>18, <2>2, <2>3, SameShows
<1> QED BY <1>10, <1>12, <1>13, <1>14, <1>15, <1>20, <1>21 DEF ScreensInv, PointersRight, PicturesRight

-----------------------------------------------------------------------------
(* What a scan leaves: the viewports, the screens that were found and the     *)
(* objects that get them.                                                     *)

LEMMA LayoutIsRight ==
    ASSUME ScreensTypes
    PROVE  LayoutRight
BY ScreensAssumption DEF ScreensTypes, LayoutRight

LEMMA StartRight ==
    ASSUME views \in Seq(View), nextView \in Nat \ {0}, Numbered(views, nextView)
    PROVE  LET r == StartScan(views)
           IN  AccRight(r) /\ r.found = <<>> /\ ~r.stop /\ ~OldMarked(r) /\ r.next = nextView /\ ScanShows(r, 0)
<1> DEFINE u == Unmarked(views)
<1>1. DOMAIN views = 1..Len(views) /\ Len(views) \in Nat
  OBVIOUS
<1>2. ASSUME NEW i \in DOMAIN views
      PROVE  u[i] \in View /\ u[i].id = views[i].id /\ u[i].marked = FALSE
  <2>1. PICK v : v = views[i]
    OBVIOUS
  <2>2. v \in View /\ u[i] = [v EXCEPT !.marked = FALSE]
    BY <2>1 DEF Unmarked
  <2> QED BY <2>1, <2>2 DEF View
<1>3. DOMAIN u = DOMAIN views
  BY DEF Unmarked
<1>4. u \in Seq(View)
  <2>1. u \in [1..Len(views) -> View]
    <3>1. u = [i \in DOMAIN u |-> u[i]]
      BY DEF Unmarked
    <3> QED BY <1>1, <1>2, <1>3, <3>1
  <2> QED BY <1>1, <2>1, FunctionSequence
<1> HIDE DEF u
<1>5. PICK r : r = [views |-> u, next |-> nextView, found |-> <<>>, last |-> 0, stop |-> FALSE]
  OBVIOUS
<1>6. r = StartScan(views)
  BY <1>5 DEF StartScan, u
<1>7. r \in Acc /\ r.views = u /\ r.next = nextView /\ r.found = <<>> /\ ~r.stop
  <2>1. <<>> \in Seq(Seen)
    BY EmptyScreens
  <2> QED BY <1>4, <1>5, <2>1 DEF Acc
<1>8. Numbered(u, nextView)
  BY <1>2, <1>3 DEF Numbered
<1>9. AccRight(r)
  BY <1>7, <1>8 DEF AccRight
<1>10. ~OldMarked(r)
  BY <1>2, <1>3, <1>7 DEF OldMarked
<1>11. ScanShows(r, 0)
  <2>1. Finds(<<>>, 0)
    BY DEF Finds, XidsOnce
  <2> QED BY <1>7, <1>10, <2>1 DEF ScanShows
<1> QED BY <1>6, <1>7, <1>9, <1>10, <1>11

\* viewport_purge keeps the viewports of what was found
LEMMA PurgedRight ==
    ASSUME NEW a, AccRight(a)
    PROVE  LET vs == Purged(a.views)
           IN  /\ vs \in Seq(View) /\ Numbered(vs, a.next)
               /\ \A i \in DOMAIN a.found : a.found[i].view \in Ids(vs)
               /\ (\E v \in ToSet(vs) : DefaultOutput \in ToSet(v.outs)) <=> OldMarked(a)
<1>1. a.views \in Seq(View) /\ Numbered(a.views, a.next)
      /\ \A i \in DOMAIN a.found : \E k \in DOMAIN a.views : a.views[k].marked /\ a.views[k].id = a.found[i].view
  <2>1. a \in Acc
    BY DEF AccRight
  <2> QED BY <2>1 DEF Acc, AccRight
<1>2. PICK l, vs, places : l = a.views /\ places = {i \in DOMAIN l : l[i].marked} /\ vs = Chosen(l, places)
  OBVIOUS
<1>3. vs = Purged(a.views)
  BY <1>2 DEF Purged
<1>4. /\ vs \in Seq(View) /\ ToSet(vs) = {l[i] : i \in DOMAIN l \cap places}
      /\ \A p, q \in DOMAIN vs : p < q => \E i, j \in DOMAIN l \cap places : i < j /\ l[i] = vs[p] /\ l[j] = vs[q]
  <2>1. l \in Seq(View) /\ vs = Chosen(l, places)
    BY <1>1, <1>2
  <2> QED BY <2>1, ChosenRight
<1>5. ToSet(vs) = {l[i] : i \in places} /\ DOMAIN l = 1..Len(l) /\ DOMAIN vs = 1..Len(vs)
  <2>1. DOMAIN l \cap places = places
    BY <1>2
  <2> QED BY <1>1, <1>2, <1>4, <2>1
<1>6. Numbered(vs, a.next)
  <2>1. ASSUME NEW i \in DOMAIN vs PROVE vs[i].id < a.next
    <3>1. vs[i] \in ToSet(vs)
      BY DEF ToSet
    <3>2. PICK k \in places : vs[i] = l[k]
      BY <1>5, <3>1
    <3> QED BY <1>1, <1>2, <3>2 DEF Numbered
  <2>2. ASSUME NEW p \in DOMAIN vs, NEW q \in DOMAIN vs, p < q PROVE vs[p].id # vs[q].id
    <3>1. PICK i \in DOMAIN l, j \in DOMAIN l : i < j /\ l[i] = vs[p] /\ l[j] = vs[q]
      BY <1>4, <2>2
    <3>2. i # j
      BY <1>5, <3>1
    <3> QED BY <1>1, <1>2, <3>1, <3>2 DEF Numbered
  <2>3. \A p, q \in DOMAIN vs : p = q \/ p < q \/ q < p
    BY <1>5
  <2> QED BY <2>1, <2>2, <2>3 DEF Numbered
<1>7. ASSUME NEW i \in DOMAIN a.found PROVE a.found[i].view \in Ids(vs)
  <2>1. PICK k \in DOMAIN l : l[k].marked /\ l[k].id = a.found[i].view
    BY <1>1, <1>2
  <2>2. l[k] \in ToSet(vs)
    BY <1>2, <1>5, <2>1
  <2>3. PICK j \in DOMAIN vs : vs[j] = l[k]
    BY <2>2 DEF ToSet
  <2> QED BY <2>1, <2>3 DEF Ids
<1>8. (\E v \in ToSet(vs) : DefaultOutput \in ToSet(v.outs)) <=> OldMarked(a)
  BY <1>2, <1>5 DEF OldMarked, OldDriver
<1> QED BY <1>3, <1>4, <1>6, <1>7, <1>8

\* what a scan of RandR found shows the monitors
LEMMA ScanFinds ==
    ASSUME NEW a, AccRight(a), ScanShows(a, Len(layout)), LayoutRight,
           NEW shown, shown = {m \in ToSet(layout) : m.outs # <<>> /\ ~OldMarked(a)}
    PROVE  /\ XidsOnce(DOMAIN a.found, a.found)
           /\ IF shown = {} THEN a.found = <<>> ELSE a.found # <<>> /\ Shows(shown, DOMAIN a.found, a.found)
<1> DEFINE l == a.found
           outs == {j \in 1..Len(layout) : layout[j].outs # <<>>}
<1>1. DOMAIN layout = 1..Len(layout) /\ \A j \in DOMAIN layout : layout[j] \in Monitor
  BY DEF LayoutRight
<1>2. l \in Seq(Seen)
  <2>1. a \in Acc
    BY DEF AccRight
  <2> QED BY <2>1 DEF Acc
<1>3. CASE a.stop /\ l = <<>> /\ OldMarked(a)
  BY <1>3 DEF XidsOnce
<1>4. CASE ~a.stop /\ ~OldMarked(a) /\ Finds(l, Len(layout))
  <2>1. /\ \A j \in outs : \E k \in DOMAIN l : l[k].geo = layout[j].area
        /\ \A k \in DOMAIN l : \E j \in outs : l[k].xid = layout[j].xid
        /\ XidsOnce(DOMAIN l, l)
    BY <1>4 DEF Finds
  <2>2. shown = {layout[j] : j \in outs}
    BY <1>1, <1>4 DEF ToSet
  <2> HIDE DEF outs, l
  <2>3. CASE outs = {}
    <3>1. DOMAIN l = {} /\ shown = {}
      BY <2>1, <2>2, <2>3
    <3>2. l = <<>>
      BY <1>2, <3>1
    <3> QED BY <2>1, <3>1, <3>2 DEF l
  <2>4. CASE outs # {}
    <3>1. shown # {} /\ DOMAIN l # {}
      BY <2>1, <2>2, <2>4
    <3>2. l # <<>>
      BY <3>1
    <3>3. ASSUME NEW m \in shown PROVE \E k \in DOMAIN l : Within(m.area, l[k].geo)
      <4>1. PICK j \in outs : m = layout[j]
        BY <2>2
      <4>2. PICK k \in DOMAIN l : l[k].geo = layout[j].area
        BY <2>1
      <4>3. l[k] \in Seen
        BY <1>2
      <4>4. l[k].geo \in Area
        BY <4>3 DEF Seen
      <4> QED BY <4>1, <4>2, <4>4, AreaInside
    <3>4. {l[k].xid : k \in DOMAIN l} \subseteq {m.xid : m \in shown}
      BY <2>1, <2>2
    <3>5. Shows(shown, DOMAIN l, l)
      BY <3>1, <3>3, <3>4 DEF Shows
    <3> QED BY <2>1, <3>1, <3>2, <3>5 DEF l
  <2> QED BY <2>3, <2>4
<1> QED BY <1>3, <1>4 DEF ScanShows

\* the objects that get what was found
Filled(l, new, f) ==
    /\ Len(new) = Len(l) /\ IsInjective(new)
    /\ \A i \in DOMAIN l : f[new[i]].xid = l[i].xid /\ f[new[i]].geo = l[i].geo

LEMMA PlacedRight ==
    ASSUME NEW l \in Seq(Seen), NEW new \in Seq(Object), NEW f, Filled(l, new, f)
    PROVE  /\ XidsOnce(DOMAIN l, l) => XidsOnce(ToSet(new), f)
           /\ Apart(DOMAIN l, l) => Apart(ToSet(new), f)
           /\ \A shown : Shows(shown, DOMAIN l, l) => Shows(shown, ToSet(new), f)
<1>1. DOMAIN new = DOMAIN l /\ \A i \in DOMAIN l : new[i] \in ToSet(new)
  BY DEF Filled, ToSet
<1>2. \A s \in ToSet(new) : \E i \in DOMAIN l : s = new[i] /\ f[s].xid = l[i].xid /\ f[s].geo = l[i].geo
  BY <1>1 DEF Filled, ToSet
<1>3. \A i \in DOMAIN l : f[new[i]].xid = l[i].xid /\ f[new[i]].geo = l[i].geo
  BY DEF Filled
<1>4. XidsOnce(DOMAIN l, l) => XidsOnce(ToSet(new), f)
  BY <1>2 DEF XidsOnce
<1>5. Apart(DOMAIN l, l) => Apart(ToSet(new), f)
  BY <1>2 DEF Apart
<1>6. ASSUME NEW shown, Shows(shown, DOMAIN l, l) PROVE Shows(shown, ToSet(new), f)
  <2>1. \A m \in shown : \E s \in ToSet(new) : Within(m.area, f[s].geo)
    BY <1>1, <1>3, <1>6 DEF Shows
  <2>2. {f[s].xid : s \in ToSet(new)} \subseteq {l[i].xid : i \in DOMAIN l}
    BY <1>2
  <2> QED BY <1>6, <2>1, <2>2 DEF Shows
<1> QED BY <1>4, <1>5, <1>6

\* which of them an object is
LEMMA IndexRight ==
    ASSUME NEW new \in Seq(Object), IsInjective(new), NEW o \in ToSet(new)
    PROVE  LET i == CHOOSE j \in DOMAIN new : new[j] = o IN i \in DOMAIN new /\ new[i] = o
<1>1. \E j \in DOMAIN new : new[j] = o
  BY DEF ToSet
<1> QED BY <1>1

LEMMA StemsShow ==
    ASSUME NEW l \in Seq(Seen), NEW r \in Seq(Seen), Stems(l, r), NEW shown, shown \subseteq Monitor, Shows(shown, DOMAIN l, l)
    PROVE  Shows(shown, DOMAIN r, r)
<1>1. ASSUME NEW m \in shown PROVE \E k \in DOMAIN r : Within(m.area, r[k].geo)
  <2>1. PICK i \in DOMAIN l : Within(m.area, l[i].geo)
    BY DEF Shows
  <2>2. PICK k \in DOMAIN r : Within(l[i].geo, r[k].geo)
    BY DEF Stems
  <2>3. l[i] \in Seen /\ r[k] \in Seen /\ m \in Monitor
    OBVIOUS
  <2>4. m.area \in Area /\ l[i].geo \in Area /\ r[k].geo \in Area
    BY <2>3 DEF Seen, Monitor
  <2> QED BY <2>1, <2>2, <2>4, WithinTransitive
<1>2. {r[k].xid : k \in DOMAIN r} \subseteq {l[i].xid : i \in DOMAIN l}
  <2>1. SUFFICES ASSUME NEW k \in DOMAIN r PROVE r[k].xid \in {l[i].xid : i \in DOMAIN l}
    OBVIOUS
  <2>2. PICK i \in DOMAIN l : r[k].xid = l[i].xid
    BY DEF Stems
  <2> QED BY <2>2, Zenon
<1> QED BY <1>1, <1>2 DEF Shows

LEMMA ScrRefreshScan == ASSUME ScreensInv, RefreshScan PROVE ScreensInv'
<1>1. PICK start, a : start = StartScan(views) /\ a = ScanRandr(start)
  OBVIOUS
<1>2. /\ UNCHANGED <<screens, at, on, strut, primary, ignore, randr, told, layout, changes>>
      /\ run.pc = "idle" /\ pending /\ pending' = FALSE /\ lua' = MaxLua
      /\ views' = Purged(a.views) /\ nextView' = a.next /\ info' = Forget(info, screens, views')
      /\ run' = [Idle EXCEPT !.pc = "notify", !.found = a.found]
  BY <1>1 DEF RefreshScan, xserver
<1>3. UNCHANGED <<screens, at, on, strut, primary, ignore, randr, told, layout, changes>>
  BY <1>2
<1>4. /\ ScreensTypes /\ screens \in Seq(Object) /\ info \in [Object -> ScreenState] /\ views \in Seq(View) /\ nextView \in Nat \ {0}
      /\ ToSet(screens) \subseteq Object /\ ignore \in BOOLEAN /\ MaxLua \in Nat
      /\ run.new = <<>> /\ run.gone = <<>> /\ Numbered(views, nextView) /\ LayoutRight
  BY <1>2, ScreensAssumption, Fields, LayoutIsRight DEF ScreensInv, PointersRight, ScreensTypes, PhasesRight, ViewsRight, Numbered
<1>5. AccRight(start) /\ start.found = <<>> /\ start.next = nextView /\ ScanShows(start, 0)
  BY <1>1, <1>4, StartRight
<1>6. AccRight(a) /\ a.next >= nextView /\ (ignore => a.found = <<>>) /\ (~ignore => ScanShows(a, Len(layout)))
  <2>1. a = ScanMonitors(start, TRUE)
    BY <1>1 DEF ScanRandr
  <2> QED BY <1>4, <1>5, <2>1, ScanMonitorsRight
<1>7. a.next \in Nat \ {0} /\ a.found \in Seq(Seen)
  <2>1. a \in Acc
    BY <1>6 DEF AccRight
  <2> QED BY <2>1 DEF Acc
<1>8. /\ views' \in Seq(View) /\ Numbered(views', a.next)
      /\ \A i \in DOMAIN a.found : a.found[i].view \in Ids(views')
      /\ (\E v \in ToSet(views') : DefaultOutput \in ToSet(v.outs)) <=> OldMarked(a)
  <2>1. PICK vs : vs = Purged(a.views)
    OBVIOUS
  <2>2. views' = vs
    BY <1>2, <2>1
  <2> QED BY <1>6, <2>1, <2>2, PurgedRight
<1>9. /\ run' \in [pc : Pc, found : Seq(Seen), new : Seq(Object), left : Seq(Object), gone : Seq(Object)]
      /\ run'.pc = "notify" /\ run'.new = <<>> /\ run'.left = <<>> /\ run'.gone = <<>> /\ run'.found = a.found
  BY <1>2, <1>7, EmptyScreens DEF Idle, Pc
<1>10. \A o \in Object : /\ info'[o] \in ScreenState /\ info'[o].valid = info[o].valid /\ info'[o].c = info[o].c /\ info'[o].xid = info[o].xid
                         /\ info'[o].geo = info[o].geo /\ info'[o].work = info[o].work /\ info'[o].refs = info[o].refs
                         /\ info'[o].view \in {info[o].view, 0}
                         /\ o \in ToSet(screens) => info'[o].view \in Ids(views') \cup {0}
  <2>1. ASSUME NEW o \in Object
        PROVE  /\ info'[o] \in ScreenState /\ info'[o].valid = info[o].valid /\ info'[o].c = info[o].c /\ info'[o].xid = info[o].xid
               /\ info'[o].geo = info[o].geo /\ info'[o].work = info[o].work /\ info'[o].refs = info[o].refs
               /\ info'[o].view \in {info[o].view, 0}
               /\ o \in ToSet(screens) => info'[o].view \in Ids(views') \cup {0}
    <3>1. PICK s, e, ids : s = info[o] /\ e = [s EXCEPT !.view = 0] /\ ids = Ids(views')
      OBVIOUS
    <3>2. s \in ScreenState /\ info'[o] = (IF o \in ToSet(screens) /\ s.view \notin ids THEN e ELSE s)
      BY <1>2, <1>4, <3>1 DEF Forget
    <3>3. /\ e \in ScreenState /\ e.valid = s.valid /\ e.c = s.c /\ e.xid = s.xid /\ e.geo = s.geo /\ e.work = s.work
          /\ e.refs = s.refs /\ e.view = 0
      BY <3>1, <3>2 DEF ScreenState
    <3> QED BY <3>1, <3>2, <3>3
  <2> QED BY <2>1
<1>11. info' \in [Object -> ScreenState]
  <2>1. info' = [o \in Object |-> info'[o]]
    BY <1>2 DEF Forget
  <2> QED BY <1>10, <2>1
<1>12. ScreensTypes'
  <2>1. pending' \in BOOLEAN /\ lua' \in 0..MaxLua /\ nextView' \in Nat \ {0}
    <3>1. MaxLua \in 0..MaxLua
      BY <1>4
    <3>2. pending' = FALSE /\ lua' = MaxLua /\ nextView' = a.next
      BY <1>2
    <3> QED BY <1>7, <3>1, <3>2
  <2> QED BY <1>3, <1>4, <1>8, <1>9, <1>11, <2>1 DEF ScreensTypes
<1>13. Real' = Real
  BY <1>3, <1>4, <1>10 DEF Real
<1>14. ViewsRight'
  <2>1. ASSUME NEW o \in Object PROVE info'[o].view < nextView'
    <3>1. info[o].view < nextView /\ info[o].view \in Nat
      BY <1>4, Fields DEF ScreensInv, PointersRight, ViewsRight
    <3>2. info'[o].view \in {info[o].view, 0} /\ nextView' = a.next
      BY <1>2, <1>10
    <3> QED BY <1>4, <1>6, <1>7, <3>1, <3>2
  <2> QED BY <1>2, <1>8, <1>9, <2>1 DEF ViewsRight, Numbered
<1>15. ListsRight' /\ ListedRight'
  <2>1. ListsRight'
    BY <1>3, <1>4, <1>9, <1>10, EmptyScreens DEF ScreensInv, PointersRight, ListsRight
  <2>2. ListedRight'
    BY <1>3, <1>4, <1>10 DEF ScreensInv, PointersRight, ListedRight
  <2> QED BY <2>1, <2>2
<1>16. NewRight' /\ PhasesRight'
  BY <1>2, <1>3, <1>9, EmptyScreens DEF ScreensInv, PointersRight, NewRight, PhasesRight, Refreshing
<1>17. SomeScreen' /\ ClientsRight'
  BY <1>2, <1>3, <1>4, <1>6, <1>9, <1>13 DEF ScreensInv, PointersRight, SomeScreen, ClientsRight, ClientsOnScreens
<1>18. PICK shown : shown = {m \in ToSet(layout) : m.outs # <<>> /\ ~OldMarked(a)}
  OBVIOUS
<1>19. InView' = shown
  BY <1>3, <1>8, <1>18 DEF InView, Compat
<1>20. ~ignore => /\ XidsOnce(DOMAIN a.found, a.found)
                  /\ IF shown = {} THEN a.found = <<>> ELSE a.found # <<>> /\ Shows(shown, DOMAIN a.found, a.found)
  BY <1>4, <1>6, <1>18, ScanFinds
<1>21. ScanRight'
  BY <1>3, <1>9, <1>19, <1>20 DEF ScanRight
<1>22. NewOnce'
  <2>1. XidsOnce(DOMAIN a.found, a.found)
    BY <1>6, <1>20 DEF XidsOnce
  <2>2. XidsOnce(Real, info)
    BY <1>2 DEF ScreensInv, PointersRight, PicturesRight, PhasesRight, NewOnce
  <2>3. XidsOnce(Real, info')
    BY <1>4, <1>10, <2>2 DEF XidsOnce, Real
  <2> QED BY <1>9, <1>13, <2>1, <2>3, EmptyScreens DEF NewOnce, XidsOnce, Apart
<1>23. Matching' /\ Settled' /\ RealApart'
  BY <1>9 DEF Matching, Settled, RealApart
<1> QED BY <1>12, <1>14, <1>15, <1>16, <1>17, <1>21, <1>22, <1>23 DEF ScreensInv, PointersRight, PicturesRight

\* the screens that screen_refresh is going to have
Prepares(start, a) ==
    /\ start = [views |-> views, next |-> nextView, found |-> <<>>, last |-> 0, stop |-> FALSE]
    /\ a = IF Deduplicate(run.found) = <<>> THEN ScanX11(start) ELSE [start EXCEPT !.found = Deduplicate(run.found)]

LEMMA PreparedRight ==
    ASSUME ScreensInv, run.pc = "notify", NEW start, NEW a, Prepares(start, a)
    PROVE  /\ a.views \in Seq(View) /\ a.next \in Nat \ {0} /\ a.next >= nextView /\ Numbered(a.views, a.next)
           /\ Ids(views) \subseteq Ids(a.views) /\ a.found \in Seq(Seen)
           /\ \A i \in DOMAIN a.found : a.found[i].view \in Ids(a.views)
           /\ ignore <=> a.found = <<>>
           /\ XidsOnce(DOMAIN a.found, a.found) /\ Apart(DOMAIN a.found, a.found)
           /\ (\E v \in ToSet(a.views) : DefaultOutput \in ToSet(v.outs)) <=> Compat
           /\ ~ignore /\ ~told => Shows(InView, DOMAIN a.found, a.found)
<1>1. PICK l : l = Deduplicate(run.found)
  OBVIOUS
<1>2. /\ ScreensTypes /\ run.found \in Seq(Seen) /\ views \in Seq(View) /\ nextView \in Nat \ {0} /\ ignore \in BOOLEAN
      /\ \A i \in DOMAIN run.found : run.found[i].view \in Ids(views)
      /\ Numbered(views, nextView) /\ XidsOnce(DOMAIN run.found, run.found)
      /\ ignore => run.found = <<>>
      /\ ~ignore /\ ~told => (IF InView = {} THEN run.found = <<>> ELSE Shows(InView, DOMAIN run.found, run.found))
  BY Fields DEF ScreensInv, PointersRight, PicturesRight, ScreensTypes, ViewsRight, Numbered, NewOnce, SomeScreen, ScanRight
<1>3. l \in Seq(Seen) /\ Stems(run.found, l) /\ (l = <<>> <=> run.found = <<>>) /\ Apart(DOMAIN l, l)
  BY <1>1, <1>2, DeduplicateRight
<1>4. start \in Acc /\ start.views = views /\ start.next = nextView /\ start.found = <<>> /\ AccRight(start)
  <2>1. start \in Acc
    BY <1>2, EmptyScreens DEF Acc, Prepares
  <2>2. start.views = views /\ start.next = nextView /\ start.found = <<>>
    BY DEF Prepares
  <2> QED BY <1>2, <2>1, <2>2 DEF AccRight
<1>5. Compat <=> \E i \in DOMAIN views : OldDriver(views, i)
  BY DEF Compat, OldDriver, ToSet
<1>6. InView \subseteq Monitor
  <2>1. LayoutRight
    BY <1>2, LayoutIsRight
  <2>2. \A i \in DOMAIN layout : layout[i] \in Monitor
    BY <2>1 DEF LayoutRight
  <2> QED BY <2>2 DEF InView, ToSet
<1>7. CASE l = <<>>
  <2>1. a = ScanX11(start)
    BY <1>1, <1>7 DEF Prepares
  <2>2. /\ AccRight(a) /\ a.next >= start.next /\ Kept(start, a)
        /\ a.found = (IF ignore THEN start.found ELSE Append(start.found, [xid |-> NoXid, geo |-> Root, view |-> a.last]))
        /\ (\E i \in DOMAIN a.views : OldDriver(a.views, i)) <=> (\E i \in DOMAIN start.views : OldDriver(start.views, i))
    BY <1>2, <1>4, <2>1, ScanX11Right
  <2>3. a.views \in Seq(View) /\ a.next \in Nat \ {0} /\ a.found \in Seq(Seen)
    <3>1. a \in Acc
      BY <2>2 DEF AccRight
    <3> QED BY <3>1 DEF Acc
  <2>4. Numbered(a.views, a.next) /\ \A i \in DOMAIN a.found : a.found[i].view \in Ids(a.views)
    <3>1. \A i \in DOMAIN a.found : \E k \in DOMAIN a.views : a.views[k].id = a.found[i].view
      BY <2>2 DEF AccRight
    <3> QED BY <2>2, <3>1 DEF AccRight, Ids
  <2>5. Ids(views) \subseteq Ids(a.views)
    BY <1>4, <2>2 DEF Kept, Ids
  <2>6. (\E v \in ToSet(a.views) : DefaultOutput \in ToSet(v.outs)) <=> Compat
    BY <1>4, <1>5, <2>2 DEF OldDriver, ToSet
  <2>7. PICK e : e = [xid |-> NoXid, geo |-> Root, view |-> a.last]
    OBVIOUS
  <2>8. IF ignore THEN a.found = <<>> ELSE a.found = <<e>>
    BY <1>4, <2>2, <2>7
  <2>9. XidsOnce(DOMAIN a.found, a.found) /\ Apart(DOMAIN a.found, a.found) /\ (ignore <=> a.found = <<>>)
    <3>1. \A i, j \in DOMAIN a.found : i = j
      <4>1. \A i, j \in DOMAIN <<e>> : i = j
        OBVIOUS
      <4>2. \A i, j \in DOMAIN <<>> : i = j
        OBVIOUS
      <4> QED BY <2>8, <4>1, <4>2
    <3>2. <<e>> # <<>>
      OBVIOUS
    <3> QED BY <1>2, <2>8, <3>1, <3>2 DEF XidsOnce, Apart
  <2>10. ASSUME ~ignore, ~told PROVE Shows(InView, DOMAIN a.found, a.found)
    <3>1. InView = {}
      <4>1. SUFFICES ASSUME InView # {} PROVE FALSE
        OBVIOUS
      <4>2. Shows(InView, DOMAIN run.found, run.found) /\ run.found = <<>>
        BY <1>2, <1>3, <1>7, <2>10, <4>1
      <4> QED BY <4>1, <4>2 DEF Shows
    <3>2. a.found = <<e>> /\ e.xid = NoXid
      BY <2>7, <2>8, <2>10
    <3>3. \A i \in DOMAIN a.found : a.found[i].xid = NoXid
      <4>1. \A i \in DOMAIN <<e>> : <<e>>[i] = e
        OBVIOUS
      <4> QED BY <3>2, <4>1
    <3> QED BY <3>1, <3>3 DEF Shows
  <2> QED BY <1>4, <2>2, <2>3, <2>4, <2>5, <2>6, <2>9, <2>10
<1>8. CASE l # <<>>
  <2>1. a = [start EXCEPT !.found = l]
    BY <1>1, <1>8 DEF Prepares
  <2>2. a.views = views /\ a.next = nextView /\ a.found = l
    BY <1>4, <2>1
  <2>3. \A i \in DOMAIN l : l[i].view \in Ids(views)
    BY <1>2, <1>3 DEF Stems
  <2>4. XidsOnce(DOMAIN l, l)
    BY <1>2, <1>3 DEF Stems
  <2>5. ASSUME ~ignore, ~told PROVE Shows(InView, DOMAIN l, l)
    <3>1. Shows(InView, DOMAIN run.found, run.found)
      BY <1>2, <1>3, <1>8, <2>5
    <3> QED BY <1>2, <1>3, <1>6, <3>1, StemsShow
  <2>6. nextView >= nextView
    BY <1>2
  <2>7. ~ignore
    BY <1>2, <1>3, <1>8
  <2> QED BY <1>2, <1>3, <1>8, <2>2, <2>3, <2>4, <2>5, <2>6, <2>7 DEF Compat
<1> QED BY <1>7, <1>8

LEMMA MadeInvalid ==
    ASSUME NEW s \in Seen
    PROVE  [Object2(s, 1) EXCEPT !.valid = FALSE] =
             [valid |-> FALSE, c |-> TRUE, xid |-> s.xid, geo |-> s.geo, work |-> s.geo, view |-> s.view, refs |-> 1]
<1>1. s.geo \in Area /\ s.xid \in Xid /\ s.view \in Nat
  BY DEF Seen
<1>2. s.geo \in Part
  BY <1>1, AreaInside
<1>3. PICK r, e : r = Object2(s, 1) /\ e = [r EXCEPT !.valid = FALSE]
  OBVIOUS
<1>4. r \in ScreenState /\ r.c = TRUE /\ r.xid = s.xid /\ r.geo = s.geo /\ r.work = s.geo /\ r.view = s.view /\ r.refs = 1
  BY <1>1, <1>2, <1>3 DEF Object2, ScreenState
<1>5. e = [valid |-> FALSE, c |-> TRUE, xid |-> s.xid, geo |-> s.geo, work |-> s.geo, view |-> s.view, refs |-> 1]
  BY <1>3, <1>4 DEF ScreenState
<1> QED BY <1>3, <1>5

\* every screen of l has an object of new
Gives(l, new, isValid, f, others) ==
    /\ f = [o \in Object |-> f[o]]
    /\ \A o \in Object :
         f[o] = IF o \in ToSet(new)
                THEN LET s == l[CHOOSE i \in DOMAIN new : new[i] = o]
                     IN  [valid |-> isValid, c |-> TRUE, xid |-> s.xid, geo |-> s.geo, work |-> s.geo, view |-> s.view, refs |-> 1]
                ELSE others[o]

LEMMA GivenRight ==
    ASSUME NEW l \in Seq(Seen), Room(Len(l)), NEW new, new = Allocated(Len(l)), NEW isValid \in BOOLEAN, NEW others \in [Object -> ScreenState],
           NEW f, Gives(l, new, isValid, f, others)
    PROVE  /\ new \in Seq(Object) /\ ToSet(new) \subseteq Object /\ IsInjective(new) /\ (new = <<>> <=> l = <<>>)
           /\ \A o \in ToSet(new) : info[o].refs = 0
           /\ f \in [Object -> ScreenState] /\ \A o \in Object : o \notin ToSet(new) => f[o] = others[o]
           /\ \A o \in ToSet(new) : /\ f[o].valid = isValid /\ f[o].c /\ f[o].xid # FakeXid /\ f[o].refs = 1
                                    /\ f[o].work = f[o].geo /\ f[o].geo \in Area
                                    /\ \E i \in DOMAIN l : f[o].view = l[i].view
           /\ Filled(l, new, f)
<1>1. Len(l) \in Nat /\ DOMAIN l = 1..Len(l)
  OBVIOUS
<1>2. /\ new \in Seq(Object) /\ Len(new) = Len(l) /\ IsInjective(new) /\ DOMAIN new = DOMAIN l
      /\ \A o \in ToSet(new) : o \in Object /\ info[o].refs = 0
  BY <1>1, AllocatedRight
<1>3. ASSUME NEW o \in ToSet(new)
      PROVE  /\ f[o] \in ScreenState /\ f[o].valid = isValid /\ f[o].c /\ f[o].refs = 1 /\ f[o].work = f[o].geo /\ f[o].geo \in Area
             /\ f[o].xid # FakeXid
             /\ \E i \in DOMAIN l : new[i] = o /\ f[o].view = l[i].view /\ f[o].xid = l[i].xid /\ f[o].geo = l[i].geo
  <2>1. PICK i : i = CHOOSE j \in DOMAIN new : new[j] = o
    OBVIOUS
  <2>2. i \in DOMAIN new /\ new[i] = o
    BY <1>2, <2>1, IndexRight
  <2>3. PICK s : s = l[i]
    OBVIOUS
  <2>4. s \in Seen
    BY <1>2, <2>2, <2>3
  <2>5. s.geo \in Area /\ s.geo \in Part /\ s.xid \in Xid /\ s.xid # FakeXid /\ s.view \in Nat
    <3>1. s.geo \in Area
      BY <2>4 DEF Seen
    <3> QED BY <2>4, <3>1, AreaInside DEF Seen
  <2>6. f[o] = [valid |-> isValid, c |-> TRUE, xid |-> s.xid, geo |-> s.geo, work |-> s.geo, view |-> s.view, refs |-> 1]
    BY <1>2, <2>1, <2>3 DEF Gives
  <2> QED BY <1>2, <2>2, <2>3, <2>5, <2>6 DEF ScreenState
<1>4. \A o \in Object : o \notin ToSet(new) => f[o] = others[o]
  BY DEF Gives
<1>5. f \in [Object -> ScreenState]
  <2>1. \A o \in Object : f[o] \in ScreenState
    BY <1>3, <1>4
  <2> QED BY <2>1 DEF Gives
<1>6. Filled(l, new, f)
  <2>1. ASSUME NEW k \in DOMAIN l PROVE f[new[k]].xid = l[k].xid /\ f[new[k]].geo = l[k].geo
    <3>1. new[k] \in ToSet(new)
      BY <1>2 DEF ToSet
    <3>2. PICK i \in DOMAIN l : new[i] = new[k] /\ f[new[k]].xid = l[i].xid /\ f[new[k]].geo = l[i].geo
      BY <1>3, <3>1
    <3>3. i = k
      BY <1>2, <3>2 DEF IsInjective
    <3> QED BY <3>2, <3>3
  <2> QED BY <1>2, <2>1 DEF Filled
<1>7. new = <<>> <=> l = <<>>
  <2>1. DOMAIN new = {} <=> DOMAIN l = {}
    BY <1>2
  <2> QED BY <1>2, <2>1
<1> QED BY <1>2, <1>3, <1>4, <1>5, <1>6, <1>7

LEMMA ScrRefreshPrepare == ASSUME ScreensInv, RefreshPrepare PROVE ScreensInv'
<1>1. PICK start, a, new : Prepares(start, a) /\ new = Allocated(Len(a.found))
  <2>1. PICK s : s = [views |-> views, next |-> nextView, found |-> <<>>, last |-> 0, stop |-> FALSE]
    OBVIOUS
  <2>2. PICK b : b = IF Deduplicate(run.found) = <<>> THEN ScanX11(s) ELSE [s EXCEPT !.found = Deduplicate(run.found)]
    OBVIOUS
  <2>3. Prepares(s, b)
    BY <2>1, <2>2 DEF Prepares
  <2> QED BY <2>3
<1>2. /\ UNCHANGED <<screens, at, on, strut, primary, ignore, randr, pending, lua, told, layout, changes>>
      /\ run.pc = "notify" /\ Room(Len(a.found)) /\ views' = a.views /\ nextView' = a.next
      /\ run' = [run EXCEPT !.pc = "add", !.found = <<>>, !.new = new, !.left = new]
      /\ info' = [o \in Object |-> IF o \in ToSet(new)
                                   THEN [Object2(a.found[CHOOSE i \in DOMAIN new : new[i] = o], 1) EXCEPT !.valid = FALSE]
                                   ELSE info[o]]
  BY <1>1 DEF RefreshPrepare, Prepares, xserver
<1>3. UNCHANGED <<screens, at, on, strut, primary, ignore, randr, pending, lua, told, layout, changes>> /\ run.pc = "notify"
  BY <1>2
<1>4. /\ a.views \in Seq(View) /\ a.next \in Nat \ {0} /\ a.next >= nextView /\ Numbered(a.views, a.next)
      /\ Ids(views) \subseteq Ids(a.views) /\ a.found \in Seq(Seen)
      /\ \A i \in DOMAIN a.found : a.found[i].view \in Ids(a.views)
      /\ ignore <=> a.found = <<>>
      /\ XidsOnce(DOMAIN a.found, a.found) /\ Apart(DOMAIN a.found, a.found)
      /\ (\E v \in ToSet(a.views) : DefaultOutput \in ToSet(v.outs)) <=> Compat
      /\ ~ignore /\ ~told => Shows(InView, DOMAIN a.found, a.found)
  BY <1>1, <1>3, PreparedRight
<1>5. /\ ScreensTypes /\ screens \in Seq(Object) /\ info \in [Object -> ScreenState] /\ ToSet(screens) \subseteq Object
      /\ run \in [pc : Pc, found : Seq(Seen), new : Seq(Object), left : Seq(Object), gone : Seq(Object)]
      /\ run.new = <<>> /\ run.gone = <<>> /\ nextView \in Nat
  BY <1>3, Fields DEF ScreensInv, PointersRight, ScreensTypes, PhasesRight
<1>6. Gives(a.found, new, FALSE, info', info)
  <2>1. info' = [o \in Object |-> info'[o]]
    BY <1>2
  <2>2. ASSUME NEW o \in ToSet(new) PROVE a.found[CHOOSE i \in DOMAIN new : new[i] = o] \in Seen
    <3>1. PICK l, n : l = a.found /\ n = Len(l)
      OBVIOUS
    <3>2. l \in Seq(Seen) /\ n \in Nat /\ Room(n) /\ new = Allocated(n) /\ DOMAIN l = 1..n
      BY <1>1, <1>2, <1>4, <3>1
    <3>3. new \in Seq(Object) /\ IsInjective(new) /\ DOMAIN new = 1..n
      BY <3>2, AllocatedRight
    <3>4. PICK k : k = CHOOSE i \in DOMAIN new : new[i] = o
      OBVIOUS
    <3>5. k \in DOMAIN new
      BY <3>3, <3>4, IndexRight
    <3>6. l[k] \in Seen
      BY <3>2, <3>3, <3>5
    <3> QED BY <3>1, <3>4, <3>6
  <2> QED BY <1>2, <2>1, <2>2, MadeInvalid DEF Gives
<1>7. Room(Len(a.found)) /\ views' = a.views /\ nextView' = a.next
  BY <1>2
<1>8. /\ new \in Seq(Object) /\ ToSet(new) \subseteq Object /\ IsInjective(new) /\ (new = <<>> <=> a.found = <<>>)
      /\ \A o \in ToSet(new) : info[o].refs = 0
      /\ info' \in [Object -> ScreenState] /\ \A o \in Object : o \notin ToSet(new) => info'[o] = info[o]
      /\ \A o \in ToSet(new) : /\ info'[o].valid = FALSE /\ info'[o].c /\ info'[o].xid # FakeXid /\ info'[o].refs = 1
                               /\ info'[o].work = info'[o].geo /\ info'[o].geo \in Area
                               /\ \E i \in DOMAIN a.found : info'[o].view = a.found[i].view
      /\ Filled(a.found, new, info')
  <2>1. PICK f : f = info'
    OBVIOUS
  <2>2. Gives(a.found, new, FALSE, f, info)
    BY <1>6, <2>1
  <2>3. PICK l : l = a.found
    OBVIOUS
  <2>6. PICK no \in BOOLEAN : no = FALSE
    OBVIOUS
  <2>4. l \in Seq(Seen) /\ Room(Len(l)) /\ new = Allocated(Len(l)) /\ info \in [Object -> ScreenState] /\ Gives(l, new, no, f, info)
    BY <1>1, <1>4, <1>5, <1>7, <2>2, <2>3, <2>6
  <2>5. /\ new \in Seq(Object) /\ ToSet(new) \subseteq Object /\ IsInjective(new) /\ (new = <<>> <=> l = <<>>)
        /\ \A o \in ToSet(new) : info[o].refs = 0
        /\ f \in [Object -> ScreenState] /\ \A o \in Object : o \notin ToSet(new) => f[o] = info[o]
        /\ \A o \in ToSet(new) : /\ f[o].valid = no /\ f[o].c /\ f[o].xid # FakeXid /\ f[o].refs = 1
                                 /\ f[o].work = f[o].geo /\ f[o].geo \in Area
                                 /\ \E i \in DOMAIN l : f[o].view = l[i].view
        /\ Filled(l, new, f)
    BY <2>4, GivenRight
  <2> QED BY <2>1, <2>3, <2>5, <2>6
<1>9. /\ run' \in [pc : Pc, found : Seq(Seen), new : Seq(Object), left : Seq(Object), gone : Seq(Object)]
      /\ run'.pc = "add" /\ run'.new = new /\ run'.left = new /\ run'.gone = <<>> /\ run'.found = <<>>
  BY <1>2, <1>5, <1>8, EmptyScreens DEF Pc
<1>10. \A o \in ToSet(screens) : o \notin ToSet(new) /\ info'[o] = info[o]
  <2>1. ASSUME NEW o \in ToSet(screens) PROVE info[o].refs # 0
    BY <1>5, EmptyScreens DEF ScreensInv, PointersRight, ListsRight
  <2> QED BY <1>5, <1>8, <2>1
<1>11. ScreensTypes'
  BY <1>3, <1>4, <1>5, <1>7, <1>8, <1>9 DEF ScreensTypes
<1>12. Real' = Real /\ InView' = InView
  <2>1. Real' = Real
    BY <1>3, <1>10 DEF Real
  <2>2. Compat' <=> Compat
    BY <1>4, <1>7 DEF Compat
  <2> QED BY <1>3, <2>1, <2>2 DEF InView
<1>13. ViewsRight'
  <2>1. ASSUME NEW o \in Object PROVE info'[o].view < a.next
    <3>1. CASE o \in ToSet(new)
      <4>1. info'[o].view \in Ids(a.views)
        BY <1>4, <1>8, <3>1
      <4>2. \A n \in Ids(a.views) : n < a.next
        BY <1>4 DEF Numbered, Ids
      <4> QED BY <4>1, <4>2
    <3>2. CASE o \notin ToSet(new)
      <4>1. info[o].view < nextView /\ info[o].view \in Nat
        BY <1>5, Fields DEF ScreensInv, PointersRight, ViewsRight
      <4>2. info'[o].view = info[o].view
        BY <1>8, <3>2
      <4> QED BY <1>4, <1>5, <4>1, <4>2
    <3> QED BY <3>1, <3>2
  <2> QED BY <1>4, <1>7, <1>9, <2>1 DEF ViewsRight, Numbered
<1>14. ListsRight'
  <2>1. IsInjective(screens) /\ ToSet(run.new) = {} /\ ToSet(run.gone) = {}
    BY <1>5, EmptyScreens DEF ScreensInv, PointersRight, ListsRight
  <2>2. ASSUME NEW o \in Object
        PROVE  info'[o].refs = (IF o \in ToSet(screens) THEN 1 ELSE 0) + (IF o \in ToSet(new) THEN 1 ELSE 0) + 0
    <3>1. CASE o \in ToSet(new)
      BY <1>8, <1>10, <3>1
    <3>2. CASE o \notin ToSet(new)
      <4>1. info'[o] = info[o]
        BY <1>8, <3>2
      <4>2. info[o].refs = (IF o \in ToSet(screens) THEN 1 ELSE 0)
        BY <2>1 DEF ScreensInv, PointersRight, ListsRight
      <4> QED BY <3>2, <4>1, <4>2
    <3> QED BY <3>1, <3>2
  <2> QED BY <1>3, <1>8, <1>9, <2>1, <2>2, EmptyScreens DEF ListsRight
<1>15. ListedRight' /\ NewRight'
  <2>1. ListedRight'
    BY <1>3, <1>4, <1>7, <1>10 DEF ScreensInv, PointersRight, ListedRight
  <2>2. \A o \in ToSet(new) : info'[o].view \in Ids(a.views) \cup {0}
    BY <1>4, <1>8
  <2> QED BY <1>7, <1>8, <1>9, <2>1, <2>2 DEF NewRight
<1>16. PhasesRight' /\ ClientsRight'
  BY <1>3, <1>5, <1>9 DEF ScreensInv, PointersRight, PhasesRight, Refreshing, ClientsRight, ClientsOnScreens
<1>17. SomeScreen'
  BY <1>3, <1>4, <1>8, <1>9, <1>12 DEF ScreensInv, PointersRight, SomeScreen
<1>18. /\ XidsOnce(ToSet(new), info') /\ Apart(ToSet(new), info')
       /\ ~ignore /\ ~told => Shows(InView, ToSet(new), info')
  <2>1. PICK f, shown : f = info' /\ shown = InView
    OBVIOUS
  <2>2. Filled(a.found, new, f)
    BY <1>8, <2>1
  <2>3. /\ XidsOnce(ToSet(new), f) /\ Apart(ToSet(new), f)
        /\ Shows(shown, DOMAIN a.found, a.found) => Shows(shown, ToSet(new), f)
    BY <1>4, <1>8, <2>2, PlacedRight
  <2> QED BY <1>4, <2>1, <2>3
<1>19. ScanRight'
  BY <1>3, <1>9, <1>12, <1>18 DEF ScanRight
<1>20. NewOnce'
  <2>1. randr => XidsOnce(Real, info')
    BY <1>10 DEF ScreensInv, PicturesRight, NewOnce, XidsOnce, Real
  <2>2. XidsOnce(DOMAIN <<>>, <<>>)
    BY DEF XidsOnce
  <2> QED BY <1>3, <1>9, <1>12, <1>18, <2>1, <2>2 DEF NewOnce
<1>21. Matching' /\ Settled' /\ RealApart'
  BY <1>9 DEF Matching, Settled, RealApart
<1> QED BY <1>11, <1>13, <1>14, <1>15, <1>16, <1>17, <1>19, <1>20, <1>21 DEF ScreensInv, PointersRight, PicturesRight

\* screen_scan tries one way after the other
Boots(hasRandr, hasXinerama, r, x, a) ==
    /\ r = IF hasRandr THEN ScanRandr(StartScan(views)) ELSE StartScan(views)
    /\ x = IF r.found = <<>> /\ hasXinerama THEN ScanXinerama(r) ELSE r
    /\ a = IF x.found = <<>> THEN ScanX11(x) ELSE x

LEMMA BootedRight ==
    ASSUME views \in Seq(View), nextView \in Nat \ {0}, Numbered(views, nextView), LayoutRight, ignore \in BOOLEAN,
           NEW hasRandr \in BOOLEAN, NEW hasXinerama \in BOOLEAN, NEW r, NEW x, NEW a, Boots(hasRandr, hasXinerama, r, x, a)
    PROVE  /\ AccRight(a) /\ a.next \in Nat \ {0} /\ a.found \in Seq(Seen)
           /\ ignore <=> a.found = <<>>
           /\ hasRandr /\ ~ignore /\ r.found # <<>> => a = r /\ ScanShows(a, Len(layout))
<1>1. PICK s : s = StartScan(views)
  OBVIOUS
<1>2. AccRight(s) /\ s.found = <<>> /\ ScanShows(s, 0)
  BY <1>1, StartRight
<1>3. AccRight(r) /\ (ignore => r.found = <<>>) /\ (hasRandr /\ ~ignore => ScanShows(r, Len(layout)))
  <2>1. CASE hasRandr
    <3>1. r = ScanMonitors(s, TRUE)
      BY <1>1, <2>1 DEF Boots, ScanRandr
    <3> QED BY <1>2, <3>1, ScanMonitorsRight
  <2>2. CASE ~hasRandr
    <3>1. r = s
      BY <1>1, <2>2 DEF Boots
    <3> QED BY <1>2, <2>2, <3>1
  <2> QED BY <2>1, <2>2
<1>4. AccRight(x) /\ (ignore => x.found = <<>>) /\ (r.found # <<>> => x = r)
  <2>1. CASE r.found = <<>> /\ hasXinerama
    <3>1. x = ScanMonitors(r, FALSE)
      BY <2>1 DEF Boots, ScanXinerama
    <3> QED BY <1>3, <2>1, <3>1, ScanMonitorsRight
  <2>2. CASE ~(r.found = <<>> /\ hasXinerama)
    <3>1. x = r
      BY <2>2 DEF Boots
    <3> QED BY <1>3, <3>1
  <2> QED BY <2>1, <2>2
<1>5. AccRight(a) /\ (ignore <=> a.found = <<>>) /\ (x.found # <<>> => a = x)
  <2>1. CASE x.found = <<>>
    <3>1. a = ScanX11(x)
      BY <2>1 DEF Boots
    <3>2. PICK e : e = [xid |-> NoXid, geo |-> Root, view |-> a.last]
      OBVIOUS
    <3>3. AccRight(a) /\ a.found = (IF ignore THEN x.found ELSE Append(x.found, e))
      BY <1>4, <3>1, <3>2, ScanX11Right
    <3>4. Append(<<>>, e) # <<>>
      OBVIOUS
    <3> QED BY <2>1, <3>3, <3>4
  <2>2. CASE x.found # <<>>
    <3>1. a = x
      BY <2>2 DEF Boots
    <3> QED BY <1>4, <2>2, <3>1
  <2> QED BY <2>1, <2>2
<1>6. a.next \in Nat \ {0} /\ a.found \in Seq(Seen)
  <2>1. a \in Acc
    BY <1>5 DEF AccRight
  <2> QED BY <2>1 DEF Acc
<1> QED BY <1>3, <1>4, <1>5, <1>6

LEMMA ScrBoot ==
    ASSUME ScreensInv, NEW hasRandr \in BOOLEAN, NEW hasXinerama \in BOOLEAN, Boot(hasRandr, hasXinerama)
    PROVE  ScreensInv'
<1> DEFINE none == StartScan(views)
           r == IF hasRandr THEN ScanRandr(none) ELSE none
           x == IF r.found = <<>> /\ hasXinerama THEN ScanXinerama(r) ELSE r
           a == IF x.found = <<>> THEN ScanX11(x) ELSE x
           l == Deduplicate(a.found)
           new == Allocated(Len(l))
           f == [o \in Object |-> IF o \in ToSet(new) THEN Object2(l[CHOOSE i \in DOMAIN l : new[i] = o], 1) ELSE Dead]
<1>3. /\ UNCHANGED <<at, strut, ignore, pending, told, layout, changes>> /\ run.pc = "boot" /\ run' = Idle /\ lua' = MaxLua
      /\ Room(Len(l)) /\ randr' = (hasRandr /\ (r.found # <<>> \/ ignore))
      /\ screens' = new /\ views' = Purged(a.views) /\ nextView' = a.next
      /\ info' = f
      /\ primary' = UpdatePrimary(new, f, views', NoScreen)
      /\ on' = [c \in Client |-> ByCoord(new, f, at[c])]
  <2>1. UNCHANGED <<at, strut, ignore, pending, told, layout, changes>> /\ run.pc = "boot" /\ run' = Idle /\ lua' = MaxLua
    BY DEF Boot, xserver
  <2>2. /\ Room(Len(l)) /\ randr' = (hasRandr /\ (r.found # <<>> \/ ignore))
        /\ screens' = new /\ views' = Purged(a.views) /\ nextView' = a.next
        /\ info' = f
        /\ primary' = UpdatePrimary(new, f, views', NoScreen)
        /\ on' = [c \in Client |-> ByCoord(new, f, at[c])]
    BY Zenon DEF Boot
  <2> HIDE DEF none, r, x, a, l, new, f
  <2> QED BY <2>1, <2>2
<1>1. Boots(hasRandr, hasXinerama, r, x, a)
  BY DEF Boots
<1>2. l = Deduplicate(a.found) /\ new = Allocated(Len(l))
  OBVIOUS
<1> HIDE DEF none, r, x, a, l, new
<1>4. UNCHANGED <<at, strut, ignore, pending, told, layout, changes>> /\ run.pc = "boot" /\ screens' = new /\ nextView' = a.next
  BY <1>3
<1>5. /\ ScreensTypes /\ views \in Seq(View) /\ nextView \in Nat \ {0} /\ ignore \in BOOLEAN /\ at \in [Client -> Area]
      /\ Numbered(views, nextView) /\ LayoutRight /\ MaxLua \in Nat /\ ~pending
  BY <1>4, ScreensAssumption, LayoutIsRight DEF ScreensInv, PointersRight, ScreensTypes, ViewsRight, Numbered, PhasesRight
<1>6. /\ AccRight(a) /\ a.next \in Nat \ {0} /\ a.found \in Seq(Seen)
      /\ ignore <=> a.found = <<>>
      /\ hasRandr /\ ~ignore /\ r.found # <<>> => a = r /\ ScanShows(a, Len(layout))
  BY <1>1, <1>5, BootedRight
<1>7. l \in Seq(Seen) /\ Stems(a.found, l) /\ (l = <<>> <=> ignore) /\ Apart(DOMAIN l, l)
  BY <1>2, <1>6, DeduplicateRight
<1>8. /\ views' \in Seq(View) /\ Numbered(views', a.next)
      /\ \A i \in DOMAIN a.found : a.found[i].view \in Ids(views')
      /\ (\E v \in ToSet(views') : DefaultOutput \in ToSet(v.outs)) <=> OldMarked(a)
  <2>1. PICK vs : vs = Purged(a.views)
    OBVIOUS
  <2>2. views' = vs
    BY <1>3, <2>1
  <2> QED BY <1>6, <2>1, <2>2, PurgedRight
<1>9. PICK others, yes : others = [o \in Object |-> Dead] /\ yes \in BOOLEAN /\ yes = TRUE
  <2>1. PICK d : d = [o \in Object |-> Dead]
    OBVIOUS
  <2>2. TRUE \in BOOLEAN
    OBVIOUS
  <2> QED BY <2>1, <2>2
<1>10. others \in [Object -> ScreenState]
  BY <1>9, DeadRight
<1>11. Gives(l, new, yes, info', others)
  <2>1. info' = [o \in Object |-> info'[o]]
    BY <1>3
  <2>2. DOMAIN l = DOMAIN new
    <3>1. PICK n : n = Len(l)
      OBVIOUS
    <3>2. n \in Nat /\ Room(n) /\ new = Allocated(n) /\ DOMAIN l = 1..n
      BY <1>2, <1>3, <1>7, <3>1
    <3> QED BY <3>2, AllocatedRight
  <2>3. ASSUME NEW s
        PROVE  Object2(s, 1) = [valid |-> yes, c |-> TRUE, xid |-> s.xid, geo |-> s.geo, work |-> s.geo, view |-> s.view, refs |-> 1]
    BY <1>9 DEF Object2
  <2> QED BY <1>3, <1>9, <2>1, <2>2, <2>3 DEF Gives
<1>12. /\ new \in Seq(Object) /\ ToSet(new) \subseteq Object /\ IsInjective(new) /\ (new = <<>> <=> l = <<>>)
       /\ info' \in [Object -> ScreenState] /\ \A o \in Object : o \notin ToSet(new) => info'[o] = Dead
       /\ \A o \in ToSet(new) : /\ info'[o].valid /\ info'[o].c /\ info'[o].xid # FakeXid /\ info'[o].refs = 1
                                /\ info'[o].work = info'[o].geo /\ info'[o].geo \in Area
                                /\ \E i \in DOMAIN l : info'[o].view = l[i].view
       /\ Filled(l, new, info')
  <2>1. PICK g : g = info'
    OBVIOUS
  <2>2. Room(Len(l)) /\ Gives(l, new, yes, g, others)
    BY <1>3, <1>11, <2>1
  <2>3. /\ new \in Seq(Object) /\ ToSet(new) \subseteq Object /\ IsInjective(new) /\ (new = <<>> <=> l = <<>>)
        /\ g \in [Object -> ScreenState] /\ \A o \in Object : o \notin ToSet(new) => g[o] = others[o]
        /\ \A o \in ToSet(new) : /\ g[o].valid = yes /\ g[o].c /\ g[o].xid # FakeXid /\ g[o].refs = 1
                                 /\ g[o].work = g[o].geo /\ g[o].geo \in Area
                                 /\ \E i \in DOMAIN l : g[o].view = l[i].view
        /\ Filled(l, new, g)
    <3>1. l \in Seq(Seen) /\ Room(Len(l)) /\ new = Allocated(Len(l)) /\ yes \in BOOLEAN /\ others \in [Object -> ScreenState]
      BY <1>2, <1>7, <1>9, <1>10, <2>2
    <3>2. Gives(l, new, yes, g, others)
      BY <2>2
    <3> QED BY <3>1, <3>2, GivenRight
  <2> QED BY <1>9, <2>1, <2>3
<1>13. /\ run' \in [pc : Pc, found : Seq(Seen), new : Seq(Object), left : Seq(Object), gone : Seq(Object)]
       /\ run'.pc = "idle" /\ run'.new = <<>> /\ run'.left = <<>> /\ run'.gone = <<>> /\ run'.found = <<>>
  BY <1>3, EmptyScreens DEF Idle, Pc
<1>14. \A o \in ToSet(new) : info'[o].view \in Ids(views')
  <2>1. \A i \in DOMAIN l : l[i].view \in Ids(views')
    BY <1>7, <1>8 DEF Stems
  <2> QED BY <1>12, <2>1
<1>15. /\ on' \in [Client -> Object \cup {NoScreen}]
       /\ \A c \in Client : IF new = <<>> THEN on'[c] = NoScreen ELSE on'[c] \in ToSet(new)
  <2>1. PICK g : g = info'
    OBVIOUS
  <2>2. ASSUME NEW c \in Client
        PROVE  IF new = <<>> THEN ByCoord(new, g, at[c]) = NoScreen ELSE ByCoord(new, g, at[c]) \in ToSet(new)
    <3>1. new \in Seq(Object) /\ g \in [Object -> ScreenState] /\ at[c] \in Area
      BY <1>5, <1>12, <2>1
    <3> QED BY <3>1, ByCoordRight
  <2>3. on' = [c \in Client |-> ByCoord(new, g, at[c])]
    BY <1>3, <2>1
  <2> QED BY <1>12, <2>2, <2>3
<1>16. primary' \in ToSet(new) \cup {NoScreen}
  <2>1. PICK g, vs : g = info' /\ vs = views'
    OBVIOUS
  <2>2. primary' = UpdatePrimary(new, g, vs, NoScreen)
    BY <1>3, <2>1
  <2> QED BY <1>12, <2>2, PrimaryRight
<1>17. ScreensTypes'
  <2>1. randr' \in BOOLEAN
    BY <1>3, <1>5
  <2>2. lua' \in 0..MaxLua
    <3>1. MaxLua \in 0..MaxLua
      BY <1>5
    <3> QED BY <1>3, <3>1
  <2> QED BY <1>4, <1>5, <1>6, <1>8, <1>12, <1>13, <1>15, <1>16, <2>1, <2>2 DEF ScreensTypes
<1>18. ViewsRight'
  <2>1. ASSUME NEW o \in Object PROVE info'[o].view < a.next
    <3>1. CASE o \in ToSet(new)
      <4>1. \A n \in Ids(views') : n < a.next
        BY <1>8 DEF Numbered, Ids
      <4> QED BY <1>14, <3>1, <4>1
    <3>2. CASE o \notin ToSet(new)
      <4>1. info'[o].view = 0
        BY <1>12, <3>2, DeadRight
      <4>2. 0 < a.next
        BY <1>6
      <4> QED BY <4>1, <4>2
    <3> QED BY <3>1, <3>2
  <2> QED BY <1>4, <1>8, <1>13, <2>1 DEF ViewsRight, Numbered
<1>19. ListsRight'
  <2>1. ASSUME NEW o \in Object PROVE info'[o].refs = (IF o \in ToSet(new) THEN 1 ELSE 0)
    BY <1>12, DeadRight
  <2> QED BY <1>4, <1>12, <1>13, <2>1, EmptyScreens DEF ListsRight
<1>20. Real' = ToSet(new)
  BY <1>4, <1>12 DEF Real
<1>21. ListedRight' /\ NewRight'
  <2>1. \A o \in ToSet(new) : Within(info'[o].work, info'[o].geo)
    BY <1>12, AreaInside
  <2>2. ListedRight'
    BY <1>4, <1>12, <1>14, <2>1 DEF ListedRight
  <2> QED BY <1>13, <2>2, EmptyScreens DEF NewRight
<1>22. PhasesRight' /\ SomeScreen' /\ ClientsRight'
  <2>1. PhasesRight'
    BY <1>4, <1>5, <1>13 DEF PhasesRight, Refreshing
  <2>2. new = <<>> <=> ToSet(new) = {}
    BY <1>12, NoScreens, EmptyScreens
  <2>3. SomeScreen'
    BY <1>4, <1>7, <1>12, <1>13, <1>20, <2>2 DEF SomeScreen
  <2>4. NoScreen \notin ToSet(new)
    BY <1>12 DEF NoScreen, Object
  <2>5. ClientsRight'
    BY <1>4, <1>13, <1>15, <1>16, <2>4, EmptyScreens DEF ClientsRight, ClientsOnScreens
  <2> QED BY <2>1, <2>3, <2>5
<1>23. ScanRight' /\ Matching'
  BY <1>13 DEF ScanRight, Matching
\* what the monitors have become
<1>24. PICK shown : shown = {m \in ToSet(layout) : m.outs # <<>> /\ ~OldMarked(a)}
  OBVIOUS
<1>25. InView' = shown
  BY <1>4, <1>8, <1>24 DEF InView, Compat
<1>26. randr' /\ ~ignore => XidsOnce(DOMAIN l, l) /\ Shows(shown, DOMAIN l, l)
  <2>1. SUFFICES ASSUME hasRandr, r.found # <<>>, ~ignore PROVE XidsOnce(DOMAIN l, l) /\ Shows(shown, DOMAIN l, l)
    BY <1>3
  <2>2. a = r /\ ScanShows(a, Len(layout))
    BY <1>6, <2>1
  <2>3. XidsOnce(DOMAIN a.found, a.found) /\ Shows(shown, DOMAIN a.found, a.found)
    BY <1>5, <1>6, <1>24, <2>1, <2>2, ScanFinds
  <2>4. shown \subseteq Monitor
    <3>1. \A i \in DOMAIN layout : layout[i] \in Monitor
      BY <1>5 DEF LayoutRight
    <3> QED BY <1>24, <3>1 DEF ToSet
  <2> QED BY <1>6, <1>7, <2>3, <2>4, StemsShow DEF Stems
<1>27. /\ randr' /\ ~ignore => XidsOnce(ToSet(new), info') /\ Shows(shown, ToSet(new), info')
       /\ Apart(ToSet(new), info')
  <2>1. PICK g : g = info'
    OBVIOUS
  <2>2. Filled(l, new, g)
    BY <1>12, <2>1
  <2>3. /\ XidsOnce(DOMAIN l, l) => XidsOnce(ToSet(new), g)
        /\ Apart(ToSet(new), g)
        /\ Shows(shown, DOMAIN l, l) => Shows(shown, ToSet(new), g)
    BY <1>7, <1>12, <2>2, PlacedRight
  <2> QED BY <1>26, <2>1, <2>3
<1>28. NewOnce'
  <2>1. ignore => ToSet(new) = {}
    BY <1>7, <1>12, EmptyScreens
  <2>2. randr' => XidsOnce(ToSet(new), info')
    BY <1>27, <2>1 DEF XidsOnce
  <2> QED BY <1>13, <1>20, <2>2, EmptyScreens DEF NewOnce, XidsOnce, Apart
<1>29. Settled' /\ RealApart'
  <2>1. ~ignore => ToSet(new) # {}
    BY <1>7, <1>12, NoScreens
  <2> QED BY <1>4, <1>20, <1>25, <1>27, <2>1 DEF Settled, RealApart
<1> QED BY <1>17, <1>18, <1>19, <1>21, <1>22, <1>23, <1>28, <1>29 DEF ScreensInv, PointersRight, PicturesRight

LEMMA ScrStart == ASSUME Init PROVE ScreensInv
<1>1. /\ screens = <<>> /\ info = [o \in Object |-> Dead] /\ views = <<>> /\ nextView = 1 /\ at \in [Client -> Places]
      /\ on = [c \in Client |-> NoScreen] /\ strut = [c \in Client |-> 0] /\ primary = NoScreen /\ ignore \in BOOLEAN
      /\ randr = FALSE /\ pending = FALSE /\ lua = 0 /\ layout \in Layouts /\ told = FALSE /\ changes = 0
      /\ run.pc = "boot" /\ run.found = <<>> /\ run.new = <<>> /\ run.left = <<>> /\ run.gone = <<>>
      /\ run = [pc |-> "boot", found |-> <<>>, new |-> <<>>, left |-> <<>>, gone |-> <<>>]
  BY DEF Init, Idle
<1>2. ScreensTypes
  <2>1. at \in [Client -> Area]
    BY <1>1, ScreensAssumption
  <2>2. info \in [Object -> ScreenState]
    BY <1>1, DeadRight
  <2>3. lua \in 0..MaxLua
    <3>1. 0 \in 0..MaxLua
      BY ScreensAssumption
    <3> QED BY <1>1, <3>1
  <2>4. run \in [pc : Pc, found : Seq(Seen), new : Seq(Object), left : Seq(Object), gone : Seq(Object)]
    BY <1>1, EmptyScreens DEF Pc
  <2>5. strut \in [Client -> 0..1] /\ nextView \in Nat \ {0} /\ changes \in Nat
    BY <1>1
  <2> QED BY <1>1, <2>1, <2>2, <2>3, <2>4, <2>5, EmptyScreens DEF ScreensTypes
<1>3. \A o \in Object : info[o].view = 0 /\ info[o].refs = 0
  BY <1>1, DeadRight
<1>4. Real = {}
  BY <1>1, EmptyScreens DEF Real
<1>5. ViewsRight /\ ListsRight
  BY <1>1, <1>3, EmptyScreens DEF ViewsRight, ListsRight
<1>6. ListedRight /\ NewRight /\ PhasesRight /\ SomeScreen /\ ClientsRight
  BY <1>1, <1>4, EmptyScreens DEF ListedRight, NewRight, PhasesRight, Refreshing, SomeScreen, ClientsRight
<1>7. ScanRight /\ Matching /\ Settled /\ RealApart
  BY <1>1 DEF ScanRight, Matching, Settled, RealApart
<1>8. NewOnce
  BY <1>1, <1>4, EmptyScreens DEF NewOnce, XidsOnce, Apart
<1> QED BY <1>2, <1>5, <1>6, <1>7, <1>8 DEF ScreensInv, PointersRight, PicturesRight

LEMMA ScrStutter == ASSUME ScreensInv, UNCHANGED vars PROVE ScreensInv'
<1>1. /\ UNCHANGED <<screens, info, views, nextView, ignore, randr, pending, run, told, layout>>
      /\ UNCHANGED <<at, on, strut, primary, lua, changes>>
  BY DEF vars
<1>2. ScreensTypes'
  BY <1>1 DEF ScreensInv, PointersRight, ScreensTypes
<1>3. ClientsRight'
  BY <1>1 DEF ScreensInv, PointersRight, ClientsRight, ClientsOnScreens
<1> QED BY <1>1, <1>2, <1>3, ScreensKept DEF ScreensInv, PointersRight

LEMMA ScrStep == ASSUME ScreensInv, [Next]_vars PROVE ScreensInv'
<1>1. CASE UNCHANGED vars
  BY <1>1, ScrStutter
<1>2. CASE \E l \in Layouts, m \in Output : Plug(l, m)
  BY <1>2, ScrPlug
<1>3. CASE \E r \in BOOLEAN, x \in BOOLEAN : Boot(r, x)
  BY <1>3, ScrBoot
<1>4. CASE RandrEvent
  BY <1>4, ScrRandrEvent
<1>5. CASE RefreshScan
  BY <1>5, ScrRefreshScan
<1>6. CASE RefreshPrepare
  BY <1>6, ScrRefreshPrepare
<1>7. CASE RefreshAdd
  BY <1>7, ScrRefreshAdd
<1>8. CASE RefreshCollect
  BY <1>8, ScrRefreshCollect
<1>9. CASE RefreshRemove
  BY <1>9, ScrRefreshRemove
<1>10. CASE RefreshRemoved
  BY <1>10, ScrRefreshRemoved
<1>11. CASE RefreshModify
  BY <1>11, ScrRefreshModify
<1>12. CASE RefreshEnd
  BY <1>12, ScrRefreshEnd
<1>13. CASE \E g \in Places : FakeAdd(g)
  BY <1>13, ScrFakeAdd
<1>14. CASE \E o \in Object : FakeRemove(o) \/ \E g \in Places : FakeResize(o, g)
  BY <1>14, ScrFakeRemove, ScrFakeResize
<1>15. CASE ReadPrimary
  BY <1>15, ScrReadPrimary
<1>16. CASE \E i, j \in Object : SwapScreens(i, j)
  BY <1>16, ScrSwap
<1>17. CASE \E c \in Client : \/ \E g \in Places : MoveClient(c, g)
                              \/ \E o \in Object : SetScreen(c, o)
                              \/ \E n \in 0..1 : SetStrut(c, n)
  BY <1>17, ScrMoveClient, ScrSetScreen, ScrSetStrut
<1> QED BY <1>1, <1>2, <1>3, <1>4, <1>5, <1>6, <1>7, <1>8, <1>9, <1>10, <1>11, <1>12, <1>13, <1>14, <1>15, <1>16, <1>17 DEF Next

\* how many of three places there are
LEMMA ThreePlaces ==
    ASSUME NEW T \in SUBSET {1, 2, 3}
    PROVE  Cardinality(T) = (IF 1 \in T THEN 1 ELSE 0) + (IF 2 \in T THEN 1 ELSE 0) + (IF 3 \in T THEN 1 ELSE 0)
<1> DEFINE S1 == T \cap {1}
           S2 == T \cap {1, 2}
<1>1. IsFiniteSet(S1) /\ Cardinality(S1) = (IF 1 \in T THEN 1 ELSE 0)
  <2>1. IsFiniteSet({}) /\ Cardinality({}) = 0
    BY FS_EmptySet
  <2>2. IsFiniteSet({} \cup {1}) /\ Cardinality({} \cup {1}) = 1
    BY <2>1, FS_AddElement
  <2>3. CASE 1 \in T
    <3>1. S1 = {} \cup {1}
      BY <2>3
    <3> QED BY <2>2, <2>3, <3>1
  <2>4. CASE 1 \notin T
    <3>1. S1 = {}
      BY <2>4
    <3> QED BY <2>1, <2>4, <3>1
  <2> QED BY <2>3, <2>4
<1>2. IsFiniteSet(S2) /\ Cardinality(S2) = (IF 1 \in T THEN 1 ELSE 0) + (IF 2 \in T THEN 1 ELSE 0)
  <2>1. CASE 2 \in T
    <3>1. S2 = S1 \cup {2} /\ 2 \notin S1
      BY <2>1
    <3> HIDE DEF S1, S2
    <3>2. IsFiniteSet(S1 \cup {2}) /\ Cardinality(S1 \cup {2}) = Cardinality(S1) + 1
      BY <1>1, <3>1, FS_AddElement
    <3> QED BY <1>1, <2>1, <3>1, <3>2
  <2>2. CASE 2 \notin T
    <3>1. S2 = S1
      BY <2>2
    <3> HIDE DEF S1, S2
    <3> QED BY <1>1, <2>2, <3>1
  <2> QED BY <2>1, <2>2
<1>3. CASE 3 \in T
  <2>1. T = S2 \cup {3} /\ 3 \notin S2
    <3>1. \A e \in T : e = 1 \/ e = 2 \/ e = 3
      OBVIOUS
    <3>2. 3 \notin S2
      OBVIOUS
    <3>3. \A e : e \in T <=> e \in S2 \/ e = 3
      BY <1>3, <3>1
    <3> HIDE DEF S2
    <3> QED BY <3>2, <3>3
  <2> HIDE DEF S1, S2
  <2>2. Cardinality(S2 \cup {3}) = Cardinality(S2) + 1
    BY <1>2, <2>1, FS_AddElement
  <2> QED BY <1>2, <1>3, <2>1, <2>2
<1>4. CASE 3 \notin T
  <2>1. T = S2
    BY <1>4
  <2> HIDE DEF S1, S2
  <2> QED BY <1>2, <1>4, <2>1
<1> QED BY <1>3, <1>4

LEMMA ScreensShown == ASSUME ScreensInv PROVE ScreensFollowMonitors
<1>1. SUFFICES ASSUME run.pc = "idle", ~pending, ~told, randr, ~ignore
               PROVE  /\ \A m \in InView : \E o \in Real : Within(m.area, info[o].geo)
                      /\ Real # {}
                      /\ {info[o].xid : o \in Real} \subseteq (IF InView = {} THEN {NoXid} ELSE {m.xid : m \in InView})
                      /\ \A o, p \in Real : o # p => <<info[o].geo.x, info[o].geo.y>> # <<info[p].geo.x, info[p].geo.y>>
  BY DEF ScreensFollowMonitors, InView, Compat, Real
<1>2. Shows(InView, Real, info) /\ Real # {} /\ Apart(Real, info)
  BY <1>1 DEF ScreensInv, PicturesRight, Settled, RealApart
<1> QED BY <1>2 DEF Shows, Apart

LEMMA ScreensHold == ASSUME ScreensInv PROVE ScreensConsistent
<1> USE DEF ScreensInv, PointersRight
<1>1. TypeOK
  <2>1. Area \subseteq [x : Int, y : Int, w : Nat, h : Nat]
    BY DEF Area
  <2>2. at \in [Client -> [x : Int, y : Int, w : Nat, h : Nat]]
    BY <2>1 DEF ScreensTypes
  <2>3. \A o \in Object : info[o].refs \in 0..2 /\ info[o].valid \in BOOLEAN /\ info[o].view < nextView
    BY Fields DEF ViewsRight
  <2>4. run.pc \in {"boot", "idle", "notify", "add", "remove", "modify"}
    BY Fields DEF Pc
  <2>5. /\ screens \in Seq(Object) /\ primary \in Object \cup {NoScreen} /\ on \in [Client -> Object \cup {NoScreen}]
        /\ ignore \in BOOLEAN /\ randr \in BOOLEAN /\ pending \in BOOLEAN /\ told \in BOOLEAN /\ lua \in 0..MaxLua
    BY DEF ScreensTypes
  <2> QED BY <2>2, <2>3, <2>4, <2>5 DEF TypeOK
<1>2. NothingDangles
  <2>1. ASSUME NEW o \in Object
        PROVE  info[o].refs = Cardinality({l \in {1, 2, 3} :
                 o \in ToSet(CASE l = 1 -> screens [] l = 2 -> run.new [] l = 3 -> run.gone)})
    <3> DEFINE T == {l \in {1, 2, 3} : o \in ToSet(CASE l = 1 -> screens [] l = 2 -> run.new [] l = 3 -> run.gone)}
    <3>1. (1 \in T <=> o \in ToSet(screens)) /\ (2 \in T <=> o \in ToSet(run.new)) /\ (3 \in T <=> o \in ToSet(run.gone))
      OBVIOUS
    <3>2. T \in SUBSET {1, 2, 3}
      OBVIOUS
    <3> HIDE DEF T
    <3>3. Cardinality(T) = (IF 1 \in T THEN 1 ELSE 0) + (IF 2 \in T THEN 1 ELSE 0) + (IF 3 \in T THEN 1 ELSE 0)
      BY <3>2, ThreePlaces
    <3>4. info[o].refs = (IF o \in ToSet(screens) THEN 1 ELSE 0) + (IF o \in ToSet(run.new) THEN 1 ELSE 0)
                           + (IF o \in ToSet(run.gone) THEN 1 ELSE 0)
      BY DEF ListsRight
    <3>5. info[o].refs = Cardinality(T)
      BY <3>1, <3>3, <3>4
    <3> QED BY <3>5 DEF T
  <2> QED BY <2>1 DEF NothingDangles, ClientsRight, ListedRight
<1>3. ClientsOnScreens
  BY DEF ClientsRight, PhasesRight, ClientsOnScreens
<1>4. WorkareaInside
  BY DEF ListedRight, WorkareaInside
<1> QED BY <1>1, <1>2, <1>3, <1>4 DEF ScreensConsistent

LEMMA ScreensKeep == Spec => []ScreensInv
BY ScrStart, ScrStep, PTL DEF Spec

\* Nothing refers to a screen that is gone, every client is on a screen while
\* there is one, and work areas are inside their screens: for any monitors, any
\* number of screens and clients, and whatever Lua does between the loops of
\* screen_refresh (screen_refresh, screen_removed, viewport_purge).
THEOREM ScreensSafe == Spec => []ScreensConsistent
BY ScreensKeep, ScreensHold, PTL

\* When no refresh is due, the screens are those of the monitors: every monitor
\* with an output lies in one, none is left of a monitor that went away, and no
\* two are at one place (screen_refresh, screen_deduplicate, screen_modified).
THEOREM ScreensFollow == Spec => []ScreensFollowMonitors
BY ScreensKeep, ScreensShown, PTL

=============================================================================
