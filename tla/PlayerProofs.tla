----------------------------- MODULE PlayerProofs -----------------------------
(***************************************************************************)
(* The safety of the player and of the audio key, for any number of jobs,  *)
(* stems, openings and clicks, and tracks of any length.                   *)
(***************************************************************************)
EXTENDS ConsoleAudio, TLAPS

LoadRecord == [job : Job \cup {NoJob}, key : BOOLEAN, pending : BOOLEAN]

\* The type invariant in the parts that actions change together.
FieldsTyped ==
  /\ service \in Service /\ jobId \in Job \cup {NoJob}
  /\ loading \in BOOLEAN /\ playing \in BOOLEAN /\ timer \in BOOLEAN

ClockTyped ==
  /\ duration \in {0, Duration} /\ position \in -1..Duration
  /\ from \in 0..Duration /\ elapsed \in -1..(Duration + 1)
  /\ clicks \in 0..MaxClicks

OpeningsTyped ==
  /\ error \in Opening \cup {0} /\ tracks \in Opening \cup {0}
  /\ ctx \in Opening \cup {0} /\ sources \in Opening \cup {0}
  /\ opened \in Opening \cup {0}
  /\ loads \in [Opening -> LoadRecord]

MixerTyped ==
  /\ muted \subseteq Stem /\ volume \in [Stem -> Loud]
  /\ gain \in [Opening -> [Stem -> Loud \cup {0}]]

Typed == FieldsTyped /\ ClockTyped /\ OpeningsTyped /\ MixerTyped

\* Tracks are there once the opening they are of has settled.
TracksInPlace ==
  /\ tracks # 0 => /\ loads[tracks].job = jobId /\ ~loads[tracks].pending
                   /\ duration = Duration
  /\ tracks = 0 => duration = 0 /\ position = 0 /\ ~playing

\* What plays was decoded in the context that is current, which is that of the
\* last opening, so an opening that is still pending and puts its tracks in the
\* place of those that play is an earlier one.
PlayingInPlace ==
  /\ ctx # 0 => loads[ctx].job = jobId /\ ctx = opened
  /\ playing => ctx # 0 /\ ~loads[ctx].pending /\ position >= 0
  /\ position <= duration
  /\ tracks <= opened
  /\ \A n \in Opening : loads[n].pending => n <= opened

\* The tracks that are shown have their GainNodes as their controls show them,
\* and those of an opening still pending, or still to come, are untouched.
MixerInPlace ==
  /\ tracks # 0 => \A s \in Stem : gain[tracks][s] = Shown(s)
  /\ \A n \in Opening : loads[n].pending \/ n > opened =>
       \A s \in Stem : gain[n][s] = 1

\* There is sound only while the player says it plays, in its own context; and
\* then there is, unless the tracks are of an earlier one.
SoundInPlace ==
  /\ sources # 0 => playing /\ sources = ctx
  /\ playing /\ tracks = ctx => sources # 0

\* The inductive invariant of the player.
PlayerInvariant ==
  /\ Typed
  /\ TracksInPlace /\ PlayingInPlace /\ MixerInPlace /\ SoundInPlace

\* A pause is between two requests of an asking, the first asking has begun,
\* and a key is that of the service.
KeyInPlace ==
  /\ AudioTypeOK
  /\ \A a \in Asking : asking[a].at = "pause" => asking[a].attempt < 2
  /\ asking[1].at # "none"
  /\ audioKey => service = "keyed"
  /\ KeyOrNotice

-------------------------------------------------------------------------------

LEMMA Numbers ==
  /\ Opening \subseteq Int /\ 0 \notin Opening
  /\ \A a, b \in Int : /\ Least(a, b) \in {a, b} /\ Least(a, b) <= a /\ Least(a, b) <= b
                       /\ Most(a, b) \in {a, b} /\ a <= Most(a, b) /\ b <= Most(a, b)
BY PlayerAssumption DEF Opening, Least, Most

LEMMA TypedIsPlayerTypeOK == Typed => PlayerTypeOK
<1> SUFFICES ASSUME Typed PROVE PlayerTypeOK
  OBVIOUS
<1>1. \A n \in Opening : loads[n].job \in Job \cup {NoJob}
  BY DEF Typed, OpeningsTyped, LoadRecord
<1>2. {error, tracks, ctx, sources, opened} \subseteq Opening \cup {0}
  BY DEF Typed, OpeningsTyped
<1> QED
  BY <1>1, <1>2 DEF Typed, FieldsTyped, ClockTyped, MixerTyped, PlayerTypeOK

\* The player is opened on nothing.
LEMMA PlayerStarts == PlayerInit => PlayerInvariant
<1> SUFFICES ASSUME PlayerInit PROVE PlayerInvariant
  OBVIOUS
<1> USE PlayerAssumption DEF PlayerInit
<1>1. FieldsTyped /\ ClockTyped
  <2>1. FieldsTyped
    BY DEF FieldsTyped
  <2>2. ClockTyped
    BY DEF ClockTyped
  <2> QED BY <2>1, <2>2
<1>2. OpeningsTyped
  BY DEF OpeningsTyped, LoadRecord
<1>3. MixerTyped
  BY DEF MixerTyped
<1>4. TracksInPlace /\ PlayingInPlace
  BY DEF TracksInPlace, PlayingInPlace
<1>5. SoundInPlace /\ MixerInPlace
  BY DEF SoundInPlace, MixerInPlace
<1> QED BY <1>1, <1>2, <1>3, <1>4, <1>5 DEF PlayerInvariant, Typed

LEMMA CloseKeeps == PlayerInvariant /\ Close => PlayerInvariant'
<1> SUFFICES ASSUME PlayerInvariant, Close PROVE PlayerInvariant'
  OBVIOUS
<1> USE PlayerAssumption DEF PlayerInvariant, Typed, Close, Silence, mixer
<1>1. FieldsTyped' /\ ClockTyped'
  <2>1. FieldsTyped'
    BY DEF FieldsTyped
  <2>2. ClockTyped'
    BY DEF ClockTyped
  <2> QED BY <2>1, <2>2
<1>2. OpeningsTyped' /\ MixerTyped'
  BY DEF OpeningsTyped, MixerTyped
<1>3. TracksInPlace' /\ PlayingInPlace'
  <2>1. 0 <= opened
    BY DEF OpeningsTyped, Opening
  <2> QED BY <2>1 DEF TracksInPlace, PlayingInPlace
<1>4. SoundInPlace' /\ MixerInPlace'
  BY DEF SoundInPlace, MixerInPlace, Shown
<1> QED BY <1>1, <1>2, <1>3, <1>4

LEMMA LoadKeeps ==
  ASSUME PlayerInvariant, NEW job \in Job, NEW key \in BOOLEAN, Load(job, key)
  PROVE  PlayerInvariant'
<1> USE PlayerAssumption DEF PlayerInvariant, Typed, Load, Silence, mixer
<1>1. opened' \in Opening
  BY DEF OpeningsTyped, Opening
<1>2. (loads \in [Opening -> LoadRecord])' /\ loads'[opened'].job = job
  BY <1>1 DEF OpeningsTyped, LoadRecord
<1>3. FieldsTyped' /\ ClockTyped'
  <2>1. FieldsTyped'
    BY DEF FieldsTyped
  <2>2. ClockTyped'
    BY DEF ClockTyped
  <2> QED BY <2>1, <2>2
<1>4. OpeningsTyped' /\ MixerTyped'
  BY <1>1, <1>2 DEF OpeningsTyped, MixerTyped
<1>5. TracksInPlace'
  BY <1>2 DEF TracksInPlace
<1>6. /\ opened \in Nat /\ opened' = opened + 1 /\ Opening \subseteq Int
      /\ \A n \in Opening : n # opened' => loads'[n] = loads[n]
  BY <1>1, Numbers DEF OpeningsTyped, Opening
<1>7. PlayingInPlace'
  BY <1>1, <1>2, <1>6 DEF PlayingInPlace
<1>8. SoundInPlace' /\ MixerInPlace'
  BY <1>1, <1>6 DEF SoundInPlace, MixerInPlace
<1> QED BY <1>3, <1>4, <1>5, <1>7, <1>8

\* A fetch that settles leaves every opening on its job, and settled ones settled.
LEMMA SettleEffect ==
  ASSUME PlayerInvariant, NEW n \in Opening, Settle(n)
  PROVE  /\ (loads \in [Opening -> LoadRecord])'
         /\ \A k \in Opening : loads'[k].job = loads[k].job
         /\ \A k \in Opening : loads'[k].pending => loads[k].pending
         /\ ~loads'[n].pending
         /\ loads[n].pending
BY DEF PlayerInvariant, Typed, OpeningsTyped, Settle, LoadRecord

LEMMA LoadDoneKeeps ==
  ASSUME PlayerInvariant, NEW n \in Opening, LoadDone(n)
  PROVE  PlayerInvariant'
<1> USE PlayerAssumption
<1>0. Settle(n)
  BY DEF LoadDone
<1>1. /\ (loads \in [Opening -> LoadRecord])'
      /\ \A k \in Opening : loads'[k].job = loads[k].job
      /\ \A k \in Opening : loads'[k].pending => loads[k].pending
      /\ ~loads'[n].pending /\ loads[n].pending
  BY <1>0, SettleEffect
<1> USE DEF PlayerInvariant, Typed
<1>2. FieldsTyped' /\ ClockTyped'
  BY DEF FieldsTyped, ClockTyped, LoadDone, play, sound
<1>3. OpeningsTyped'
  BY <1>1 DEF OpeningsTyped, LoadDone, sound
<1>4. MixerTyped'
  BY DEF MixerTyped, LoadDone, mixer
<1>5. CASE jobId = loads[n].job
  <2>1. /\ tracks' = n /\ duration' = Duration /\ n # 0
        /\ UNCHANGED <<jobId, playing, position, ctx, sources, gain, opened>>
        /\ muted' = {} /\ volume' = [s \in Stem |-> 1]
    BY <1>5, Numbers DEF LoadDone, play, sound
  <2>2. TracksInPlace'
    BY <1>1, <1>5, <2>1 DEF TracksInPlace
  <2>3. PlayingInPlace'
    BY <1>1, <2>1 DEF PlayingInPlace, ClockTyped, OpeningsTyped
  <2>4. playing => ctx # n
    BY <1>1 DEF PlayingInPlace
  <2>5. SoundInPlace'
    BY <1>1, <2>1, <2>4 DEF SoundInPlace, OpeningsTyped
  <2>6. MixerInPlace'
    BY <1>1, <2>1 DEF MixerInPlace, Shown
  <2> QED BY <1>2, <1>3, <1>4, <2>2, <2>3, <2>5, <2>6
<1>6. CASE jobId # loads[n].job
  <2>1. UNCHANGED <<jobId, playing, position, duration, tracks, ctx, sources,
                    muted, volume, gain, opened>>
    BY <1>6 DEF LoadDone, play, sound
  <2>2. TracksInPlace' /\ PlayingInPlace'
    BY <1>1, <2>1 DEF TracksInPlace, PlayingInPlace, OpeningsTyped
  <2>3. SoundInPlace' /\ MixerInPlace'
    BY <1>1, <2>1 DEF SoundInPlace, MixerInPlace, Shown, OpeningsTyped
  <2> QED BY <1>2, <1>3, <1>4, <2>2, <2>3
<1> QED BY <1>5, <1>6

LEMMA LoadFailsKeeps ==
  ASSUME PlayerInvariant, NEW n \in Opening, LoadFails(n)
  PROVE  PlayerInvariant'
<1> USE PlayerAssumption
<1>0. Settle(n)
  BY DEF LoadFails
<1>1. /\ (loads \in [Opening -> LoadRecord])'
      /\ \A k \in Opening : loads'[k].job = loads[k].job
      /\ \A k \in Opening : loads'[k].pending => loads[k].pending
  BY <1>0, SettleEffect
<1> USE DEF PlayerInvariant, Typed, LoadFails, play, sound, mixer
<1>2. FieldsTyped' /\ ClockTyped'
  BY DEF FieldsTyped, ClockTyped
<1>3. OpeningsTyped' /\ MixerTyped'
  BY <1>1 DEF OpeningsTyped, MixerTyped
<1>4. TracksInPlace' /\ PlayingInPlace'
  BY <1>1 DEF TracksInPlace, PlayingInPlace, OpeningsTyped
<1>5. SoundInPlace' /\ MixerInPlace'
  BY <1>1 DEF SoundInPlace, MixerInPlace, Shown, OpeningsTyped
<1> QED BY <1>2, <1>3, <1>4, <1>5

-------------------------------------------------------------------------------
(* The controls.                                                           *)

\* What playing from a place on the track does to what is heard.
LEMMA PlayEffect ==
  ASSUME PlayerInvariant, NEW start \in Int, start <= duration,
         playing => start >= 0, Play(start)
  PROVE  /\ playing' \in BOOLEAN /\ timer' \in BOOLEAN
         /\ sources' \in Opening \cup {0}
         /\ from' \in 0..Duration /\ elapsed' \in -1..(Duration + 1)
         /\ sources' # 0 => playing' /\ sources' = ctx
         /\ playing' /\ tracks = ctx => sources' # 0
         /\ playing' /\ ~playing => /\ ctx # 0 /\ ~loads[ctx].pending
                                    /\ tracks # 0 /\ start >= 0
<1> USE PlayerAssumption DEF PlayerInvariant, Typed, FieldsTyped, ClockTyped, OpeningsTyped
<1>1. CASE ctx = 0 \/ tracks = 0
  BY <1>1 DEF Play, sound, SoundInPlace
<1>2. CASE ctx # 0 /\ tracks # 0
  <2> DEFINE at == IF start >= duration THEN 0 ELSE start
  <2>1. duration = Duration /\ at \in Int /\ at <= Duration
    BY <1>2 DEF TracksInPlace
  <2>2. CASE Starts(at)
    <3>1. /\ sources' = ctx /\ from' = at /\ elapsed' = -1
          /\ playing' = TRUE /\ timer' = TRUE
      BY <1>2, <2>2 DEF Play
    <3>2. tracks = ctx /\ at >= 0
      BY <2>2 DEF Starts
    <3>3. start >= 0 /\ at \in 0..Duration
      BY <2>1, <3>2
    <3> HIDE DEF at
    <3>4. elapsed' \in -1..(Duration + 1)
      BY <3>1
    <3> QED BY <1>2, <3>1, <3>2, <3>3, <3>4 DEF TracksInPlace
  <2>3. CASE ~Starts(at)
    <3>1. sources' = 0 /\ UNCHANGED <<from, elapsed, playing, timer>>
      BY <1>2, <2>3 DEF Play
    <3>2. tracks # ctx \/ at < 0
      BY <2>1, <2>3 DEF Starts
    <3>3. at < 0 => ~playing
      BY <2>1
    <3> HIDE DEF at
    <3> QED BY <3>1, <3>2, <3>3
  <2> QED BY <2>2, <2>3
<1> QED BY <1>1, <1>2

\* What a stop leaves: nothing to hear, and nothing that plays.
LEMMA StopKeeps ==
  ASSUME PlayerInvariant, Stop, position' \in -1..Duration, position' <= duration,
         tracks = 0 => position' = 0,
         clicks' \in 0..MaxClicks,
         UNCHANGED <<service, open, duration, tracks, mixer, ctx, loads, opened>>
  PROVE  PlayerInvariant'
<1> USE DEF PlayerInvariant, Typed, Stop, open, mixer
<1>1. FieldsTyped'
  BY DEF FieldsTyped
<1>2. ClockTyped'
  BY DEF ClockTyped
<1>3. OpeningsTyped' /\ MixerTyped'
  BY DEF OpeningsTyped, MixerTyped
<1>4. TracksInPlace' /\ PlayingInPlace'
  BY DEF TracksInPlace, PlayingInPlace
<1>5. SoundInPlace' /\ MixerInPlace'
  BY DEF SoundInPlace, MixerInPlace, Shown
<1> QED BY <1>1, <1>2, <1>3, <1>4, <1>5

\* The place on the track is on it, or just before it.
LEMMA NowEffect ==
  ASSUME PlayerInvariant
  PROVE  /\ Now \in -1..Duration /\ Now <= duration
         /\ tracks = 0 => Now = 0
<1> USE PlayerAssumption DEF PlayerInvariant, Typed, ClockTyped
<1>1. CASE ctx = 0 \/ ~playing
  BY <1>1 DEF Now, PlayingInPlace, TracksInPlace
<1>2. CASE playing /\ ctx # 0
  <2>1. tracks # 0 /\ duration = Duration
    BY <1>2 DEF TracksInPlace
  <2>2. from + elapsed \in Int /\ from + elapsed >= -1
    OBVIOUS
  <2>3. Now = Least(from + elapsed, duration)
    BY <1>2 DEF Now
  <2> QED BY <2>1, <2>2, <2>3 DEF Least
<1> QED BY <1>1, <1>2 DEF FieldsTyped

\* What playing from where the scrubber is keeps.
LEMMA PlayKeeps ==
  ASSUME PlayerInvariant, position' \in -1..Duration, position' <= duration,
         tracks = 0 => position' = 0,
         playing => position' >= 0, Play(position'),
         clicks' \in 0..MaxClicks,
         UNCHANGED <<service, open, duration, tracks, mixer, ctx, loads, opened>>
  PROVE  PlayerInvariant'
<1> USE DEF PlayerInvariant, Typed
<1>1. /\ playing' \in BOOLEAN /\ timer' \in BOOLEAN
      /\ sources' \in Opening \cup {0}
      /\ from' \in 0..Duration /\ elapsed' \in -1..(Duration + 1)
      /\ sources' # 0 => playing' /\ sources' = ctx
      /\ playing' /\ tracks = ctx => sources' # 0
      /\ playing' /\ ~playing => /\ ctx # 0 /\ ~loads[ctx].pending
                                 /\ tracks # 0 /\ position' >= 0
  <2>1. position' \in Int
    OBVIOUS
  <2> QED BY <2>1, PlayEffect
<1>2. UNCHANGED <<service, jobId, loading, error, duration, tracks, muted, volume, gain,
                  ctx, loads, opened>>
  BY DEF open, mixer
<1>3. FieldsTyped'
  BY <1>1, <1>2 DEF FieldsTyped
<1>4. ClockTyped'
  BY <1>1, <1>2 DEF ClockTyped
<1>5. OpeningsTyped' /\ MixerTyped'
  BY <1>1, <1>2 DEF OpeningsTyped, MixerTyped
<1>6. TracksInPlace' /\ PlayingInPlace'
  BY <1>1, <1>2 DEF TracksInPlace, PlayingInPlace
<1>7. SoundInPlace' /\ MixerInPlace'
  BY <1>1, <1>2 DEF SoundInPlace, MixerInPlace, Shown
<1> QED BY <1>3, <1>4, <1>5, <1>6, <1>7

LEMMA ToggleKeeps == PlayerInvariant /\ Toggle => PlayerInvariant'
<1> SUFFICES ASSUME PlayerInvariant, Toggle PROVE PlayerInvariant'
  OBVIOUS
<1>1. /\ clicks' \in 0..MaxClicks
      /\ UNCHANGED <<service, open, duration, tracks, mixer, ctx, loads, opened>>
  BY PlayerAssumption DEF Toggle, Click, PlayerInvariant, Typed, ClockTyped
<1>2. CASE Pause
  BY <1>1, <1>2, NowEffect, StopKeeps DEF Pause
<1>3. CASE ~playing /\ Play(position) /\ UNCHANGED position
  <2>1. /\ position' = position /\ position \in -1..Duration /\ position <= duration
        /\ tracks = 0 => position = 0
    BY <1>3 DEF PlayerInvariant, Typed, ClockTyped, PlayingInPlace, TracksInPlace
  <2>2. Play(position')
    BY <1>3, <2>1
  <2> QED BY <1>1, <1>3, <2>1, <2>2, PlayKeeps
<1> QED BY <1>2, <1>3 DEF Toggle

LEMMA SeekKeeps ==
  ASSUME PlayerInvariant, NEW seconds \in 0..Duration, Seek(seconds)
  PROVE  PlayerInvariant'
<1>1. /\ clicks' \in 0..MaxClicks
      /\ UNCHANGED <<service, open, duration, tracks, mixer, ctx, loads, opened>>
  BY PlayerAssumption DEF Seek, Click, PlayerInvariant, Typed, ClockTyped
<1>2. /\ position' \in 0..Duration /\ position' <= duration
      /\ tracks = 0 => position' = 0
  BY PlayerAssumption
  DEF Seek, Least, Most, PlayerInvariant, Typed, ClockTyped, TracksInPlace
<1>3. CASE playing
  <2>1. Play(position')
    BY <1>3 DEF Seek
  <2> QED BY <1>1, <1>2, <2>1, PlayKeeps
<1>4. CASE ~playing
  <2>1. UNCHANGED <<playing, timer, sound>>
    BY <1>4 DEF Seek
  <2> USE <1>1, <1>2, <1>4, <2>1 DEF PlayerInvariant, Typed, open, mixer, sound
  <2>2. FieldsTyped'
    BY DEF FieldsTyped
  <2>3. ClockTyped'
    BY DEF ClockTyped
  <2>4. OpeningsTyped' /\ MixerTyped'
    BY DEF OpeningsTyped, MixerTyped
  <2>5. TracksInPlace' /\ PlayingInPlace'
    BY DEF TracksInPlace, PlayingInPlace
  <2>6. SoundInPlace' /\ MixerInPlace'
    BY DEF SoundInPlace, MixerInPlace, Shown
  <2> QED BY <2>2, <2>3, <2>4, <2>5, <2>6
<1> QED BY <1>3, <1>4

LEMMA TickKeeps == PlayerInvariant /\ Tick => PlayerInvariant'
<1> SUFFICES ASSUME PlayerInvariant, Tick PROVE PlayerInvariant'
  OBVIOUS
<1> USE PlayerAssumption
<1>1. /\ clicks' \in 0..MaxClicks /\ 0 \in -1..Duration /\ 0 <= duration
      /\ UNCHANGED <<service, open, duration, tracks, mixer, ctx, loads, opened>>
  BY DEF Tick, PlayerInvariant, Typed, ClockTyped
<1>2. CASE playing /\ Stop /\ position' = 0
  BY <1>1, <1>2, StopKeeps
<1>3. CASE \/ timer' = FALSE /\ UNCHANGED <<playing, position, sound>>
           \/ /\ playing /\ position' = Most(0, Now)
              /\ UNCHANGED <<playing, timer, sound>>
  <2>1. /\ UNCHANGED <<playing, sources, from, elapsed>> /\ timer' \in BOOLEAN
        /\ \/ position' = position
           \/ playing /\ position' = Most(0, Now)
    BY <1>3 DEF sound, PlayerInvariant, Typed, FieldsTyped
  <2>2. /\ position' \in -1..Duration /\ position' <= duration
        /\ position' < 0 => ~playing
        /\ tracks = 0 => position' = 0
    <3>1. CASE position' = position
      BY <3>1 DEF PlayerInvariant, Typed, ClockTyped, PlayingInPlace, TracksInPlace
    <3>2. CASE playing /\ position' = Most(0, Now)
      BY <1>1, <3>2, NowEffect DEF Most, PlayerInvariant, Typed, ClockTyped
    <3> QED BY <2>1, <3>1, <3>2
  <2> USE <1>1, <2>1, <2>2 DEF PlayerInvariant, Typed, open, mixer
  <2>3. FieldsTyped'
    BY DEF FieldsTyped
  <2>4. ClockTyped'
    BY DEF ClockTyped
  <2>5. OpeningsTyped' /\ MixerTyped'
    BY DEF OpeningsTyped, MixerTyped
  <2>6. TracksInPlace' /\ PlayingInPlace'
    BY DEF TracksInPlace, PlayingInPlace
  <2>7. SoundInPlace' /\ MixerInPlace'
    BY DEF SoundInPlace, MixerInPlace, Shown
  <2> QED BY <2>3, <2>4, <2>5, <2>6, <2>7
<1> QED BY <1>2, <1>3 DEF Tick

LEMMA TimePassesKeeps == PlayerInvariant /\ TimePasses => PlayerInvariant'
<1> SUFFICES ASSUME PlayerInvariant, TimePasses PROVE PlayerInvariant'
  OBVIOUS
<1> USE PlayerAssumption DEF PlayerInvariant, Typed, TimePasses, open, play, mixer
<1>1. FieldsTyped'
  BY DEF FieldsTyped
<1>2. ClockTyped'
  BY DEF ClockTyped
<1>3. OpeningsTyped' /\ MixerTyped'
  BY DEF OpeningsTyped, MixerTyped
<1>4. TracksInPlace' /\ PlayingInPlace'
  BY DEF TracksInPlace, PlayingInPlace
<1>5. SoundInPlace' /\ MixerInPlace'
  BY DEF SoundInPlace, MixerInPlace, Shown
<1> QED BY <1>1, <1>2, <1>3, <1>4, <1>5

\* What a click in the mixer does to the gains: those of the tracks that are
\* shown follow the controls, those of other openings stay.
MixedAsShown ==
  /\ MixerTyped'
  /\ \A s \in Stem : gain'[tracks][s] = IF s \in muted' THEN 0 ELSE volume'[s]
  /\ \A n \in Opening : n # tracks => gain'[n] = gain[n]

LEMMA MuteEffect ==
  ASSUME MixerTyped, tracks \in Opening, NEW silent \in SUBSET Stem, Mute(silent)
  PROVE  MixedAsShown
<1> DEFINE g == [s \in Stem |-> IF s \in silent THEN 0 ELSE volume[s]]
<1>1. g \in [Stem -> Loud \cup {0}]
  BY DEF MixerTyped
<1>2. gain' = [gain EXCEPT ![tracks] = g] /\ muted' = silent /\ volume' = volume
  BY DEF Mute
<1>3. \A s \in Stem : g[s] = IF s \in silent THEN 0 ELSE volume[s]
  OBVIOUS
<1> HIDE DEF g
<1> QED BY <1>1, <1>2, <1>3 DEF MixedAsShown, MixerTyped

LEMMA SetVolumeEffect ==
  ASSUME MixerTyped, tracks \in Opening,
         \A r \in Stem : gain[tracks][r] = Shown(r),
         NEW s \in Stem, NEW v \in Loud, SetVolume(s, v)
  PROVE  MixedAsShown
<1>1. volume' \in [Stem -> Loud] /\ muted' = muted
      /\ volume'[s] = v /\ \A r \in Stem : r # s => volume'[r] = volume[r]
  BY DEF SetVolume, MixerTyped
<1>2. gain' \in [Opening -> [Stem -> Loud \cup {0}]]
      /\ \A n \in Opening : n # tracks => gain'[n] = gain[n]
  BY DEF SetVolume, MixerTyped
<1>3. \A r \in Stem :
        gain'[tracks][r] = IF r = s /\ s \notin muted THEN v ELSE gain[tracks][r]
  BY DEF SetVolume, MixerTyped
<1>4. \A r \in Stem : gain'[tracks][r] = IF r \in muted' THEN 0 ELSE volume'[r]
  BY <1>1, <1>3 DEF Shown
<1> QED BY <1>1, <1>2, <1>4 DEF MixedAsShown, MixerTyped

LEMMA MixKeeps == PlayerInvariant /\ Mix => PlayerInvariant'
<1> SUFFICES ASSUME PlayerInvariant, Mix PROVE PlayerInvariant'
  OBVIOUS
<1> USE PlayerAssumption DEF PlayerInvariant, Typed
<1>1. /\ clicks' \in 0..MaxClicks /\ tracks \in Opening
      /\ UNCHANGED <<service, open, play, duration, tracks, ctx, sound, loads, opened>>
  BY DEF Mix, Click, ClockTyped, OpeningsTyped
<1>2. MixedAsShown
  <2>1. \A r \in Stem : gain[tracks][r] = Shown(r)
    BY <1>1, Numbers DEF MixerInPlace
  <2>2. PICK s \in Stem :
          \/ Mute(IF s \in muted THEN muted \ {s} ELSE muted \cup {s})
          \/ Solo(s)
          \/ \E v \in Loud : SetVolume(s, v)
    BY DEF Mix
  <2>3. CASE Mute(IF s \in muted THEN muted \ {s} ELSE muted \cup {s})
    BY <1>1, <2>3, MuteEffect DEF MixerTyped
  <2>4. CASE Solo(s)
    BY <1>1, <2>4, MuteEffect DEF Solo
  <2>5. CASE \E v \in Loud : SetVolume(s, v)
    BY <1>1, <2>1, <2>5, SetVolumeEffect
  <2> QED BY <2>2, <2>3, <2>4, <2>5
<1> USE <1>1 DEF open, play, sound
<1>3. FieldsTyped'
  BY DEF FieldsTyped
<1>4. ClockTyped'
  BY DEF ClockTyped
<1>5. OpeningsTyped'
  BY DEF OpeningsTyped
<1>6. TracksInPlace' /\ PlayingInPlace'
  BY DEF TracksInPlace, PlayingInPlace
<1>7. SoundInPlace'
  BY DEF SoundInPlace
<1>8. MixerInPlace'
  <2>1. tracks # 0 /\ ~loads[tracks].pending /\ tracks <= opened
        /\ tracks \in Int /\ opened \in Int
    BY Numbers DEF TracksInPlace, PlayingInPlace, OpeningsTyped
  <2>2. \A n \in Opening : loads[n].pending \/ n > opened => n # tracks
    BY <2>1
  <2> QED BY <1>2, <2>1, <2>2 DEF MixerInPlace, MixedAsShown, Shown
<1> QED BY <1>2, <1>3, <1>4, <1>5, <1>6, <1>7, <1>8 DEF MixedAsShown

\* Nothing of the player changes.
LEMMA PlayerStays == PlayerInvariant /\ UNCHANGED playerVars => PlayerInvariant'
<1> SUFFICES ASSUME PlayerInvariant, UNCHANGED playerVars PROVE PlayerInvariant'
  OBVIOUS
<1> USE DEF PlayerInvariant, Typed, playerVars, open, play, mixer, sound
<1>1. FieldsTyped' /\ ClockTyped' /\ OpeningsTyped' /\ MixerTyped'
  BY DEF FieldsTyped, ClockTyped, OpeningsTyped, MixerTyped
<1>2. TracksInPlace' /\ PlayingInPlace'
  BY DEF TracksInPlace, PlayingInPlace
<1>3. SoundInPlace' /\ MixerInPlace'
  BY DEF SoundInPlace, MixerInPlace, Shown
<1> QED BY <1>1, <1>2, <1>3

-------------------------------------------------------------------------------
(* The page: its player and its key.                                       *)

AskingRecord == [at : {"none", "request", "pause", "over"}, attempt : 0..2]

LEMMA KeyStarts == AudioInit => KeyInPlace
<1> SUFFICES ASSUME AudioInit PROVE KeyInPlace
  OBVIOUS
<1>1. PlayerTypeOK
  BY PlayerStarts, TypedIsPlayerTypeOK DEF AudioInit, PlayerInvariant
<1>2. audioKey = FALSE /\ told = FALSE /\ upload = "idle"
  BY DEF AudioInit
<1>3. asking \in [Asking -> AskingRecord]
  BY DEF AudioInit, AskingRecord, Requested
<1>4. 1 \in Asking
  BY AudioAssumption DEF Asking
<1>5. \A a \in Asking : /\ asking[a].at \in {"none", "request"}
                        /\ a = 1 => asking[a].at = "request"
  BY DEF AudioInit, Requested
<1>6. \A a \in Asking : asking[a].at # "pause" /\ asking[a].at # "over"
  BY <1>5
<1> QED BY <1>1, <1>2, <1>3, <1>4, <1>5, <1>6
        DEF KeyInPlace, AudioTypeOK, AskingRecord, KeyOrNotice

\* What a step of one asking leaves of KeyInPlace to show: where that asking is
\* now, and the key and the notice when it is over.
LEMMA AskingEffect ==
  ASSUME KeyInPlace, PlayerTypeOK', UNCHANGED <<service, upload>>,
         NEW a \in Asking, NEW r \in AskingRecord,
         asking' = [asking EXCEPT ![a] = r],
         r.at # "none",
         r.at = "pause" => r.attempt < 2,
         audioKey' \in BOOLEAN, told' \in BOOLEAN,
         audioKey' => service = "keyed",
         audioKey => audioKey', told => told',
         r.at = "over" => ~Keyed \/ audioKey' \/ told'
  PROVE  KeyInPlace'
<1> USE DEF KeyInPlace, AudioTypeOK, AskingRecord
<1>1. AudioTypeOK'
  OBVIOUS
<1>2. 1 \in Asking
  BY AudioAssumption DEF Asking
<1>3. \A b \in Asking : asking'[b] = IF b = a THEN r ELSE asking[b]
  OBVIOUS
<1>4. asking'[1].at # "none"
  BY <1>2, <1>3
<1>5. \A b \in Asking : asking'[b].at = "pause" => asking'[b].attempt < 2
  BY <1>3
<1>6. KeyOrNotice'
  BY <1>3, <1>4 DEF KeyOrNotice, Keyed
<1> QED BY <1>1, <1>4, <1>5, <1>6

\* The last failure, and a chunk size of its own, are told; the key stays.
LEMMA KeyKeeps ==
  ASSUME KeyInPlace, PlayerTypeOK', AudioStep
  PROVE  KeyInPlace' /\ (audioKey => audioKey')
<1>0. /\ UNCHANGED service /\ service \in Service
      /\ audioKey \in BOOLEAN /\ told \in BOOLEAN
      /\ asking \in [Asking -> AskingRecord]
  BY DEF AudioStep, FiltersChange, KeyArrives, KeyFails, AskAgain, Upload, SealUpload,
         UploadEnds, playerVars, PlayerTypeOK, KeyInPlace, AudioTypeOK, AskingRecord
<1>1. CASE \E a \in Asking : FiltersChange(a)
  <2>1. PICK a \in Asking : FiltersChange(a)
    BY <1>1
  <2>2. Requested(0) \in AskingRecord /\ Requested(0).at = "request"
    BY DEF Requested, AskingRecord
  <2>3. UNCHANGED <<audioKey, told, upload>> /\ asking' = [asking EXCEPT ![a] = Requested(0)]
    BY <2>1 DEF FiltersChange
  <2>4. audioKey => service = "keyed"
    BY DEF KeyInPlace
  <2> QED BY <1>0, <2>2, <2>3, <2>4, AskingEffect
<1>2. CASE \E a \in Asking : KeyArrives(a)
  <2>1. PICK a \in Asking : KeyArrives(a)
    BY <1>2
  <2> DEFINE r == [at |-> "over", attempt |-> 0]
  <2>2. r \in AskingRecord /\ r.at = "over"
    BY DEF AskingRecord
  <2>3. /\ UNCHANGED upload /\ asking' = [asking EXCEPT ![a] = r]
        /\ audioKey' = (service = "keyed") /\ told' = (told \/ service = "other chunk")
    BY <2>1 DEF KeyArrives
  <2> HIDE DEF r
  <2>4. audioKey => service = "keyed"
    BY DEF KeyInPlace
  <2>5. ~Keyed \/ audioKey' \/ told'
    BY <1>0, <2>3 DEF Keyed, Service
  <2>6. audioKey' \in BOOLEAN /\ told' \in BOOLEAN
        /\ (audioKey => audioKey') /\ (told => told') /\ (audioKey' => service = "keyed")
    BY <1>0, <2>3, <2>4
  <2> QED BY <1>0, <2>2, <2>3, <2>5, <2>6, AskingEffect
<1>3. CASE \E a \in Asking : KeyFails(a)
  <2>1. PICK a \in Asking : KeyFails(a)
    BY <1>3
  <2>2. UNCHANGED <<audioKey, upload>> /\ (audioKey => service = "keyed")
    BY <2>1 DEF KeyFails, KeyInPlace
  <2>3. CASE asking[a].attempt < 2
    <3> DEFINE r == [asking[a] EXCEPT !.at = "pause"]
    <3>1. r \in AskingRecord /\ r.at = "pause" /\ r.attempt < 2
      BY <1>0, <2>3 DEF AskingRecord
    <3>2. asking' = [asking EXCEPT ![a] = r] /\ UNCHANGED told
      BY <1>0, <2>1, <2>3 DEF KeyFails
    <3> HIDE DEF r
    <3> QED BY <1>0, <2>2, <3>1, <3>2, AskingEffect
  <2>4. CASE ~(asking[a].attempt < 2)
    <3> DEFINE r == [at |-> "over", attempt |-> 0]
    <3>1. r \in AskingRecord /\ r.at = "over"
      BY DEF AskingRecord
    <3>2. asking' = [asking EXCEPT ![a] = r] /\ told'
      BY <2>1, <2>4 DEF KeyFails
    <3>3. told' \in BOOLEAN
      BY <2>1, <2>4 DEF KeyFails
    <3> HIDE DEF r
    <3> QED BY <1>0, <2>2, <3>1, <3>2, <3>3, AskingEffect
  <2> QED BY <2>3, <2>4
<1>4. CASE \E a \in Asking : AskAgain(a)
  <2>1. PICK a \in Asking : AskAgain(a)
    BY <1>4
  <2> DEFINE r == Requested(asking[a].attempt + 1)
  <2>2. r \in AskingRecord /\ r.at = "request"
    BY <1>0, <2>1 DEF AskAgain, KeyInPlace, AskingRecord, Requested
  <2>3. UNCHANGED <<audioKey, told, upload>> /\ asking' = [asking EXCEPT ![a] = r]
        /\ (audioKey => service = "keyed")
    BY <2>1 DEF AskAgain, KeyInPlace
  <2> HIDE DEF r
  <2> QED BY <1>0, <2>2, <2>3, AskingEffect
<1>5. CASE Upload \/ SealUpload \/ UploadEnds
  <2>1. UNCHANGED <<asking, audioKey, told>>
        /\ upload' \in {"idle", "sealing", "sealed", "clear"}
    BY <1>5 DEF Upload, SealUpload, UploadEnds
  <2> QED BY <1>0, <2>1 DEF KeyInPlace, AudioTypeOK, KeyOrNotice, Keyed
<1> QED BY <1>1, <1>2, <1>3, <1>4, <1>5 DEF AudioStep

\* Every step of the player keeps what it promises.
LEMMA PlayerStepKeeps == PlayerInvariant /\ PlayerStep => PlayerInvariant'
<1> SUFFICES ASSUME PlayerInvariant, PlayerStep PROVE PlayerInvariant'
  OBVIOUS
<1>1. CASE \E n \in Opening : LoadDone(n) \/ LoadFails(n)
  BY <1>1, LoadDoneKeeps, LoadFailsKeeps
<1>2. CASE Toggle
  BY <1>2, ToggleKeeps
<1>3. CASE \E seconds \in 0..Duration : Seek(seconds)
  BY <1>3, SeekKeeps
<1>4. CASE Tick
  BY <1>4, TickKeeps
<1>5. CASE TimePasses
  BY <1>5, TimePassesKeeps
<1>6. CASE Mix
  BY <1>6, MixKeeps
<1> QED BY <1>1, <1>2, <1>3, <1>4, <1>5, <1>6 DEF PlayerStep

\* How the service was started is no step's to change.
LEMMA ServiceStays == PlayerStep => UNCHANGED service
BY DEF PlayerStep, LoadDone, LoadFails, Toggle, Seek, Tick, TimePasses, Mix

LEMMA PageKeeps ==
  PlayerInvariant /\ KeyInPlace /\ [AudioNext]_vars => PlayerInvariant' /\ KeyInPlace'
<1> SUFFICES ASSUME PlayerInvariant, KeyInPlace, [AudioNext]_vars
             PROVE  PlayerInvariant' /\ KeyInPlace'
  OBVIOUS
<1>1. PlayerInvariant' => PlayerTypeOK'
  BY TypedIsPlayerTypeOK, PTL DEF PlayerInvariant
<1>2. CASE AudioStep
  <2>1. UNCHANGED playerVars
    BY <1>2 DEF AudioStep, FiltersChange, KeyArrives, KeyFails, AskAgain, Upload,
                SealUpload, UploadEnds
  <2> QED BY <1>1, <1>2, <2>1, PlayerStays, KeyKeeps
<1>3. ASSUME UNCHANGED audioVars, UNCHANGED service, PlayerInvariant'
      PROVE  KeyInPlace'
  BY <1>1, <1>3 DEF KeyInPlace, AudioTypeOK, audioVars, Keyed, KeyOrNotice
<1>4. CASE PlayerStep /\ UNCHANGED audioVars
  BY <1>3, <1>4, PlayerStepKeeps, ServiceStays
<1>5. CASE (\E job \in Job : TogglePlayer(job, audioKey)) /\ UNCHANGED audioVars
  <2>1. PICK job \in Job : TogglePlayer(job, audioKey)
    BY <1>5
  <2>2. audioKey \in BOOLEAN
    BY DEF KeyInPlace, AudioTypeOK
  <2>3. PlayerInvariant' /\ UNCHANGED service
    BY <2>1, <2>2, CloseKeeps, LoadKeeps DEF TogglePlayer, Close, Load
  <2> QED BY <1>3, <1>5, <2>3
<1>6. CASE UNCHANGED vars
  <2>1. UNCHANGED playerVars /\ UNCHANGED audioVars /\ UNCHANGED service
    BY <1>6 DEF vars, playerVars
  <2> QED BY <1>3, <2>1, PlayerStays
<1> QED BY <1>2, <1>4, <1>5, <1>6 DEF AudioNext

\* The invariant of the page holds throughout.
LEMMA PageIsSafe == AudioSpec => [](PlayerInvariant /\ KeyInPlace)
<1>1. AudioInit => PlayerInvariant /\ KeyInPlace
  BY PlayerStarts, KeyStarts DEF AudioInit
<1> QED BY <1>1, PageKeeps, PTL DEF AudioSpec

\* The page's player and key keep their types: StemPlayer in
\* stem-player.svelte.ts, and the state of loadAudioKey and upload in
\* +page.svelte.
THEOREM AudioTypes == AudioSpec => []AudioTypeOK
<1>1. KeyInPlace => AudioTypeOK
  BY DEF KeyInPlace
<1> QED BY <1>1, PageIsSafe, PTL

\* However the openings of several jobs overlap, what is heard is the player
\* that is open and says it plays, as loud as its controls show as long as they
\* are those of the tracks that play; others are of an earlier opening (load,
\* close, play, setMuted, setVolume).
THEOREM SoundIsAsShown == AudioSpec => []HeardAsShown
<1>1. PlayerInvariant => HeardAsShown
  <2> SUFFICES ASSUME PlayerInvariant PROVE HeardAsShown
    OBVIOUS
  <2> USE DEF PlayerInvariant, Typed
  <2>1. sources # 0 => /\ playing /\ sources = ctx /\ ctx = opened
                       /\ jobId = loads[sources].job /\ tracks # 0
    BY DEF SoundInPlace, PlayingInPlace, TracksInPlace
  <2>2. sources # 0 => tracks <= sources
    BY <2>1 DEF PlayingInPlace
  <2>3. sources # 0 /\ tracks = sources => \A s \in Stem : gain[sources][s] = Shown(s)
    BY DEF MixerInPlace
  <2> QED BY <2>1, <2>2, <2>3 DEF HeardAsShown, SoundInPlace
<1> QED BY <1>1, PageIsSafe, PTL

\* However late a fetch answers, the tracks are those of the job the player is
\* open on and the scrubber is on them (load, seek, pause and the interval).
THEOREM PlayerStaysOnItsJob == AudioSpec => []PlayerIsOfItsJob
<1>1. PlayerInvariant => PlayerIsOfItsJob
  <2> SUFFICES ASSUME PlayerInvariant PROVE PlayerIsOfItsJob
    OBVIOUS
  <2>1. position \in Int
    BY DEF PlayerInvariant, Typed, ClockTyped
  <2> QED BY <2>1
      DEF PlayerInvariant, TracksInPlace, PlayingInPlace, PlayerIsOfItsJob
<1> QED BY <1>1, PageIsSafe, PTL

\* However many times the key is asked for, and however the answers overtake
\* each other, a console in front of a service with a key has it, has said that
\* it has none, or is still asking for the first time (loadAudioKey).
THEOREM NoAskingEndsInSilence == AudioSpec => []KeyOrNotice
<1>1. KeyInPlace => KeyOrNotice
  BY DEF KeyInPlace
<1> QED BY <1>1, PageIsSafe, PTL

\* A key once there is there for every later upload (loadAudioKey, upload).
THEOREM TheKeyStays == AudioSpec => KeyIsKept
<1> DEFINE Kept == audioKey => audioKey'
<1>1. PlayerInvariant /\ KeyInPlace /\ (PlayerInvariant /\ KeyInPlace)' /\ [AudioNext]_vars
        => [Kept]_vars
  <2> SUFFICES ASSUME KeyInPlace, KeyInPlace', [AudioNext]_vars PROVE Kept
    OBVIOUS
  <2>1. PlayerTypeOK'
    BY DEF KeyInPlace, AudioTypeOK
  <2>2. CASE AudioStep
    BY <2>1, <2>2, KeyKeeps
  <2>3. CASE UNCHANGED audioVars
    BY <2>3 DEF audioVars
  <2> QED BY <2>2, <2>3 DEF AudioNext, vars
<1> HIDE DEF Kept
<1>2. AudioSpec => [][Kept]_vars
  BY <1>1, PageIsSafe, PTL DEF AudioSpec
<1> QED BY <1>2 DEF KeyIsKept, Kept
===============================================================================
