------------------------------ MODULE StemPlayer -----------------------------
(***************************************************************************)
(* The console's player: one for the page, opened and closed on one job    *)
(* after another while the fetches of earlier openings are still on their  *)
(* way.  Every opening has an AudioContext of its own, known here by the   *)
(* number of the opening; 0 is none.  Time is counted in ticks of          *)
(* the scrubber and the track is Duration of them long.                    *)
(***************************************************************************)
EXTENDS Integers, FiniteSets

CONSTANTS
  Job, Stem,
  Duration,    \* length of every track
  Loud,        \* the values of a volume slider, 1 among them
  NoJob,       \* null
  MaxLoads, MaxClicks   \* bounds on openings and on clicks in the player

ASSUME PlayerAssumption ==
  /\ NoJob \notin Job
  /\ Duration \in Nat \ {0} /\ 1 \in Loud /\ Loud \subseteq Nat \ {0}
  /\ MaxLoads \in Nat /\ MaxClicks \in Nat

VARIABLES
  service,     \* how the service was started: see Service
  jobId, loading, playing, position, duration,   \* the fields of StemPlayer
  error,       \* the opening whose failure is shown, 0 for none
  tracks,      \* the opening the tracks were decoded in
  muted, volume,   \* of the tracks
  gain,        \* the GainNodes of every opening's tracks
  ctx,         \* the current context
  sources,     \* the context in which sources have been started
  from,        \* startedFrom
  elapsed,     \* currentTime - startedAt
  timer,       \* whether the interval is set
  loads,       \* the openings: of which job, with a key or not, how far
  opened,      \* how many there were
  clicks

open   == <<jobId, loading, error>>
mixer  == <<muted, volume, gain>>
sound  == <<sources, from, elapsed>>
play   == <<playing, position, timer>>
playerVars == <<service, open, play, duration, tracks, mixer, ctx, sound, loads, opened, clicks>>

Opening == 1..MaxLoads

\* Without an audio key, with one, or with one and another chunk size than the
\* console's; with a key its stems are sealed.
Service == {"clear", "keyed", "other chunk"}
Keyed   == service # "clear"

PlayerTypeOK ==
  /\ service \in Service
  /\ jobId \in Job \cup {NoJob} /\ loading \in BOOLEAN /\ playing \in BOOLEAN
  /\ timer \in BOOLEAN /\ duration \in {0, Duration}
  /\ position \in -1..Duration /\ from \in 0..Duration /\ elapsed \in -1..(Duration + 1)
  /\ {error, tracks, ctx, sources, opened} \subseteq Opening \cup {0}
  /\ muted \subseteq Stem /\ volume \in [Stem -> Loud]
  /\ gain \in [Opening -> [Stem -> Loud \cup {0}]]
  /\ \A n \in Opening : loads[n].job \in Job \cup {NoJob}
  /\ clicks \in 0..MaxClicks

PlayerInit ==
  /\ service \in Service
  /\ jobId = NoJob /\ loading = FALSE /\ playing = FALSE /\ position = 0
  /\ duration = 0 /\ error = 0 /\ tracks = 0
  /\ muted = {} /\ volume = [s \in Stem |-> 1] /\ gain = [n \in Opening |-> volume]
  /\ ctx = 0 /\ sources = 0 /\ from = 0 /\ elapsed = 0 /\ timer = FALSE
  /\ loads = [n \in Opening |-> [job |-> NoJob, key |-> FALSE, pending |-> FALSE]]
  /\ opened = 0 /\ clicks = 0

Click == clicks < MaxClicks /\ clicks' = clicks + 1

-------------------------------------------------------------------------------
(* Opening and closing.                                                    *)

\* What close() leaves alone is what a load sets next.
Silence ==
  /\ sources' = 0 /\ timer' = FALSE /\ playing' = FALSE
  /\ position' = 0 /\ duration' = 0 /\ tracks' = 0
  /\ UNCHANGED <<from, elapsed, mixer>>

\* Mutated form of Close: the sources of the closed player play on.
CloseQuietly ==
  /\ jobId' = NoJob /\ loading' = FALSE /\ error' = 0 /\ ctx' = 0
  /\ timer' = FALSE /\ playing' = FALSE /\ position' = 0 /\ duration' = 0 /\ tracks' = 0
  /\ UNCHANGED <<service, from, elapsed, mixer, sources, loads, opened, clicks>>

Close ==
  /\ jobId' = NoJob /\ loading' = FALSE /\ error' = 0 /\ ctx' = 0
  /\ Silence
  /\ UNCHANGED <<service, loads, opened, clicks>>

Load(job, key) ==
  /\ opened < MaxLoads /\ opened' = opened + 1
  /\ Silence
  /\ jobId' = job /\ loading' = TRUE /\ error' = 0 /\ ctx' = opened'
  /\ loads' = [loads EXCEPT ![opened'] = [job |-> job, key |-> key, pending |-> TRUE]]
  /\ UNCHANGED <<service, clicks>>

\* The button of a job.
TogglePlayer(job, key) ==
  \/ jobId = job /\ Close
  \/ jobId # job /\ Load(job, key)

Settle(n) ==
  /\ loads[n].pending
  /\ loads' = [loads EXCEPT ![n].pending = FALSE]

\* Mutated form of LoadDone: whichever job's player is open.
LoadDoneAnyJob(n) ==
  /\ Settle(n) /\ (Keyed => loads[n].key)
  /\ tracks' = n /\ duration' = Duration /\ loading' = FALSE
  /\ muted' = {} /\ volume' = [s \in Stem |-> 1]
  /\ UNCHANGED <<service, jobId, error, play, gain, ctx, sound, opened, clicks>>

\* A job's player that was closed and opened again is taken for the same one.
\* The tracks come with GainNodes of their own, as no one has touched them yet;
\* sources that have started stay connected to those they started with.
LoadDone(n) ==
  /\ Settle(n) /\ (Keyed => loads[n].key)
  /\ IF jobId = loads[n].job
       THEN /\ tracks' = n /\ duration' = Duration /\ loading' = FALSE
            /\ muted' = {} /\ volume' = [s \in Stem |-> 1]
       ELSE UNCHANGED <<tracks, duration, loading, muted, volume>>
  /\ UNCHANGED <<service, jobId, error, play, gain, ctx, sound, opened, clicks>>

\* Of whatever job's player is open.
LoadFails(n) ==
  /\ Settle(n)
  /\ error' = n /\ loading' = FALSE
  /\ UNCHANGED <<service, jobId, play, duration, tracks, mixer, ctx, sound, opened, clicks>>

-------------------------------------------------------------------------------
(* Playing.                                                                *)

Least(a, b) == IF a <= b THEN a ELSE b
Most(a, b)  == IF a >= b THEN a ELSE b

\* Mutated form of Now: nothing stops it at the end of the track.
NowPastTheEnd == IF ctx = 0 \/ ~playing THEN position ELSE from + elapsed

Now == IF ctx = 0 \/ ~playing THEN position ELSE Least(from + elapsed, duration)

\* Whether play starts its sources: a gain of another context or an offset
\* below zero throws, after the old sources have been stopped.
Starts(start) == tracks = ctx /\ start >= 0

\* Sources start a hair in the future: currentTime is still before startedAt.
Play(start) ==
  IF ctx = 0 \/ tracks = 0 THEN UNCHANGED <<playing, timer, sound>>
  ELSE LET at == IF start >= duration THEN 0 ELSE start
       IN  IF Starts(at)
             THEN /\ sources' = ctx /\ from' = at /\ elapsed' = -1
                  /\ playing' = TRUE /\ timer' = TRUE
             ELSE sources' = 0 /\ UNCHANGED <<from, elapsed, playing, timer>>

Stop == sources' = 0 /\ playing' = FALSE /\ timer' = FALSE /\ UNCHANGED <<from, elapsed>>

Pause == Stop /\ position' = Now

ControlsShown == jobId # NoJob /\ ~loading /\ error = 0

Toggle ==
  /\ Click /\ ControlsShown
  /\ \/ playing /\ Pause
     \/ ~playing /\ Play(position) /\ UNCHANGED position
  /\ UNCHANGED <<service, open, duration, tracks, mixer, ctx, loads, opened>>

Seek(seconds) ==
  /\ Click /\ ControlsShown
  /\ position' = Least(Most(0, seconds), duration)
  /\ IF playing THEN Play(position') ELSE UNCHANGED <<playing, timer, sound>>
  /\ UNCHANGED <<service, open, duration, tracks, mixer, ctx, loads, opened>>

\* Mutated form of Tick: the end of the track goes unnoticed.
TickOn ==
  /\ timer
  /\ IF ~playing THEN timer' = FALSE /\ UNCHANGED position
                 ELSE position' = Most(0, Now) /\ UNCHANGED timer
  /\ UNCHANGED <<service, open, playing, sound, duration, tracks, mixer, ctx, loads, opened, clicks>>

Tick ==
  /\ timer
  /\ IF ~playing THEN timer' = FALSE /\ UNCHANGED <<playing, position, sound>>
     ELSE IF Most(0, Now) >= duration THEN Stop /\ position' = 0
     ELSE position' = Most(0, Now) /\ UNCHANGED <<playing, timer, sound>>
  /\ UNCHANGED <<service, open, duration, tracks, mixer, ctx, loads, opened, clicks>>

\* The clock of the context; how far beyond the end of the track is all one.
TimePasses ==
  /\ ctx # 0 /\ playing /\ from + elapsed <= Duration
  /\ elapsed' = elapsed + 1
  /\ UNCHANGED <<service, open, play, sources, from, duration, tracks, mixer, ctx, loads, opened, clicks>>

-------------------------------------------------------------------------------
(* The mixer.                                                              *)

\* setMuted of every track, and setVolume of one: on the GainNodes of the
\* tracks that are shown.
Mute(silent) ==
  /\ muted' = silent
  /\ gain' = [gain EXCEPT ![tracks] = [s \in Stem |-> IF s \in silent THEN 0 ELSE volume[s]]]
  /\ UNCHANGED volume

SetVolume(s, v) ==
  /\ volume' = [volume EXCEPT ![s] = v]
  /\ gain' = IF s \in muted THEN gain ELSE [gain EXCEPT ![tracks][s] = v]
  /\ UNCHANGED muted

Solo(s) == Mute(IF muted = Stem \ {s} THEN {} ELSE Stem \ {s})

Mix ==
  /\ Click /\ ControlsShown /\ tracks # 0
  /\ \E s \in Stem :
       \/ Mute(IF s \in muted THEN muted \ {s} ELSE muted \cup {s})
       \/ Solo(s)
       \/ \E v \in Loud : SetVolume(s, v)
  /\ UNCHANGED <<service, open, play, duration, tracks, ctx, sound, loads, opened>>

PlayerStep ==
  \/ \E n \in Opening : LoadDone(n) \/ LoadFails(n)
  \/ Toggle \/ (\E seconds \in 0..Duration : Seek(seconds))
  \/ Tick \/ TimePasses \/ Mix

\* The interval fires and time goes on; nothing is assumed of the user or of
\* the fetches.
PlayerFairness == WF_playerVars(Tick) /\ WF_playerVars(TimePasses)
===============================================================================
