----------------------------- MODULE ConsoleAudio ----------------------------
(***************************************************************************)
(* The audio key in the console, read by every upload and every opening of *)
(* the player, whether it is there already or not.  It is asked for when   *)
(* the page is opened and again with every change of the filters, as the   *)
(* effect that asks also starts the poll and so depends on them; each time *)
(* three times at most, beside the askings that are still under way.       *)
(***************************************************************************)
EXTENDS StemPlayer

CONSTANT MaxAskings    \* bound on the askings under way at one time

ASSUME AudioAssumption == MaxAskings \in Nat \ {0}

VARIABLES
  asking,      \* where each call of loadAudioKey is, with its attempt
  audioKey,    \* whether there is one
  told,        \* whether a notice about the key (chunkMismatch, audioKeyFailed) was ever shown
  upload       \* where the upload is, and what it sends

audioVars == <<asking, audioKey, told, upload>>
vars == <<playerVars, audioVars>>

Asking == 1..MaxAskings

AudioTypeOK ==
  /\ PlayerTypeOK
  /\ asking \in [Asking -> [at : {"none", "request", "pause", "over"}, attempt : 0..2]]
  /\ audioKey \in BOOLEAN /\ told \in BOOLEAN
  /\ upload \in {"idle", "sealing", "sealed", "clear"}

Requested(n) == [at |-> "request", attempt |-> n]

AudioInit ==
  /\ PlayerInit
  /\ asking = [a \in Asking |-> IF a = 1 THEN Requested(0) ELSE [at |-> "none", attempt |-> 0]]
  /\ audioKey = FALSE /\ told = FALSE /\ upload = "idle"

\* Mutated form of FiltersChange: every asking starts without a key.
FiltersChangeForgets(a) ==
  /\ asking[a].at \in {"none", "over"}
  /\ asking' = [asking EXCEPT ![a] = Requested(0)]
  /\ audioKey' = FALSE
  /\ UNCHANGED <<playerVars, told, upload>>

\* What the effect does once more when the filters change.
FiltersChange(a) ==
  /\ asking[a].at \in {"none", "over"}
  /\ asking' = [asking EXCEPT ![a] = Requested(0)]
  /\ UNCHANGED <<playerVars, audioKey, told, upload>>

\* The service answers with its key, or with null.
KeyArrives(a) ==
  /\ asking[a].at = "request"
  /\ asking' = [asking EXCEPT ![a] = [at |-> "over", attempt |-> 0]]
  /\ audioKey' = (service = "keyed")
  /\ told' = (told \/ service = "other chunk")
  /\ UNCHANGED <<playerVars, upload>>

\* Mutated form of KeyFails: the last failure is as quiet as the first.
KeyFailsQuietly(a) ==
  /\ asking[a].at = "request"
  /\ asking' = [asking EXCEPT ![a].at = IF asking[a].attempt < 2 THEN "pause" ELSE "over"]
  /\ UNCHANGED <<playerVars, audioKey, told, upload>>

KeyFails(a) ==
  /\ asking[a].at = "request"
  /\ IF asking[a].attempt < 2
       THEN /\ asking' = [asking EXCEPT ![a].at = "pause"]
            /\ UNCHANGED told
       ELSE /\ asking' = [asking EXCEPT ![a] = [at |-> "over", attempt |-> 0]]
            /\ told' = TRUE
  /\ UNCHANGED <<playerVars, audioKey, upload>>

AskAgain(a) ==
  /\ asking[a].at = "pause"
  /\ asking' = [asking EXCEPT ![a] = Requested(asking[a].attempt + 1)]
  /\ UNCHANGED <<playerVars, audioKey, told, upload>>

Upload ==
  /\ upload = "idle"
  /\ upload' = IF audioKey THEN "sealing" ELSE "clear"
  /\ UNCHANGED <<playerVars, asking, audioKey, told>>

\* Sealing may fail; then nothing is sent.
SealUpload ==
  /\ upload = "sealing" /\ upload' \in {"sealed", "idle"}
  /\ UNCHANGED <<playerVars, asking, audioKey, told>>

UploadEnds ==
  /\ upload \in {"sealed", "clear"} /\ upload' = "idle"
  /\ UNCHANGED <<playerVars, asking, audioKey, told>>

AudioStep ==
  \/ \E a \in Asking : FiltersChange(a) \/ KeyArrives(a) \/ KeyFails(a) \/ AskAgain(a)
  \/ Upload \/ SealUpload \/ UploadEnds

AudioNext ==
  \/ AudioStep
  \/ /\ \/ PlayerStep
        \/ \E job \in Job : TogglePlayer(job, audioKey)
     /\ UNCHANGED audioVars

AudioSpec     == AudioInit /\ [][AudioNext]_vars
AudioFairSpec == AudioSpec /\ PlayerFairness

-------------------------------------------------------------------------------

\* Sound comes only from the player that is open and says it plays, never from
\* one that was closed, and each stem as loud as its controls show, whatever
\* was muted or turned down in earlier openings; except after tracks of an
\* earlier opening of the same job have come late and replaced those that play
\* (load, play, close, setMuted, setVolume; MutedIsSilent is about that case).
Shown(s) == IF s \in muted THEN 0 ELSE volume[s]

HeardAsShown ==
  /\ sources # 0 => /\ playing /\ sources = ctx /\ jobId = loads[sources].job
                    /\ tracks # 0 /\ tracks <= sources
  /\ playing /\ tracks = ctx => sources # 0
  /\ sources # 0 /\ tracks = sources => \A s \in Stem : gain[sources][s] = Shown(s)

\* "mute this stem" (i18n.svelte.ts): a stem shown as muted is not heard
\* (setMuted, and load where it replaces the tracks).
MutedIsSilent == sources # 0 => \A s \in muted : gain[sources][s] = 0

\* The controls are those of the job the player is open on, and the scrubber
\* stays on the track; only a pause in the first instants of a track leaves it
\* below zero, where nothing plays until it is moved (load, pause and seek).
PlayerIsOfItsJob ==
  /\ tracks # 0 => loads[tracks].job = jobId /\ duration = Duration
  /\ position <= duration
  /\ position < 0 => ~playing

\* A track that is left alone ends: the interval notices, and stops it.
PlaybackEnds == playing ~> ~playing

\* With a key in the service the console has it, has said that it has none, or
\* is still asking for the first time, however many askings overlap and in
\* whatever order they are answered: none gives up in silence (loadAudioKey of
\* +page.svelte).
KeyOrNotice ==
  Keyed /\ ~audioKey /\ ~told =>
    /\ asking[1].at # "none"
    /\ \A a \in Asking : asking[a].at # "over"

\* Once the console has its key none of the askings that follow or overtake each
\* other takes it away, so no upload falls back to the clear (loadAudioKey, run
\* again by the effect of +page.svelte with every change of the filters).
KeyIsKept == [][audioKey => audioKey']_vars

\* The comment in load: "a different job's player may have been opened while
\* this was loading".  An error shown is one of the job whose player is open.
ErrorIsOfItsJob ==
  error # 0 /\ jobId # NoJob => loads[error].job = jobId
===============================================================================
