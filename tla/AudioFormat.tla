---------------------------- MODULE AudioFormat ----------------------------
(***************************************************************************)
(* The sealed form in which audio crosses the wire and rests in the        *)
(* bucket: a header, then frames, each sealing one chunk with its place in *)
(* the stream.  Two programs write it (encrypt_file of the worker,         *)
(* encryptFile of the console) and three places read it (the worker, the   *)
(* stem player, the console's download).  A behaviour follows one object   *)
(* from its sealing through whatever storage and transfer do to it to its  *)
(* opening.                                                                *)
(*                                                                         *)
(* The cipher is ideal: a frame opens only under the key that sealed it,   *)
(* unaltered, and to what was sealed.  Byte positions within a frame       *)
(* matter to nothing else, so an altered or cut frame is just not intact.  *)
(***************************************************************************)
EXTENDS Integers, Sequences, SequencesExt

CONSTANTS
  Byte,
  Audio,      \* the files, sequences of bytes
  Chunk,      \* CHUNK, the same on both sides: the console checks it
  Key,        \* audio keys
  SealKey,    \* the AUDIO_KEY of the time of sealing
  NoKey,      \* none configured, or not known to the console
  Reader,     \* the places that open the object
  MaxDamage   \* how often the stored object is damaged

ASSUME AudioFormatAssumption ==
  /\ Audio \subseteq Seq(Byte)
  /\ Chunk \in Nat \ {0}
  /\ SealKey \in Key /\ NoKey \notin Key
  /\ Reader \subseteq {"worker", "player", "download"}
  /\ MaxDamage \in Nat

VARIABLES
  audio,      \* the plain file
  writer,     \* who seals it; "none" for an object stored in the clear
  reader,     \* who opens it
  key,        \* the key the reader has
  step,       \* where the object is
  at,         \* encrypt_file: bytes read from the file
  buf,        \* encrypt_file: the part of a chunk read_full has filled
  pending,    \* encrypt_file: the chunk held back, empty for None
  index,      \* the index of the next frame, of the writer, then the reader
  header,     \* whether the object begins with MAGIC
  stream,     \* its frames
  damage,     \* how often it was damaged
  opened      \* what the reader has opened so far

fileVars  == <<audio, writer, reader, key>>
sealVars  == <<at, buf, pending>>
vars == <<fileVars, sealVars, step, index, header, stream, damage, opened>>

Nonce    == 24
Header   == 9
Tag      == 16
MinFrame == Nonce + Header + Tag
MaxFrame == MinFrame + Chunk

Frame(i, last, plain) ==
  [index |-> i, last |-> last, plain |-> plain, key |-> SealKey, intact |-> TRUE]

SealedLength(f) == Nonce + Header + Len(f.plain) + Tag

Frames == [index : Nat, last : BOOLEAN, plain : Seq(Byte), key : Key, intact : BOOLEAN]

Ended == {"opened", "refused", "passed", "failed"}

AudioTypeOK ==
  /\ audio \in Audio
  /\ writer \in {"worker", "console", "none"}
  /\ reader \in Reader
  /\ key \in Key \cup {NoKey}
  /\ step \in {"seal", "stored", "open"} \cup Ended
  /\ at \in 0..Len(audio)
  /\ buf \in Seq(Byte) /\ pending \in Seq(Byte)
  /\ index \in Nat
  /\ header \in BOOLEAN
  /\ stream \in Seq(Frames)
  /\ damage \in 0..MaxDamage
  /\ opened \in Seq(Byte)

\* An upload is opened by the worker, a stem by the console; objects older
\* than the audio key lie in the clear.
ReadersOf(w) ==
  CASE w = "console" -> {"worker"}
    [] w = "worker"  -> {"player", "download"}
    [] w = "none"    -> {"worker", "player", "download"}

Init ==
  /\ audio \in Audio
  /\ writer \in {"worker", "console", "none"}
  /\ reader \in Reader \cap ReadersOf(writer)
  /\ key \in Key \cup {NoKey}
  /\ step = IF writer = "none" THEN "stored" ELSE "seal"
  /\ at = 0 /\ buf = <<>> /\ pending = <<>>
  /\ index = 0
  /\ header = (writer # "none")
  /\ stream = <<>> /\ damage = 0 /\ opened = <<>>

-------------------------------------------------------------------------------
(* Sealing.                                                                *)

Lesser(m, n) == IF m < n THEN m ELSE n

PutFrame(last, plain) ==
  /\ stream' = Append(stream, Frame(index, last, plain))
  /\ index' = index + 1

\* encrypt_file.  A read may return less than it was asked for; read_full
\* goes on until the chunk is full or the file ends.
Read(n) ==
  /\ step = "seal" /\ writer = "worker"
  /\ n \in 1..(Chunk - Len(buf)) /\ at + n <= Len(audio)
  /\ buf' = buf \o SubSeq(audio, at + 1, at + n)
  /\ at' = at + n
  /\ UNCHANGED <<fileVars, pending, step, index, header, stream, damage, opened>>

\* Mutated form of ReadFull: a single read.
ReadOnce == buf # <<>> \/ at = Len(audio)

ReadFull == Len(buf) = Chunk \/ at = Len(audio)

\* A chunk is held back until the next read tells whether it is the last.
HoldBack ==
  /\ step = "seal" /\ writer = "worker"
  /\ ReadFull /\ buf # <<>>
  /\ IF pending = <<>> THEN UNCHANGED <<stream, index>>
                       ELSE PutFrame(FALSE, pending)
  /\ pending' = buf /\ buf' = <<>>
  /\ UNCHANGED <<fileVars, at, step, header, damage, opened>>

\* Mutated form of InputEnds: the frame is not marked as the last.
InputEndsUnmarked ==
  /\ step = "seal" /\ writer = "worker"
  /\ ReadFull /\ buf = <<>>
  /\ PutFrame(FALSE, pending)
  /\ pending' = <<>> /\ step' = "stored"
  /\ UNCHANGED <<fileVars, at, buf, header, damage, opened>>

\* Nothing was read: the chunk held back is the last.  An empty file still
\* gets one frame.
InputEnds ==
  /\ step = "seal" /\ writer = "worker"
  /\ ReadFull /\ buf = <<>>
  /\ IF pending # <<>> \/ index = 0 THEN PutFrame(TRUE, pending)
                                    ELSE UNCHANGED <<stream, index>>
  /\ pending' = <<>> /\ step' = "stored"
  /\ UNCHANGED <<fileVars, at, buf, header, damage, opened>>

\* encryptFile: Math.max(1, Math.ceil(size / chunk)) slices of the file.
Total    == IF audio = <<>> THEN 1 ELSE (Len(audio) + Chunk - 1) \div Chunk
Slice(i) == SubSeq(audio, i * Chunk + 1, Lesser((i + 1) * Chunk, Len(audio)))

SealSlice ==
  /\ step = "seal" /\ writer = "console"
  /\ PutFrame(index = Total - 1, Slice(index))
  /\ step' = IF index = Total - 1 THEN "stored" ELSE step
  /\ UNCHANGED <<fileVars, sealVars, header, damage, opened>>

-------------------------------------------------------------------------------
(* What storage and transfer may do to the sealed object.                  *)

Damaged(s) ==
  /\ step = "stored" /\ damage < MaxDamage
  /\ stream' = s /\ damage' = damage + 1
  /\ UNCHANGED <<fileVars, sealVars, step, index, header, opened>>

Lose(i)    == Damaged(RemoveAt(stream, i))
Repeat(i)  == Damaged(InsertAt(stream, i, stream[i]))
Swap(i, j) == Damaged([stream EXCEPT ![i] = stream[j], ![j] = stream[i]])
Cut(i)     == Damaged(SubSeq(stream, 1, i - 1))
Garble(i)  == Damaged([stream EXCEPT ![i] = [stream[i] EXCEPT !.intact = FALSE]])

GarbleHeader ==
  /\ step = "stored" /\ damage < MaxDamage /\ header
  /\ header' = FALSE /\ damage' = damage + 1
  /\ UNCHANGED <<fileVars, sealVars, step, index, stream, opened>>

-------------------------------------------------------------------------------
(* Opening.                                                                *)

\* How each place tells a sealed object from one in the clear: process().
WorkerStarts == IF key # NoKey /\ header THEN "open" ELSE "passed"

\* Mutated form of PlayerStarts: the player goes by its key alone.
PlayerStartsByKey ==
  IF key = NoKey THEN "passed" ELSE IF header THEN "open" ELSE "refused"

\* The stem player goes by what arrived.
PlayerStarts ==
  IF ~header THEN "passed" ELSE IF key = NoKey THEN "refused" ELSE "open"

\* The console's download goes by its key; decryptBytes looks at the header.
DownloadStarts ==
  IF key = NoKey THEN "passed" ELSE IF header THEN "open" ELSE "refused"

Arrive ==
  /\ step = "stored"
  /\ step' = CASE reader = "worker"   -> WorkerStarts
              [] reader = "player"   -> PlayerStarts
              [] reader = "download" -> DownloadStarts
  /\ index' = 0
  /\ UNCHANGED <<fileVars, sealVars, header, stream, damage, opened>>

\* Mutated form of Plausible: the largest frame is refused.
PlausibleExclusive(f) == SealedLength(f) \in MinFrame..(MaxFrame - 1)

\* Only decrypt_file has an upper bound.
Plausible(f) ==
  /\ SealedLength(f) >= MinFrame
  /\ reader = "worker" => SealedLength(f) <= MaxFrame

\* Mutated form of Genuine: the index inside the frame is not looked at.
GenuineAnywhere(f) == Plausible(f) /\ f.intact /\ f.key = key

Genuine(f) == Plausible(f) /\ f.intact /\ f.key = key /\ f.index = index

OpenFrame ==
  /\ step = "open" /\ index < Len(stream)
  /\ LET f == stream[index + 1] IN
       /\ Genuine(f)
       /\ opened' = opened \o f.plain
       /\ step' = IF f.last THEN "opened" ELSE step
       /\ index' = IF f.last THEN index ELSE index + 1
  /\ UNCHANGED <<fileVars, sealVars, header, stream, damage>>

\* The stream ends without a last frame, or a frame is not what it should be.
Refuse ==
  /\ step = "open"
  /\ index < Len(stream) => ~Genuine(stream[index + 1])
  /\ step' = "refused"
  /\ UNCHANGED <<fileVars, sealVars, index, header, stream, damage, opened>>

\* Any read or write of a file, or the transfer, fails.
IoFails ==
  /\ step \in {"seal", "open"}
  /\ step' = "failed"
  /\ UNCHANGED <<fileVars, sealVars, index, header, stream, damage, opened>>

-------------------------------------------------------------------------------

SealStep ==
  \/ \E n \in 1..Chunk : Read(n)
  \/ HoldBack \/ InputEnds \/ SealSlice

DamageStep ==
  \/ \E i \in DOMAIN stream : Lose(i) \/ Repeat(i) \/ Cut(i) \/ Garble(i)
  \/ \E i, j \in DOMAIN stream : Swap(i, j)
  \/ GarbleHeader

OpenStep == Arrive \/ OpenFrame \/ Refuse

Next == SealStep \/ DamageStep \/ OpenStep \/ IoFails

Spec == Init /\ [][Next]_vars
===============================================================================
