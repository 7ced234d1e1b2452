--------------------------- MODULE AudioProperties ---------------------------
(***************************************************************************)
(* What must hold of sealed audio, and the invariant it is proved from.    *)
(***************************************************************************)
EXTENDS AudioFormat

\* Frames lost, repeated, swapped, cut off or altered never open to other
\* audio (crypto.rs, lines 18 to 22); and as decrypt_file and decryptBytes go
\* along, what they have let through is a beginning of the file.
NeverOtherAudio ==
  /\ step \in {"open", "refused", "failed"} => IsPrefix(opened, audio)
  /\ step = "opened" => opened = audio

\* An object nothing happened to opens in every place that has its key: files
\* empty, shorter than a chunk or ending on the edge of one included.
Undamaged == writer # "none" /\ damage = 0

IntactOpens == Undamaged /\ key = SealKey => step \notin {"refused", "passed"}

\* Worker and console write the same frames, however reads are cut short.
Canonical == [i \in 1..Total |-> Frame(i - 1, i = Total, Slice(i - 1))]

WritersAgree == Undamaged /\ step = "stored" => stream = Canonical

\* "Objects written before the audio key was turned on are plaintext and have
\* to pass through untouched" (audio-crypto.ts, lines 44 and 45): for every
\* reader, and for those that ask isSealed or is_encrypted_file first.
ClearPasses == writer = "none" => step # "refused"

ClearPassesWhereAsked == reader # "download" => ClearPasses

-------------------------------------------------------------------------------

\* What a frame says of the file, wherever it has got to in the stream.
Sound(f) ==
  /\ f.index * Chunk <= Len(audio)
  /\ f.last <=> (f.index + 1) * Chunk >= Len(audio)
  /\ f.plain = Slice(f.index)

StreamSound == \A i \in DOMAIN stream : Sound(stream[i])

\* encrypt_file: the chunk held back and the one being read are consecutive
\* parts of the file, and the former is full unless the file has ended.
HeldTo == at - Len(buf)

WorkerSeals ==
  step = "seal" /\ writer = "worker" =>
    /\ Len(buf) <= Chunk /\ HeldTo >= 0
    /\ buf = SubSeq(audio, HeldTo + 1, at)
    /\ pending = SubSeq(audio, index * Chunk + 1, HeldTo)
    /\ IF pending = <<>>
         THEN index = 0 /\ HeldTo = 0
         ELSE /\ index * Chunk < HeldTo /\ HeldTo <= (index + 1) * Chunk
              /\ HeldTo = (index + 1) * Chunk \/ HeldTo = Len(audio)

ConsoleSeals == step = "seal" /\ writer = "console" => index < Total

\* The reader has opened exactly the chunks before its index.
ReaderInPlace ==
  /\ step \in {"seal", "stored"} => opened = <<>>
  /\ step = "open" =>
       /\ index * Chunk <= Len(audio)
       /\ opened = SubSeq(audio, 1, index * Chunk)

AudioInvariant ==
  /\ AudioTypeOK
  /\ StreamSound
  /\ WorkerSeals /\ ConsoleSeals
  /\ ReaderInPlace /\ NeverOtherAudio
===============================================================================
