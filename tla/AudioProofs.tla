----------------------------- MODULE AudioProofs -----------------------------
(***************************************************************************)
(* A sealed object never opens to other audio, one nothing happened to     *)
(* opens, and one in the clear passes where its header is asked for: for   *)
(* every file, chunk size, number of damages and reader.                   *)
(***************************************************************************)
EXTENDS AudioProperties, SequenceTheorems, TLAPS

-------------------------------------------------------------------------------
(* Products with the chunk size, the only arithmetic there is.             *)

LEMMA NextChunk ==
  ASSUME NEW i \in Nat
  PROVE  /\ i * Chunk \in Nat
         /\ (i + 1) * Chunk = i * Chunk + Chunk
BY AudioFormatAssumption

\* The last of the console's slices is the one that reaches the file's end.
LEMMA TotalCovers ==
  ASSUME NEW L \in Nat \ {0}, NEW C \in Nat \ {0}, NEW i \in Nat,
         i < (L + C - 1) \div C
  PROVE  /\ i * C < L
         /\ i = (L + C - 1) \div C - 1 <=> (i + 1) * C >= L
<1> DEFINE T == (L + C - 1) \div C
           R == (L + C - 1) % C
<1>1. /\ T \in Nat /\ R \in Nat /\ R < C
      /\ L + C - 1 = C * T + R
  OBVIOUS
<1>2. (i + 1) * C = i * C + C /\ i * C \in Nat
  OBVIOUS
<1>3. (i + 1) * C <= C * T
  BY <1>1
<1>4. i * C < L
  BY <1>1, <1>2, <1>3
<1>5. ASSUME i = T - 1 PROVE (i + 1) * C >= L
  BY <1>1, <1>5
<1>6. ASSUME i # T - 1 PROVE ~((i + 1) * C >= L)
  <2>1. i + 2 <= T
    BY <1>1, <1>6
  <2>2. (i + 2) * C <= C * T
    BY <1>1, <2>1
  <2>3. (i + 2) * C = (i + 1) * C + C
    OBVIOUS
  <2> QED BY <1>1, <2>2, <2>3
<1> QED BY <1>4, <1>5, <1>6

-------------------------------------------------------------------------------
(* Frames.                                                                 *)

\* A chunk that lies within the file is a sequence of bytes; so is any part.
LEMMA PartOfFile ==
  ASSUME AudioTypeOK, NEW m \in Nat, NEW n \in Nat, n <= Len(audio)
  PROVE  /\ SubSeq(audio, m + 1, n) \in Seq(Byte)
         /\ Len(SubSeq(audio, m + 1, n)) = IF m < n THEN n - m ELSE 0
<1>1. audio \in Seq(Byte)
  BY AudioFormatAssumption DEF AudioTypeOK
<1>2. \A i \in (m + 1)..n : audio[i] \in Byte
  BY <1>1
<1> QED BY <1>2, SubSeqProperties

LEMMA SliceType ==
  ASSUME AudioTypeOK, NEW i \in Nat
  PROVE  Slice(i) \in Seq(Byte)
<1>1. i * Chunk \in Nat /\ (i + 1) * Chunk \in Nat
  BY AudioFormatAssumption
<1>2. Len(audio) \in Nat
  BY AudioFormatAssumption DEF AudioTypeOK
<1>3. Lesser((i + 1) * Chunk, Len(audio)) \in Nat
      /\ Lesser((i + 1) * Chunk, Len(audio)) <= Len(audio)
  BY <1>1, <1>2 DEF Lesser
<1> QED BY <1>1, <1>3, PartOfFile DEF Slice

LEMMA FrameType ==
  ASSUME NEW i \in Nat, NEW last \in BOOLEAN, NEW plain \in Seq(Byte)
  PROVE  Frame(i, last, plain) \in Frames
BY AudioFormatAssumption DEF Frame, Frames

\* Writing a sound frame keeps the stream sound.
LEMMA PutSound ==
  ASSUME AudioTypeOK, StreamSound,
         NEW last \in BOOLEAN, NEW plain \in Seq(Byte),
         PutFrame(last, plain), audio' = audio,
         Sound(Frame(index, last, plain))
  PROVE  stream' \in Seq(Frames) /\ index' \in Nat /\ StreamSound'
<1>1. Frame(index, last, plain) \in Frames
  BY FrameType DEF AudioTypeOK
<1>2. stream \in Seq(Frames) /\ index \in Nat
  BY DEF AudioTypeOK
<1>3. stream' = Append(stream, Frame(index, last, plain)) /\ index' = index + 1
  BY DEF PutFrame
<1>4. \A i \in DOMAIN stream' :
        \/ stream'[i] = Frame(index, last, plain)
        \/ i \in DOMAIN stream /\ stream'[i] = stream[i]
  <2>1. /\ Len(stream') = Len(stream) + 1
        /\ \A i \in 1..Len(stream) : stream'[i] = stream[i]
        /\ stream'[Len(stream) + 1] = Frame(index, last, plain)
        /\ stream' \in Seq(Frames)
    BY <1>1, <1>2, <1>3, AppendProperties
  <2>2. /\ DOMAIN stream = 1..Len(stream) /\ DOMAIN stream' = 1..Len(stream')
        /\ Len(stream) \in Nat
    BY <1>2, <2>1
  <2>3. \A i \in 1..Len(stream') : i \in 1..Len(stream) \/ i = Len(stream) + 1
    BY <2>1, <2>2
  <2> QED BY <2>1, <2>2, <2>3
<1>5. \A f : Sound(f)' <=> Sound(f)
  BY DEF Sound, Slice, Lesser
<1>6. StreamSound'
  BY <1>4, <1>5 DEF StreamSound
<1> QED BY <1>1, <1>2, <1>3, <1>6

-------------------------------------------------------------------------------
(* Parts of the file.                                                      *)

LEMMA ChunksAdd ==
  ASSUME AudioTypeOK, NEW i \in Nat, i * Chunk <= Len(audio)
  PROVE  SubSeq(audio, 1, i * Chunk) \o Slice(i)
           = SubSeq(audio, 1, Lesser((i + 1) * Chunk, Len(audio)))
<1> DEFINE n == Lesser((i + 1) * Chunk, Len(audio))
<1>1. audio \in Seq(Byte)
  BY AudioFormatAssumption DEF AudioTypeOK
<1>2. i * Chunk \in Nat /\ (i + 1) * Chunk = i * Chunk + Chunk /\ Chunk \in Nat
  BY NextChunk, AudioFormatAssumption
<1>3. n \in (i * Chunk)..Len(audio)
  BY <1>1, <1>2 DEF Lesser
<1>4. 1 \in 1..Len(audio) + 1 /\ i * Chunk \in (1 - 1)..Len(audio)
  BY <1>1, <1>2
<1> HIDE DEF n
<1>5. SubSeq(audio, 1, i * Chunk) \o SubSeq(audio, i * Chunk + 1, n)
        = SubSeq(audio, 1, n)
  BY <1>1, <1>3, <1>4, ConcatAdjacentSubSeq
<1> QED BY <1>5 DEF Slice, n

LEMMA BeginningOfFile ==
  ASSUME AudioTypeOK, NEW n \in 0..Len(audio)
  PROVE  IsPrefix(SubSeq(audio, 1, n), audio)
<1>1. audio \in Seq(Byte)
  BY AudioFormatAssumption DEF AudioTypeOK
<1> DEFINE s == SubSeq(audio, 1, n)
<1>2. s \in Seq(Byte) /\ Len(s) = n
  <2>1. n \in Nat /\ n <= Len(audio) /\ Len(audio) \in Nat
    BY <1>1
  <2>2. s \in Seq(Byte) /\ Len(s) = IF 0 < n THEN n - 0 ELSE 0
    BY <2>1, PartOfFile
  <2> QED BY <2>1, <2>2
<1>3. SubSeq(s, 1, Len(s)) = s
  BY <1>2, SubSeqFull
<1> QED BY <1>1, <1>2, <1>3 DEF IsPrefix

-------------------------------------------------------------------------------
(* The invariant, action by action.                                        *)

\* What is said of the stream speaks of the file and the stream alone.
LEMMA StreamStays ==
  ASSUME StreamSound, audio' = audio, stream' = stream
  PROVE  StreamSound'
BY DEF StreamSound, Sound, Slice, Lesser

LEMMA AudioInit == Init => AudioInvariant
<1> SUFFICES ASSUME Init PROVE AudioInvariant
  OBVIOUS
<1>1. audio \in Seq(Byte) /\ Len(audio) \in Nat /\ Chunk \in Nat \ {0}
  BY AudioFormatAssumption DEF Init
<1>2. AudioTypeOK
  BY <1>1, AudioFormatAssumption DEF Init, AudioTypeOK, Ended
<1>3. StreamSound
  BY DEF Init, StreamSound
<1>4. WorkerSeals
  <2>1. SubSeq(audio, 1, 0) = <<>>
    BY SubSeqEmpty
  <2>2. 0 * Chunk + 1 = 1
    BY <1>1
  <2>3. Len(buf) = 0 /\ at - Len(buf) = 0
    <3>1. buf = <<>> /\ at = 0
      BY DEF Init
    <3>2. Len(buf) = 0
      BY <3>1, EmptySeq, Zenon
    <3>3. at = 0
      BY <3>1
    <3> QED BY <3>2, <3>3
  <2>4. at = 0 /\ buf = <<>> /\ pending = <<>> /\ index = 0
    BY DEF Init
  <2>5. HeldTo = 0 /\ HeldTo + 1 = 1 /\ Len(buf) <= Chunk
    BY <1>1, <2>3 DEF HeldTo
  <2>6. buf = SubSeq(audio, HeldTo + 1, at)
    BY <2>1, <2>4, <2>5
  <2>7. pending = SubSeq(audio, index * Chunk + 1, HeldTo)
    BY <2>1, <2>2, <2>4, <2>5
  <2> QED BY <2>4, <2>5, <2>6, <2>7 DEF WorkerSeals
<1>5. ConsoleSeals
  <2>1. ASSUME audio # <<>> PROVE 0 < (Len(audio) + Chunk - 1) \div Chunk
    <3>1. Len(audio) # 0
      BY <1>1, <2>1
    <3> DEFINE N == Len(audio) + Chunk - 1
    <3>2. N \in Nat /\ N >= Chunk
      BY <1>1, <3>1
    <3>3. /\ N = Chunk * (N \div Chunk) + (N % Chunk)
          /\ (N % Chunk) < Chunk
          /\ N \div Chunk \in Nat
      BY <1>1, <3>2
    <3>4. N \div Chunk # 0
      BY <1>1, <3>2, <3>3
    <3> QED BY <3>3, <3>4
  <2> QED BY <2>1 DEF Init, ConsoleSeals, Total
<1>6. ReaderInPlace
  BY DEF Init, ReaderInPlace
<1>7. NeverOtherAudio
  BY DEF Init, NeverOtherAudio
<1> QED BY <1>2, <1>3, <1>4, <1>5, <1>6, <1>7 DEF AudioInvariant

LEMMA ReadKeeps ==
  ASSUME AudioInvariant, NEW n \in 1..Chunk, Read(n)
  PROVE  AudioInvariant'
<1> USE DEF AudioInvariant
<1>1. /\ audio \in Seq(Byte) /\ Len(audio) \in Nat /\ Chunk \in Nat \ {0}
      /\ at \in 0..Len(audio) /\ buf \in Seq(Byte) /\ Len(buf) \in Nat
  BY AudioFormatAssumption DEF AudioTypeOK
<1>2. /\ step = "seal" /\ writer = "worker"
      /\ n \in Nat /\ 1 <= n /\ n + Len(buf) <= Chunk /\ at + n <= Len(audio)
      /\ UNCHANGED <<fileVars, pending, step, index, header, stream, damage, opened>>
      /\ buf' = buf \o SubSeq(audio, at + 1, at + n) /\ at' = at + n
  BY <1>1 DEF Read
<1>3. buf' \in Seq(Byte) /\ Len(buf') = Len(buf) + n
  <2>1. /\ SubSeq(audio, at + 1, at + n) \in Seq(Byte)
        /\ Len(SubSeq(audio, at + 1, at + n)) = n
    BY <1>1, <1>2, PartOfFile
  <2> QED BY <1>1, <1>2, <2>1, ConcatProperties
<1>4. AudioTypeOK'
  BY <1>1, <1>2, <1>3 DEF AudioTypeOK, fileVars
<1>5. StreamSound'
  BY <1>2, StreamStays DEF fileVars
<1>6. WorkerSeals'
  <2>1. /\ HeldTo \in Nat /\ HeldTo <= at /\ HeldTo' = HeldTo
        /\ buf = SubSeq(audio, HeldTo + 1, at)
    BY <1>1, <1>2, <1>3 DEF WorkerSeals, HeldTo
  <2>2. SubSeq(audio, HeldTo + 1, at) \o SubSeq(audio, at + 1, at + n)
          = SubSeq(audio, HeldTo + 1, at + n)
    <3>1. /\ HeldTo + 1 \in 1..Len(audio) + 1
          /\ at \in (HeldTo + 1) - 1..Len(audio)
          /\ at + n \in at..Len(audio)
      BY <1>1, <1>2, <2>1
    <3> HIDE DEF HeldTo
    <3> QED BY <1>1, <3>1, ConcatAdjacentSubSeq
  <2>3. buf' = SubSeq(audio', HeldTo' + 1, at')
    BY <1>2, <2>1, <2>2 DEF fileVars
  <2>4. /\ audio' = audio /\ pending' = pending /\ index' = index
        /\ step = "seal" /\ writer = "worker" /\ Len(buf') <= Chunk
    BY <1>1, <1>2, <1>3 DEF fileVars
  <2>5. HeldTo' >= 0
    BY <2>1
  <2>6. pending' = SubSeq(audio', index' * Chunk + 1, HeldTo')
    BY <2>1, <2>4 DEF WorkerSeals
  <2> QED BY <2>1, <2>3, <2>4, <2>5, <2>6 DEF WorkerSeals
<1>7. ConsoleSeals'
  BY <1>2 DEF ConsoleSeals, fileVars
<1>8. ReaderInPlace' /\ NeverOtherAudio'
  BY <1>2 DEF ReaderInPlace, NeverOtherAudio, fileVars
<1> QED BY <1>4, <1>5, <1>6, <1>7, <1>8

\* What the worker holds back and what it reads, under names of their own.
LEMMA WorkerHolding ==
  ASSUME AudioTypeOK, WorkerSeals, step = "seal", writer = "worker"
  PROVE  /\ audio \in Seq(Byte) /\ Len(audio) \in Nat /\ Chunk \in Nat \ {0}
         /\ index \in Nat /\ index * Chunk \in Nat
         /\ (index + 1) * Chunk = index * Chunk + Chunk
         /\ at \in 0..Len(audio) /\ HeldTo \in 0..at
         /\ Len(buf) = at - HeldTo /\ Len(buf) <= Chunk
         /\ buf = <<>> => HeldTo = at
         /\ buf # <<>> => HeldTo < at
<1>1. /\ audio \in Seq(Byte) /\ Len(audio) \in Nat /\ Chunk \in Nat \ {0}
      /\ index \in Nat /\ at \in 0..Len(audio) /\ buf \in Seq(Byte)
  BY AudioFormatAssumption DEF AudioTypeOK
<1>2. Len(buf) \in Nat /\ HeldTo = at - Len(buf) /\ HeldTo >= 0 /\ Len(buf) <= Chunk
  BY <1>1 DEF WorkerSeals, HeldTo
<1>3. buf = <<>> => Len(buf) = 0
  BY EmptySeq, Zenon
<1>4. buf # <<>> => Len(buf) # 0
  BY <1>1, EmptySeq
<1> HIDE DEF HeldTo
<1>5. index * Chunk \in Nat /\ (index + 1) * Chunk = index * Chunk + Chunk
  BY <1>1, NextChunk
<1> QED BY <1>1, <1>2, <1>3, <1>4, <1>5

LEMMA HoldBackKeeps ==
  ASSUME AudioInvariant, HoldBack
  PROVE  AudioInvariant'
<1> USE DEF AudioInvariant
<1>1. /\ step = "seal" /\ writer = "worker" /\ buf # <<>>
      /\ Len(buf) = Chunk \/ at = Len(audio)
      /\ audio' = audio /\ writer' = writer /\ step' = step /\ at' = at
      /\ pending' = buf /\ buf' = <<>>
      /\ UNCHANGED <<reader, key, header, damage, opened>>
  BY DEF HoldBack, ReadFull, fileVars
<1> DEFINE q == index * Chunk
<1>2. /\ audio \in Seq(Byte) /\ Len(audio) \in Nat /\ Chunk \in Nat \ {0}
      /\ index \in Nat /\ q \in Nat /\ (index + 1) * Chunk = q + Chunk
      /\ at \in 0..Len(audio) /\ HeldTo \in 0..at /\ HeldTo < at
      /\ Len(buf) = at - HeldTo /\ Len(buf) <= Chunk
      /\ buf = SubSeq(audio, HeldTo + 1, at)
      /\ pending = SubSeq(audio, q + 1, HeldTo)
  BY <1>1, WorkerHolding DEF WorkerSeals
<1>3. HeldTo' = at
  <2>1. Len(buf') = 0
    BY <1>1, EmptySeq, Zenon
  <2>2. HeldTo' = at' - Len(buf')
    BY DEF HeldTo
  <2> QED BY <1>1, <1>2, <2>1, <2>2
<1>4. /\ stream' \in Seq(Frames) /\ index' \in Nat /\ StreamSound'
      /\ index' * Chunk = HeldTo /\ (index' + 1) * Chunk = HeldTo + Chunk
  <2>1. CASE pending = <<>>
    <3>1. index = 0 /\ HeldTo = 0 /\ stream' = stream /\ index' = index
      BY <1>1, <2>1 DEF WorkerSeals, HoldBack
    <3>2. StreamSound'
      BY <1>1, <3>1, StreamStays
    <3>3. index' * Chunk = 0 /\ (index' + 1) * Chunk = Chunk
      BY <1>2, <3>1
    <3> QED BY <1>2, <3>1, <3>2, <3>3 DEF AudioTypeOK
  <2>2. CASE pending # <<>>
    <3>1. HeldTo = q + Chunk /\ PutFrame(FALSE, pending) /\ pending \in Seq(Byte)
      <4>1. HeldTo = (index + 1) * Chunk \/ HeldTo = Len(audio)
        BY <1>1, <2>2 DEF WorkerSeals
      <4>2. HeldTo = q + Chunk
        BY <1>2, <4>1
      <4>3. PutFrame(FALSE, pending) /\ pending \in Seq(Byte)
        BY <2>2 DEF HoldBack, AudioTypeOK
      <4> QED BY <4>2, <4>3
    <3>2. Lesser((index + 1) * Chunk, Len(audio)) = HeldTo
      BY <1>2, <3>1 DEF Lesser
    <3>3. pending = Slice(index)
      BY <1>2, <3>2 DEF Slice
    <3>4. q <= Len(audio) /\ ~((index + 1) * Chunk >= Len(audio))
      BY <1>2, <3>1
    <3>5. Sound(Frame(index, FALSE, pending))
      BY <3>3, <3>4 DEF Sound, Frame
    <3>6. stream' \in Seq(Frames) /\ index' \in Nat /\ StreamSound'
      BY <1>1, <3>1, <3>5, PutSound
    <3>7. index' = index + 1
      BY <3>1 DEF PutFrame
    <3>8. (index' + 1) * Chunk = index' * Chunk + Chunk
      BY <3>6, NextChunk
    <3> QED BY <1>2, <3>1, <3>6, <3>7, <3>8
  <2> QED BY <2>1, <2>2
<1>5. AudioTypeOK'
  BY <1>1, <1>2, <1>4 DEF AudioTypeOK
<1>6. WorkerSeals'
  <2>1. Len(buf') = 0
    BY <1>1, EmptySeq, Zenon
  <2>2. Len(buf') <= Chunk /\ HeldTo' >= 0
    BY <1>2, <1>3, <2>1
  <2>3. buf' = SubSeq(audio', HeldTo' + 1, at')
    <3>1. SubSeq(audio, at + 1, at) = <<>>
      BY <1>2, SubSeqEmpty
    <3> QED BY <1>1, <1>3, <3>1
  <2>4. pending' = SubSeq(audio', index' * Chunk + 1, HeldTo')
    BY <1>1, <1>2, <1>3, <1>4
  <2>5. /\ index' * Chunk < HeldTo' /\ HeldTo' <= (index' + 1) * Chunk
        /\ HeldTo' = (index' + 1) * Chunk \/ HeldTo' = Len(audio')
    <3>1. /\ HeldTo < at /\ at <= HeldTo + Chunk
          /\ at = HeldTo + Chunk \/ at = Len(audio)
      BY <1>1, <1>2
    <3> QED BY <1>1, <1>3, <1>4, <3>1
  <2> QED BY <1>1, <2>2, <2>3, <2>4, <2>5 DEF WorkerSeals
<1>7. ConsoleSeals'
  BY <1>1 DEF ConsoleSeals
<1>8. ReaderInPlace' /\ NeverOtherAudio'
  BY <1>1 DEF ReaderInPlace, NeverOtherAudio
<1> QED BY <1>4, <1>5, <1>6, <1>7, <1>8

LEMMA InputEndsKeeps ==
  ASSUME AudioInvariant, InputEnds
  PROVE  AudioInvariant'
<1> USE DEF AudioInvariant
<1>1. /\ step = "seal" /\ writer = "worker" /\ buf = <<>> /\ step' = "stored"
      /\ Len(buf) = Chunk \/ at = Len(audio)
      /\ audio' = audio /\ writer' = writer /\ at' = at
      /\ pending' = <<>> /\ buf' = buf
      /\ UNCHANGED <<reader, key, header, damage, opened>>
  BY DEF InputEnds, ReadFull, fileVars
<1> DEFINE q == index * Chunk
<1>2. /\ audio \in Seq(Byte) /\ Len(audio) \in Nat /\ Chunk \in Nat \ {0}
      /\ index \in Nat /\ q \in Nat /\ (index + 1) * Chunk = q + Chunk
      /\ HeldTo = Len(audio)
      /\ pending = SubSeq(audio, q + 1, HeldTo)
  <2>1. Len(buf) = 0
    BY <1>1, EmptySeq, Zenon
  <2>2. /\ audio \in Seq(Byte) /\ Len(audio) \in Nat /\ Chunk \in Nat \ {0}
        /\ index \in Nat /\ q \in Nat /\ (index + 1) * Chunk = q + Chunk
        /\ HeldTo = at
        /\ pending = SubSeq(audio, q + 1, HeldTo)
    BY <1>1, WorkerHolding DEF WorkerSeals
  <2> QED BY <1>1, <2>1, <2>2
<1>3. PutFrame(TRUE, pending) /\ pending \in Seq(Byte)
  BY <1>1 DEF InputEnds, WorkerSeals, AudioTypeOK
<1>4. q <= Len(audio) /\ (index + 1) * Chunk >= Len(audio)
  <2>1. CASE pending = <<>>
    BY <1>1, <1>2, <2>1 DEF WorkerSeals
  <2>2. CASE pending # <<>>
    BY <1>1, <1>2, <2>2 DEF WorkerSeals
  <2> QED BY <2>1, <2>2
<1>5. stream' \in Seq(Frames) /\ index' \in Nat /\ StreamSound'
  <2>1. Lesser((index + 1) * Chunk, Len(audio)) = HeldTo
    BY <1>2, <1>4 DEF Lesser
  <2>2. pending = Slice(index)
    BY <1>2, <2>1 DEF Slice
  <2>3. Sound(Frame(index, TRUE, pending))
    BY <1>4, <2>2 DEF Sound, Frame
  <2> QED BY <1>1, <1>3, <2>3, PutSound
<1>6. AudioTypeOK'
  BY <1>1, <1>2, <1>5 DEF AudioTypeOK
<1>7. WorkerSeals' /\ ConsoleSeals'
  BY <1>1 DEF WorkerSeals, ConsoleSeals
<1>8. ReaderInPlace' /\ NeverOtherAudio'
  BY <1>1 DEF ReaderInPlace, NeverOtherAudio
<1> QED BY <1>5, <1>6, <1>7, <1>8

LEMMA SealSliceKeeps ==
  ASSUME AudioInvariant, SealSlice
  PROVE  AudioInvariant'
<1> USE DEF AudioInvariant
<1> DEFINE last == index = Total - 1
<1>1. /\ step = "seal" /\ writer = "console"
      /\ PutFrame(last, Slice(index))
      /\ step' = IF last THEN "stored" ELSE step
      /\ UNCHANGED <<audio, writer, reader, key, at, buf, pending, header, damage, opened>>
  BY DEF SealSlice, fileVars, sealVars
<1>2. /\ audio \in Seq(Byte) /\ Len(audio) \in Nat /\ Chunk \in Nat \ {0}
      /\ index \in Nat /\ Slice(index) \in Seq(Byte) /\ index < Total
  BY <1>1, AudioFormatAssumption, SliceType DEF AudioTypeOK, ConsoleSeals
<1>3. /\ index * Chunk <= Len(audio)
      /\ last <=> (index + 1) * Chunk >= Len(audio)
  <2>1. CASE audio = <<>>
    <3>1. Len(audio) = 0
      BY <2>1, EmptySeq, Zenon
    <3>2. index = 0 /\ last
      BY <1>2, <2>1 DEF Total
    <3>3. index * Chunk = 0 /\ (index + 1) * Chunk = Chunk
      BY <1>2, <3>2
    <3>4. index * Chunk <= Len(audio)
      BY <3>1, <3>3
    <3>5. (index + 1) * Chunk >= Len(audio)
      BY <1>2, <3>1, <3>3
    <3> QED BY <3>2, <3>4, <3>5
  <2>2. CASE audio # <<>>
    <3>1. Len(audio) \in Nat \ {0}
      BY <1>2, <2>2, EmptySeq
    <3>2. Total = (Len(audio) + Chunk - 1) \div Chunk
      BY <2>2 DEF Total
    <3>3. /\ index * Chunk < Len(audio)
          /\ last <=> (index + 1) * Chunk >= Len(audio)
      BY <1>2, <3>1, <3>2, TotalCovers
    <3>4. index * Chunk \in Nat
      BY <1>2, NextChunk
    <3> QED BY <1>2, <3>3, <3>4
  <2> QED BY <2>1, <2>2
<1>4. Sound(Frame(index, last, Slice(index)))
  BY <1>3 DEF Sound, Frame
<1>5. stream' \in Seq(Frames) /\ index' \in Nat /\ StreamSound'
  BY <1>1, <1>2, <1>4, PutSound
<1>6. AudioTypeOK'
  BY <1>1, <1>2, <1>5 DEF AudioTypeOK, Ended
<1>7. WorkerSeals'
  BY <1>1 DEF WorkerSeals
<1>8. ConsoleSeals'
  <2>1. index' = index + 1 /\ Total' = Total /\ Total \in Int
    <3>1. (Len(audio) + Chunk - 1) \div Chunk \in Int
      BY <1>2
    <3> QED BY <1>1, <3>1 DEF PutFrame, Total
  <2> QED BY <1>1, <1>2, <2>1 DEF ConsoleSeals
<1>9. ReaderInPlace' /\ NeverOtherAudio'
  BY <1>1 DEF ReaderInPlace, NeverOtherAudio
<1> QED BY <1>5, <1>6, <1>7, <1>8, <1>9

-------------------------------------------------------------------------------
(* Damage: whatever is left consists of sound frames.                      *)

SoundFrames == {f \in Frames : Sound(f)}

LEMMA StreamOfSoundFrames ==
  ASSUME AudioTypeOK, StreamSound
  PROVE  stream \in Seq(SoundFrames)
<1>1. stream \in Seq(Frames) /\ DOMAIN stream = 1..Len(stream) /\ Len(stream) \in Nat
  BY DEF AudioTypeOK
<1>2. \A i \in 1..Len(stream) : stream[i] \in SoundFrames
  BY <1>1 DEF StreamSound, SoundFrames
<1>3. stream = SubSeq(stream, 1, Len(stream))
  BY <1>1, SubSeqFull
<1>4. SubSeq(stream, 1, Len(stream)) \in Seq(SoundFrames)
  BY <1>1, <1>2, SubSeqProperties
<1> QED BY <1>3, <1>4

LEMMA DamagedKeeps ==
  ASSUME AudioInvariant, NEW s \in Seq(SoundFrames), Damaged(s)
  PROVE  AudioInvariant'
<1> USE DEF AudioInvariant
<1>1. /\ step = "stored" /\ stream' = s /\ damage' \in 0..MaxDamage
      /\ UNCHANGED <<audio, writer, reader, key, at, buf, pending, step, index,
                     header, opened>>
  BY AudioFormatAssumption DEF Damaged, fileVars, sealVars, AudioTypeOK
<1>2. /\ s \in Seq(Frames) /\ \A i \in DOMAIN s : Sound(s[i])
  <2>1. SoundFrames \subseteq Frames
    BY DEF SoundFrames
  <2>2. \A i \in DOMAIN s : s[i] \in SoundFrames
    OBVIOUS
  <2> QED BY <2>1, <2>2, SeqMonotonic DEF SoundFrames
<1>3. AudioTypeOK'
  BY <1>1, <1>2 DEF AudioTypeOK
<1>4. StreamSound'
  BY <1>1, <1>2 DEF StreamSound, Sound, Slice, Lesser
<1>5. WorkerSeals' /\ ConsoleSeals' /\ ReaderInPlace' /\ NeverOtherAudio'
  BY <1>1 DEF WorkerSeals, ConsoleSeals, ReaderInPlace, NeverOtherAudio
<1> QED BY <1>3, <1>4, <1>5

LEMMA DamageKeeps ==
  ASSUME AudioInvariant, DamageStep
  PROVE  AudioInvariant'
<1> DEFINE S == SoundFrames
<1>1. /\ stream \in Seq(S) /\ Len(stream) \in Nat
      /\ DOMAIN stream = 1..Len(stream)
  BY StreamOfSoundFrames DEF AudioInvariant, AudioTypeOK
<1>2. \A m, n \in Int : 1 <= m /\ n <= Len(stream) => SubSeq(stream, m, n) \in Seq(S)
  <2> SUFFICES ASSUME NEW m \in Int, NEW n \in Int, 1 <= m, n <= Len(stream)
               PROVE  SubSeq(stream, m, n) \in Seq(S)
    OBVIOUS
  <2>1. \A i \in m..n : stream[i] \in S
    BY <1>1
  <2> HIDE DEF S
  <2> QED BY <2>1, SubSeqProperties
<1>3. \A i \in DOMAIN stream : stream[i] \in S
  BY <1>1
<1> HIDE DEF S
<1>4. ASSUME NEW i \in DOMAIN stream
      PROVE  /\ RemoveAt(stream, i) \in Seq(S)
             /\ InsertAt(stream, i, stream[i]) \in Seq(S)
             /\ SubSeq(stream, 1, i - 1) \in Seq(S)
  <2>1. /\ SubSeq(stream, 1, i - 1) \in Seq(S)
        /\ SubSeq(stream, i + 1, Len(stream)) \in Seq(S)
        /\ SubSeq(stream, i, Len(stream)) \in Seq(S)
    BY <1>1, <1>2
  <2>2. <<stream[i]>> \in Seq(S)
    BY <1>3
  <2> QED BY <2>1, <2>2, ConcatProperties DEF RemoveAt, InsertAt
<1>5. ASSUME NEW i \in DOMAIN stream, NEW j \in DOMAIN stream
      PROVE  [stream EXCEPT ![i] = stream[j], ![j] = stream[i]] \in Seq(S)
  BY <1>1, <1>3
<1>6. ASSUME NEW i \in DOMAIN stream
      PROVE  [stream EXCEPT ![i] = [stream[i] EXCEPT !.intact = FALSE]] \in Seq(S)
  <2>1. stream[i] \in Frames /\ Sound(stream[i])
    BY <1>3 DEF S, SoundFrames
  <2> DEFINE g == [stream[i] EXCEPT !.intact = FALSE]
  <2>2. /\ g \in Frames /\ g.index = stream[i].index
        /\ g.last = stream[i].last /\ g.plain = stream[i].plain
    BY <2>1 DEF Frames
  <2>3. g \in S
    BY <2>1, <2>2 DEF S, SoundFrames, Sound
  <2> HIDE DEF g
  <2>4. [stream EXCEPT ![i] = g] \in Seq(S)
    BY <1>1, <2>3
  <2> QED BY <2>4 DEF g
<1>7. CASE GarbleHeader
  <2>1. /\ step = "stored" /\ header' = FALSE /\ damage' \in 0..MaxDamage
        /\ UNCHANGED <<audio, writer, reader, key, at, buf, pending, step, index,
                       stream, opened>>
    BY <1>7, AudioFormatAssumption
    DEF GarbleHeader, fileVars, sealVars, AudioInvariant, AudioTypeOK
  <2>2. AudioTypeOK'
    BY <2>1 DEF AudioInvariant, AudioTypeOK
  <2>3. StreamSound'
    BY <2>1, StreamStays DEF AudioInvariant
  <2>4. WorkerSeals' /\ ConsoleSeals' /\ ReaderInPlace' /\ NeverOtherAudio'
    BY <2>1
    DEF AudioInvariant, WorkerSeals, ConsoleSeals, ReaderInPlace, NeverOtherAudio
  <2> QED BY <2>2, <2>3, <2>4 DEF AudioInvariant
<1>8. CASE \E i \in DOMAIN stream : Lose(i) \/ Repeat(i) \/ Cut(i) \/ Garble(i)
  BY <1>4, <1>6, <1>8, DamagedKeeps DEF Lose, Repeat, Cut, Garble, S
<1>9. CASE \E i, j \in DOMAIN stream : Swap(i, j)
  BY <1>5, <1>9, DamagedKeeps DEF Swap, S
<1> QED BY <1>7, <1>8, <1>9 DEF DamageStep

-------------------------------------------------------------------------------
(* Opening.                                                                *)

LEMMA ArriveKeeps ==
  ASSUME AudioInvariant, Arrive
  PROVE  AudioInvariant'
<1> USE DEF AudioInvariant
<1>1. /\ step = "stored" /\ step' \in {"open", "passed", "refused"} /\ index' = 0
      /\ UNCHANGED <<audio, writer, reader, key, at, buf, pending, header, stream,
                     damage, opened>>
      /\ opened = <<>>
  BY AudioFormatAssumption
  DEF Arrive, WorkerStarts, PlayerStarts, DownloadStarts, fileVars, sealVars,
      ReaderInPlace, AudioTypeOK
<1>2. audio \in Seq(Byte) /\ Len(audio) \in Nat /\ Chunk \in Nat
  BY AudioFormatAssumption DEF AudioTypeOK
<1>3. AudioTypeOK'
  BY <1>1 DEF AudioTypeOK, Ended
<1>4. StreamSound'
  BY <1>1, StreamStays
<1>5. WorkerSeals' /\ ConsoleSeals'
  BY <1>1 DEF WorkerSeals, ConsoleSeals
<1>6. SubSeq(audio, 1, 0) = <<>>
  BY SubSeqEmpty
<1>7. index' * Chunk = 0
  BY <1>1, <1>2
<1>8. ReaderInPlace'
  BY <1>1, <1>2, <1>6, <1>7 DEF ReaderInPlace
<1>9. NeverOtherAudio'
  <2>1. 0 \in 0..Len(audio)
    BY <1>2
  <2>2. IsPrefix(opened, audio)
    BY <1>1, <1>6, <2>1, BeginningOfFile
  <2> QED BY <1>1, <2>2 DEF NeverOtherAudio
<1> QED BY <1>3, <1>4, <1>5, <1>8, <1>9

LEMMA OpenFrameKeeps ==
  ASSUME AudioInvariant, OpenFrame
  PROVE  AudioInvariant'
<1> USE DEF AudioInvariant
<1> DEFINE f == stream[index + 1]
<1>1. /\ step = "open" /\ index < Len(stream) /\ Genuine(f)
      /\ opened' = opened \o f.plain
      /\ step' = IF f.last THEN "opened" ELSE step
      /\ index' = IF f.last THEN index ELSE index + 1
      /\ UNCHANGED <<audio, writer, reader, key, at, buf, pending, header, stream,
                     damage>>
  BY DEF OpenFrame, fileVars, sealVars
<1>2. /\ audio \in Seq(Byte) /\ Len(audio) \in Nat /\ Chunk \in Nat
      /\ stream \in Seq(Frames) /\ index \in Nat /\ Len(stream) \in Nat
  BY AudioFormatAssumption DEF AudioTypeOK
<1>3. index + 1 \in DOMAIN stream /\ f \in Frames
  BY <1>1, <1>2
<1> HIDE DEF f
<1>4. /\ f.index = index /\ Sound(f) /\ f.last \in BOOLEAN /\ f.plain \in Seq(Byte)
  BY <1>1, <1>3 DEF Genuine, StreamSound, Frames, f
<1> DEFINE n == Lesser((index + 1) * Chunk, Len(audio))
<1>5. /\ index * Chunk \in Nat /\ (index + 1) * Chunk \in Nat
      /\ n \in 0..Len(audio)
      /\ f.last => n = Len(audio)
      /\ ~f.last => n = (index + 1) * Chunk /\ n <= Len(audio)
  <2>1. index * Chunk \in Nat /\ (index + 1) * Chunk \in Nat
    BY <1>2, NextChunk
  <2>2. f.last <=> (index + 1) * Chunk >= Len(audio)
    BY <1>4 DEF Sound
  <2> QED BY <1>2, <2>1, <2>2 DEF Lesser
<1>6. opened' = SubSeq(audio, 1, n)
  <2>1. index * Chunk <= Len(audio) /\ opened = SubSeq(audio, 1, index * Chunk)
    BY <1>1 DEF ReaderInPlace
  <2>2. opened' = opened \o Slice(index)
    BY <1>1, <1>4 DEF Sound
  <2> QED BY <1>2, <2>1, <2>2, ChunksAdd
<1> HIDE DEF n
<1>7. AudioTypeOK'
  <2>1. opened' \in Seq(Byte)
    BY <1>1, <1>4, ConcatProperties DEF AudioTypeOK
  <2> QED BY <1>1, <1>2, <2>1 DEF AudioTypeOK, Ended
<1>8. StreamSound'
  BY <1>1, StreamStays
<1>9. WorkerSeals' /\ ConsoleSeals'
  BY <1>1 DEF WorkerSeals, ConsoleSeals
<1>10. ReaderInPlace'
  <2>1. CASE f.last
    BY <1>1, <2>1 DEF ReaderInPlace
  <2>2. CASE ~f.last
    BY <1>1, <1>5, <1>6, <2>2 DEF ReaderInPlace
  <2> QED BY <2>1, <2>2
<1>11. NeverOtherAudio'
  <2>1. IsPrefix(opened', audio')
    BY <1>1, <1>5, <1>6, BeginningOfFile
  <2>2. f.last => opened' = audio'
    <3>1. SubSeq(audio, 1, Len(audio)) = audio
      BY <1>2, SubSeqFull
    <3> QED BY <1>1, <1>5, <1>6, <3>1
  <2> QED BY <1>1, <1>4, <2>1, <2>2 DEF NeverOtherAudio
<1> QED BY <1>7, <1>8, <1>9, <1>10, <1>11

LEMMA EndKeeps ==
  ASSUME AudioInvariant, Refuse \/ IoFails
  PROVE  AudioInvariant'
<1> USE DEF AudioInvariant
<1>1. /\ step \in {"seal", "open"} /\ step' \in {"refused", "failed"}
      /\ UNCHANGED <<audio, writer, reader, key, at, buf, pending, index, header,
                     stream, damage, opened>>
  BY DEF Refuse, IoFails, fileVars, sealVars
<1>2. audio \in Seq(Byte) /\ Len(audio) \in Nat
  BY AudioFormatAssumption DEF AudioTypeOK
<1>3. AudioTypeOK'
  BY <1>1 DEF AudioTypeOK, Ended
<1>4. StreamSound'
  BY <1>1, StreamStays
<1>5. WorkerSeals' /\ ConsoleSeals' /\ ReaderInPlace'
  BY <1>1 DEF WorkerSeals, ConsoleSeals, ReaderInPlace
<1>6. NeverOtherAudio'
  <2>1. IsPrefix(opened, audio)
    <3>1. CASE step = "seal"
      <4>1. opened = SubSeq(audio, 1, 0) /\ 0 \in 0..Len(audio)
        BY <1>2, <3>1, SubSeqEmpty DEF ReaderInPlace
      <4> QED BY <4>1, BeginningOfFile
    <3>2. CASE step = "open"
      BY <3>2 DEF NeverOtherAudio
    <3> QED BY <1>1, <3>1, <3>2
  <2> QED BY <1>1, <2>1 DEF NeverOtherAudio
<1> QED BY <1>3, <1>4, <1>5, <1>6

-------------------------------------------------------------------------------

LEMMA AudioNext == AudioInvariant /\ [Next]_vars => AudioInvariant'
<1> SUFFICES ASSUME AudioInvariant, [Next]_vars PROVE AudioInvariant'
  OBVIOUS
<1>1. CASE SealStep
  BY <1>1, ReadKeeps, HoldBackKeeps, InputEndsKeeps, SealSliceKeeps DEF SealStep
<1>2. CASE DamageStep
  BY <1>2, DamageKeeps
<1>3. CASE OpenStep
  BY <1>3, ArriveKeeps, OpenFrameKeeps, EndKeeps DEF OpenStep
<1>4. CASE IoFails
  BY <1>4, EndKeeps
<1>5. CASE UNCHANGED vars
  <2> USE <1>5 DEF vars, fileVars, sealVars
  <2>1. AudioTypeOK' /\ WorkerSeals' /\ ConsoleSeals' /\ ReaderInPlace'
    BY DEF AudioInvariant, AudioTypeOK, WorkerSeals, HeldTo, ConsoleSeals, Total,
           ReaderInPlace
  <2>2. StreamSound'
    BY StreamStays DEF AudioInvariant
  <2>3. NeverOtherAudio'
    BY DEF AudioInvariant, NeverOtherAudio
  <2> QED BY <2>1, <2>2, <2>3 DEF AudioInvariant
<1> QED BY <1>1, <1>2, <1>3, <1>4, <1>5 DEF Next

\* The invariant holds of every file, chunk size and amount of damage.
THEOREM AudioInvariance == Spec => []AudioInvariant
BY AudioInit, AudioNext, PTL DEF Spec

\* Lost, repeated, swapped, cut off or altered frames never open to other
\* audio, and a reader never lets through more than a beginning of the file
\* (decrypt_file, decryptBytes).
THEOREM OtherAudioIsNeverOpened == Spec => []NeverOtherAudio
<1>1. AudioInvariant => NeverOtherAudio
  BY DEF AudioInvariant
<1> QED BY <1>1, AudioInvariance, PTL

-------------------------------------------------------------------------------
(* What is told apart on arrival.                                          *)

\* An object in the clear has no header and is never sealed or opened.
ClearIsClear ==
  writer = "none" =>
    /\ ~header /\ step \notin {"seal", "open"}
    /\ reader # "download" => step # "refused"

\* Objects from before the audio key pass through untouched in the worker and
\* in the player, which ask for the header first (is_encrypted_file, isSealed).
THEOREM ClearObjectsPass == Spec => []ClearPassesWhereAsked
<1>1. Init => ClearIsClear
  BY DEF Init, ClearIsClear
<1>2. AudioInvariant /\ ClearIsClear /\ [Next]_vars => ClearIsClear'
  <2> SUFFICES ASSUME AudioInvariant, ClearIsClear, [Next]_vars PROVE ClearIsClear'
    OBVIOUS
  <2>1. CASE writer # "none"
    <3>1. writer' = writer
      BY DEF Next, SealStep, Read, HoldBack, InputEnds, SealSlice, DamageStep, Lose,
         Repeat, Swap, Cut, Garble, Damaged, GarbleHeader, OpenStep, Arrive, OpenFrame,
         Refuse, IoFails, vars, fileVars
    <3> QED BY <2>1, <3>1 DEF ClearIsClear
  <2>2. CASE writer = "none" /\ Arrive
    <3>1. UNCHANGED <<writer, reader, header>> /\ ~header
      BY <2>2 DEF Arrive, fileVars, ClearIsClear
    <3>2. reader \in {"worker", "player", "download"}
      BY AudioFormatAssumption DEF AudioInvariant, AudioTypeOK
    <3>3. /\ step' \in {"passed", "refused"}
          /\ reader # "download" => step' = "passed"
      BY <2>2, <3>1, <3>2 DEF Arrive, WorkerStarts, PlayerStarts, DownloadStarts
    <3> QED BY <3>1, <3>3 DEF ClearIsClear
  <2>3. CASE writer = "none" /\ ~Arrive
    <3>1. UNCHANGED <<writer, reader, header, step>>
      BY <2>3 DEF ClearIsClear, Next, SealStep, Read, HoldBack, InputEnds, SealSlice,
         DamageStep, Lose, Repeat, Swap, Cut, Garble, Damaged, GarbleHeader, OpenStep,
         OpenFrame, Refuse, IoFails, vars, fileVars
    <3> QED BY <3>1 DEF ClearIsClear
  <2> QED BY <2>1, <2>2, <2>3
<1>3. ClearIsClear => ClearPassesWhereAsked
  BY DEF ClearIsClear, ClearPassesWhereAsked, ClearPasses
<1> QED BY <1>1, <1>2, <1>3, AudioInvariance, PTL DEF Spec

-------------------------------------------------------------------------------
(* What is written, and that it opens.                                     *)

\* Frames are counted right: the last is the first that reaches the end.
LEMMA TotalIs ==
  ASSUME NEW L \in Nat, NEW C \in Nat \ {0}, NEW i \in Nat,
         i * C < L, L <= (i + 1) * C
  PROVE  (L + C - 1) \div C = i + 1
<1> DEFINE T == (L + C - 1) \div C
           R == (L + C - 1) % C
<1>1. /\ T \in Nat /\ R \in Nat /\ R < C
      /\ L + C - 1 = C * T + R
  OBVIOUS
<1>2. (i + 1) * C = i * C + C /\ (i + 2) * C = i * C + C + C /\ i * C \in Nat
  OBVIOUS
<1> HIDE DEF T, R
<1>3. ~(T >= i + 2)
  <2>1. T >= i + 2 => C * T >= (i + 2) * C
    BY <1>1
  <2> QED BY <1>1, <1>2, <2>1
<1>4. ~(T <= i)
  <2>1. T <= i => C * T <= i * C
    BY <1>1
  <2> QED BY <1>1, <1>2, <2>1
<1>5. T = i + 1
  BY <1>1, <1>3, <1>4
<1> QED BY <1>5 DEF T

LEMMA TotalType ==
  ASSUME AudioTypeOK
  PROVE  Total \in Nat \ {0}
<1>1. audio \in Seq(Byte) /\ Len(audio) \in Nat /\ Chunk \in Nat \ {0}
  BY AudioFormatAssumption DEF AudioTypeOK
<1>2. ASSUME audio # <<>> PROVE (Len(audio) + Chunk - 1) \div Chunk \in Nat \ {0}
  <2>1. Len(audio) # 0
    BY <1>1, <1>2
  <2> DEFINE N == Len(audio) + Chunk - 1
  <2>2. N \in Nat /\ N >= Chunk
    BY <1>1, <2>1
  <2>3. /\ N = Chunk * (N \div Chunk) + (N % Chunk)
        /\ (N % Chunk) < Chunk
        /\ N \div Chunk \in Nat
    BY <1>1, <2>2
  <2>4. N \div Chunk # 0
    BY <1>1, <2>2, <2>3
  <2> QED BY <2>3, <2>4
<1> QED BY <1>2 DEF Total

\* Of the frames there are, just the last reaches the end of the file.
LEMMA LastIsTotal ==
  ASSUME AudioTypeOK, NEW i \in 1..Total
  PROVE  i * Chunk >= Len(audio) <=> i = Total
<1>1. /\ audio \in Seq(Byte) /\ Len(audio) \in Nat /\ Chunk \in Nat \ {0}
      /\ Total \in Nat \ {0} /\ i \in Nat \ {0}
  BY AudioFormatAssumption, TotalType DEF AudioTypeOK
<1>2. CASE audio = <<>>
  <2>1. Len(audio) = 0 /\ Total = 1
    BY <1>2, EmptySeq DEF Total
  <2> QED BY <1>1, <2>1, NextChunk
<1>3. CASE audio # <<>>
  <2>1. Len(audio) \in Nat \ {0} /\ Total = (Len(audio) + Chunk - 1) \div Chunk
    BY <1>1, <1>3, EmptySeq DEF Total
  <2>2. i - 1 \in Nat /\ i - 1 < Total /\ (i - 1) + 1 = i
    BY <1>1
  <2>3. i - 1 = Total - 1 <=> ((i - 1) + 1) * Chunk >= Len(audio)
    BY <1>1, <2>1, <2>2, TotalCovers
  <2> QED BY <1>1, <2>2, <2>3
<1> QED BY <1>2, <1>3

\* A slice fits in a frame.
LEMMA SliceFits ==
  ASSUME AudioTypeOK, NEW i \in Nat
  PROVE  Len(Slice(i)) \in 0..Chunk
<1> DEFINE m == i * Chunk
           n == Lesser((i + 1) * Chunk, Len(audio))
<1>1. Len(audio) \in Nat /\ Chunk \in Nat
  BY AudioFormatAssumption DEF AudioTypeOK
<1>2. m \in Nat /\ (i + 1) * Chunk = m + Chunk
  BY NextChunk
<1>3. n \in Nat /\ n <= Len(audio) /\ n <= m + Chunk
  BY <1>1, <1>2 DEF Lesser
<1> HIDE DEF m, n
<1>4. Len(SubSeq(audio, m + 1, n)) = IF m < n THEN n - m ELSE 0
  BY <1>2, <1>3, PartOfFile
<1>5. Len(SubSeq(audio, m + 1, n)) \in 0..Chunk
  BY <1>1, <1>2, <1>3, <1>4
<1> QED BY <1>5 DEF Slice, m, n

\* The frames of an object nothing happened to: each in its place, as it was
\* sealed, and all of them once the sealing is over.
FramesInPlace ==
  \A i \in DOMAIN stream :
    stream[i].index = i - 1 /\ stream[i].key = SealKey /\ stream[i].intact

Intact ==
  Undamaged =>
    /\ header /\ FramesInPlace
    /\ step = "seal" => Len(stream) = index
    /\ step \in {"stored", "open"} => Len(stream) = Total
    /\ step = "open" => index < Total
    /\ key = SealKey => step \notin {"refused", "passed"}

LEMMA TotalStays ==
  ASSUME audio' = audio
  PROVE  Total' = Total
BY DEF Total

\* Putting the next frame.
LEMMA PutInPlace ==
  ASSUME AudioTypeOK, FramesInPlace, Len(stream) = index,
         NEW last \in BOOLEAN, NEW plain \in Seq(Byte), PutFrame(last, plain)
  PROVE  FramesInPlace' /\ Len(stream') = index + 1 /\ index' = index + 1
<1> DEFINE g == Frame(index, last, plain)
<1>1. g \in Frames /\ stream \in Seq(Frames) /\ index \in Nat
  BY FrameType DEF AudioTypeOK
<1>2. g.index = index /\ g.key = SealKey /\ g.intact
  BY DEF Frame
<1>3. stream' = Append(stream, g) /\ index' = index + 1
  BY DEF PutFrame
<1> HIDE DEF g
<1>4. /\ Len(stream') = Len(stream) + 1 /\ stream' \in Seq(Frames)
      /\ \A i \in 1..Len(stream) : stream'[i] = stream[i]
      /\ stream'[Len(stream) + 1] = g
  BY <1>1, <1>3, AppendProperties
<1>5. DOMAIN stream = 1..index /\ DOMAIN stream' = 1..(index + 1)
  BY <1>1, <1>4
<1>6. ASSUME NEW i \in DOMAIN stream'
      PROVE  stream'[i].index = i - 1 /\ stream'[i].key = SealKey /\ stream'[i].intact
  <2>1. CASE i = index + 1
    BY <1>1, <1>2, <1>4, <2>1
  <2>2. CASE i # index + 1
    <3>1. i \in DOMAIN stream /\ stream'[i] = stream[i]
      BY <1>1, <1>4, <1>5, <2>2
    <3> QED BY <3>1 DEF FramesInPlace
  <2> QED BY <2>1, <2>2
<1> QED BY <1>3, <1>4, <1>6 DEF FramesInPlace

LEMMA LastAt ==
  ASSUME AudioTypeOK, StreamSound, FramesInPlace, Len(stream) <= Total,
         NEW i \in DOMAIN stream
  PROVE  stream[i].last <=> i = Total
<1>1. i \in 1..Total /\ (i - 1) + 1 = i
  BY TotalType DEF AudioTypeOK
<1>2. stream[i].last <=> i * Chunk >= Len(audio)
  BY <1>1 DEF FramesInPlace, StreamSound, Sound
<1> QED BY <1>1, <1>2, LastIsTotal

\* The frame at i of an undamaged object is the one encrypt_file and
\* encryptFile are meant to write there.
LEMMA FrameAt ==
  ASSUME AudioTypeOK, StreamSound, FramesInPlace, Len(stream) <= Total,
         NEW i \in DOMAIN stream
  PROVE  stream[i] = Frame(i - 1, i = Total, Slice(i - 1))
<1>1. stream \in Seq(Frames) /\ Len(stream) \in Nat /\ Total \in Nat
  BY TotalType DEF AudioTypeOK
<1>2. i \in 1..Total /\ stream[i] \in Frames /\ (i - 1) + 1 = i
  BY <1>1
<1>3. /\ stream[i].index = i - 1 /\ stream[i].key = SealKey /\ stream[i].intact
  BY DEF FramesInPlace
<1>4. stream[i].plain = Slice(i - 1)
  BY <1>2, <1>3 DEF StreamSound, Sound
<1>5. stream[i].last <=> i = Total
  BY <1>1, LastAt
<1>6. stream[i].last \in BOOLEAN /\ stream[i].intact \in BOOLEAN
  BY <1>2 DEF Frames
<1>7. stream[i] = [index |-> i - 1, last |-> i = Total, plain |-> Slice(i - 1),
                   key |-> SealKey, intact |-> TRUE]
  BY <1>2, <1>3, <1>4, <1>5, <1>6, Zenon DEF Frames
<1> QED BY <1>7 DEF Frame

LEMMA IntactInit == Init => Intact
<1> SUFFICES ASSUME Init, writer # "none" PROVE Intact
  BY DEF Intact, Undamaged
<1>1. stream = <<>> /\ step = "seal" /\ index = 0 /\ header
  BY DEF Init
<1>2. Len(stream) = 0 /\ DOMAIN stream = {}
  BY <1>1
<1> QED BY <1>1, <1>2 DEF Intact, FramesInPlace

LEMMA SealKeepsIntact ==
  ASSUME AudioInvariant, Intact, SealStep
  PROVE  Intact'
<1> SUFFICES ASSUME Undamaged PROVE Intact'
  <2>1. Undamaged' => Undamaged
    BY DEF Undamaged, SealStep, Read, HoldBack, InputEnds, SealSlice, fileVars
  <2> QED BY <2>1 DEF Intact
<1>1. /\ step = "seal" /\ header /\ FramesInPlace /\ Len(stream) = index
      /\ audio' = audio /\ header' = header /\ AudioTypeOK
  BY DEF SealStep, Read, HoldBack, InputEnds, SealSlice, Intact, fileVars, AudioInvariant
<1>2. CASE UNCHANGED <<stream, index, step>>
  BY <1>1, <1>2 DEF Intact, FramesInPlace
<1>3. ASSUME NEW last \in BOOLEAN, NEW plain \in Seq(Byte), PutFrame(last, plain),
             step' = "seal" \/ (step' = "stored" /\ index + 1 = Total)
      PROVE  Intact'
  <2>1. FramesInPlace' /\ Len(stream') = index + 1 /\ index' = index + 1
    BY <1>1, <1>3, PutInPlace
  <2> QED BY <1>1, <1>3, <2>1, TotalStays DEF Intact
<1>4. ASSUME NEW n \in 1..Chunk, Read(n) PROVE Intact'
  BY <1>2, <1>4 DEF Read
<1>5. CASE HoldBack
  <2>1. step' = step
    BY <1>5 DEF HoldBack
  <2>2. CASE pending = <<>>
    BY <1>2, <1>5, <2>1, <2>2 DEF HoldBack
  <2>3. CASE pending # <<>>
    BY <1>1, <1>3, <1>5, <2>1, <2>3 DEF HoldBack, AudioTypeOK
  <2> QED BY <2>2, <2>3
<1>6. CASE InputEnds
  <2>1. /\ writer = "worker" /\ step' = "stored" /\ buf = <<>>
        /\ Len(buf) = Chunk \/ at = Len(audio)
        /\ PutFrame(TRUE, pending) /\ pending \in Seq(Byte)
    BY <1>1, <1>6 DEF InputEnds, ReadFull, AudioInvariant, WorkerSeals, AudioTypeOK
  <2>2. /\ Len(audio) \in Nat /\ Chunk \in Nat \ {0} /\ index \in Nat
        /\ Len(buf) = at - HeldTo /\ HeldTo = at /\ at \in 0..Len(audio)
        /\ audio \in Seq(Byte)
    BY <1>1, <2>1, WorkerHolding DEF AudioInvariant
  <2>3. HeldTo = Len(audio)
    BY <2>1, <2>2
  <2>4. index + 1 = Total
    <3>1. CASE pending = <<>>
      <4>1. index = 0 /\ Len(audio) = 0
        BY <1>1, <2>1, <2>3, <3>1 DEF AudioInvariant, WorkerSeals
      <4>2. audio = <<>>
        BY <2>2, <4>1, EmptySeq
      <4> QED BY <4>1, <4>2 DEF Total
    <3>2. CASE pending # <<>>
      <4>1. index * Chunk < Len(audio) /\ Len(audio) <= (index + 1) * Chunk
        BY <1>1, <2>1, <2>3, <3>2 DEF AudioInvariant, WorkerSeals
      <4>2. (Len(audio) + Chunk - 1) \div Chunk = index + 1
        BY <2>2, <4>1, TotalIs
      <4>3. Len(audio) # 0
        BY <2>2, <4>1, NextChunk
      <4>4. audio # <<>>
        BY <4>3
      <4> QED BY <4>2, <4>4 DEF Total
    <3> QED BY <3>1, <3>2
  <2> QED BY <1>3, <2>1, <2>4
<1>7. CASE SealSlice
  <2>1. /\ PutFrame(index = Total - 1, Slice(index))
        /\ step' = IF index = Total - 1 THEN "stored" ELSE step
    BY <1>7 DEF SealSlice
  <2>2. Slice(index) \in Seq(Byte) /\ index \in Nat /\ Total \in Nat
    BY <1>1, SliceType, TotalType DEF AudioTypeOK
  <2>3. step' = "seal" \/ (step' = "stored" /\ index + 1 = Total)
    BY <1>1, <2>1, <2>2
  <2>4. (index = Total - 1) \in BOOLEAN
    OBVIOUS
  <2> QED BY <1>3, <2>1, <2>2, <2>3, <2>4
<1> QED BY <1>4, <1>5, <1>6, <1>7 DEF SealStep

LEMMA DamageKeepsIntact ==
  ASSUME AudioInvariant, DamageStep
  PROVE  Intact'
<1>1. damage' = damage + 1 /\ damage \in Nat
  BY AudioFormatAssumption
  DEF DamageStep, Lose, Repeat, Swap, Cut, Garble, Damaged, GarbleHeader,
      AudioInvariant, AudioTypeOK
<1>2. damage' # 0
  BY <1>1
<1> QED BY <1>2 DEF Intact, Undamaged

\* The next frame of an undamaged object is what the reader expects.
LEMMA NextIsGenuine ==
  ASSUME AudioInvariant, Intact, Undamaged, key = SealKey, step = "open"
  PROVE  /\ index < Len(stream) /\ Genuine(stream[index + 1])
<1>1. /\ AudioTypeOK /\ StreamSound /\ FramesInPlace
      /\ Len(stream) = Total /\ index < Total
      /\ index \in Nat /\ Total \in Nat /\ stream \in Seq(Frames)
  BY TotalType DEF AudioInvariant, Intact, AudioTypeOK
<1>2. index + 1 \in DOMAIN stream /\ (index + 1) - 1 = index
  BY <1>1
<1> DEFINE f == stream[index + 1]
<1>3. f.index = index /\ f.key = key /\ f.intact
  BY <1>1, <1>2 DEF FramesInPlace
<1>4. f.plain = Slice(index)
  BY <1>1, <1>2, <1>3 DEF StreamSound, Sound
<1>5. Len(f.plain) \in 0..Chunk /\ Chunk \in Nat
  BY <1>1, <1>4, SliceFits, AudioFormatAssumption
<1> HIDE DEF f
<1>6. Plausible(f)
  BY <1>5 DEF Plausible, SealedLength, MinFrame, MaxFrame, Nonce, Header, Tag
<1>7. Genuine(f)
  BY <1>3, <1>6 DEF Genuine
<1> QED BY <1>1, <1>7 DEF f

LEMMA OpenKeepsIntact ==
  ASSUME AudioInvariant, Intact, OpenStep \/ IoFails
  PROVE  Intact'
<1> SUFFICES ASSUME Undamaged PROVE Intact'
  <2>1. Undamaged' => Undamaged
    BY DEF Undamaged, OpenStep, Arrive, OpenFrame, Refuse, IoFails, fileVars
  <2> QED BY <2>1 DEF Intact
<1>1. /\ header /\ FramesInPlace /\ AudioTypeOK /\ Total \in Nat \ {0} /\ index \in Nat
      /\ UNCHANGED <<audio, reader, key, header, stream>>
  BY TotalType
  DEF OpenStep, Arrive, OpenFrame, Refuse, IoFails, Intact, AudioInvariant,
      AudioTypeOK, fileVars
<1>2. FramesInPlace' /\ header' /\ Total' = Total
  BY <1>1, TotalStays DEF FramesInPlace
<1>3. CASE Arrive
  <2>1. step = "stored" /\ index' = 0 /\ Len(stream) = Total
    BY <1>3 DEF Arrive, Intact
  <2>2. reader \in {"worker", "player", "download"} /\ SealKey # NoKey
    BY AudioFormatAssumption DEF AudioInvariant, AudioTypeOK
  <2>3. step' \in {"open", "passed", "refused"} /\ (key = SealKey => step' = "open")
    BY <1>1, <1>3, <2>2 DEF Arrive, WorkerStarts, PlayerStarts, DownloadStarts
  <2> QED BY <1>1, <1>2, <2>1, <2>3 DEF Intact
<1>4. CASE OpenFrame
  <2> DEFINE f == stream[index + 1]
  <2>1. /\ step = "open" /\ index < Len(stream)
        /\ step' = IF f.last THEN "opened" ELSE step
        /\ index' = IF f.last THEN index ELSE index + 1
    BY <1>4 DEF OpenFrame
  <2>2. Len(stream) = Total /\ stream \in Seq(Frames)
    BY <1>1, <2>1 DEF Intact, AudioTypeOK
  <2>3. index + 1 \in DOMAIN stream /\ Len(stream) <= Total
    BY <1>1, <2>1, <2>2
  <2>4. f.last <=> index + 1 = Total
    BY <1>1, <2>3, LastAt DEF AudioInvariant
  <2> HIDE DEF f
  <2>5. CASE f.last
    BY <1>1, <1>2, <2>1, <2>5 DEF Intact
  <2>6. CASE ~f.last
    <3>1. step' = "open" /\ index' = index + 1 /\ index' < Total
      BY <1>1, <2>1, <2>2, <2>4, <2>6
    <3> QED BY <1>1, <1>2, <2>2, <3>1 DEF Intact
  <2> QED BY <2>5, <2>6
<1>5. CASE Refuse
  <2>1. key # SealKey /\ step' = "refused"
    BY <1>5, NextIsGenuine DEF Refuse
  <2> QED BY <1>1, <1>2, <2>1 DEF Intact
<1>6. CASE IoFails
  BY <1>1, <1>2, <1>6 DEF Intact, IoFails
<1> QED BY <1>3, <1>4, <1>5, <1>6 DEF OpenStep

\* What a reader has of an object nothing happened to is what its writer sealed,
\* frame by frame, with the last one marked (encrypt_file, encryptFile).
THEOREM IntactInvariance == Spec => []Intact
<1>1. AudioInvariant /\ Intact /\ [Next]_vars => Intact'
  <2>1. ASSUME Intact, UNCHANGED vars PROVE Intact'
    BY <2>1
    DEF Intact, Undamaged, FramesInPlace, Total, vars, fileVars, sealVars
  <2> QED BY <2>1, SealKeepsIntact, DamageKeepsIntact, OpenKeepsIntact DEF Next
<1> QED BY <1>1, IntactInit, AudioInvariance, PTL DEF Spec

\* An object nothing happened to opens in every place that has its key: no
\* frame either writer produces is refused by a reader's bounds, whatever the
\* length of the file (decrypt_file, decryptBytes, decryptStream).
THEOREM IntactObjectsOpen == Spec => []IntactOpens
<1>1. Intact => IntactOpens
  BY DEF Intact, IntactOpens
<1> QED BY <1>1, IntactInvariance, PTL

\* encrypt_file and encryptFile write the same frames for every file, however
\* the reads of the former are cut short.
THEOREM WritersWriteTheSame == Spec => []WritersAgree
<1>1. AudioInvariant /\ Intact => WritersAgree
  <2> SUFFICES ASSUME AudioInvariant, Intact, Undamaged, step = "stored"
               PROVE  stream = Canonical
    BY DEF WritersAgree
  <2>1. /\ AudioTypeOK /\ StreamSound /\ FramesInPlace /\ Len(stream) = Total
        /\ stream \in Seq(Frames) /\ Total \in Nat
    BY TotalType DEF AudioInvariant, AudioTypeOK, Intact
  <2>2. \A i \in 1..Total : stream[i] = Frame(i - 1, i = Total, Slice(i - 1))
    BY <2>1, FrameAt
  <2>3. stream = [i \in 1..Total |-> stream[i]]
    BY <2>1
  <2> QED BY <2>2, <2>3 DEF Canonical
<1> QED BY <1>1, AudioInvariance, IntactInvariance, PTL
===============================================================================
