-------------------------------- MODULE Names --------------------------------
(***************************************************************************)
(* What becomes of a file name: the storage key and the path handed to     *)
(* demucs (sanitize), the title the console shows (clean_display_name) and *)
(* the header of a download (content_disposition).                         *)
(*                                                                         *)
(* A name is a sequence of symbols.  A symbol is a run of ASCII letters    *)
(* and digits, or one character of a class the code tells apart.           *)
(***************************************************************************)
EXTENDS Integers, Sequences, SequencesExt, FiniteSetsExt

CONSTANT MaxTitle    \* 200, the characters kept of a title

ASSUME NamesAssumption == MaxTitle \in Nat \ {0}

Alnum   == {"song", "upload", "mp3", "object", "bin"}
Blanks  == {"space", "wide"}      \* "wide" is white space outside ASCII
Ascii   == Alnum \cup {"dot", "dash", "under", "space", "slash", "quote", "pct"}
Symbol  == Ascii \cup {"wide", "thai"}

Title == Seq(Symbol)
None  == <<>>     \* no name is empty: the absence of one

Trim(s, out) ==
  LET kept == {i \in DOMAIN s : s[i] \notin out}
  IN  IF kept = {} THEN <<>> ELSE SubSeq(s, Min(kept), Max(kept))

\* "slash" stands for both separators, / and \.
LastSegment(s) ==
  LET cuts == {i \in DOMAIN s : s[i] = "slash"}
  IN  IF cuts = {} THEN s ELSE SubSeq(s, Max(cuts) + 1, Len(s))

-------------------------------------------------------------------------------

\* Mutated form of Flatten: the dots go as well.
FlattenDots(s) ==
  [i \in DOMAIN s |->
     IF s[i] \in Alnum \cup {"dash", "under", "space"} THEN s[i] ELSE "under"]

Flatten(s) ==
  [i \in DOMAIN s |->
     IF s[i] \in Alnum \cup {"dot", "dash", "under", "space"} THEN s[i] ELSE "under"]

Fallback == <<"upload", "dot", "mp3">>

Sanitize(name) ==
  LET cleaned == Trim(Trim(Flatten(LastSegment(name)), Blanks), {"dot"})
  IN  IF cleaned = <<>> THEN Fallback ELSE cleaned

\* Quotes and control characters are one class, "quote": both are dropped.
Unquoted(s) == FlattenSeq([i \in DOMAIN s |-> IF s[i] = "quote" THEN <<>> ELSE <<s[i]>>])

CleanDisplayName(raw) ==
  LET shown   == Unquoted(LastSegment(raw))
      trimmed == Trim(Trim(shown, Blanks), {"dot"})
  IN  Trim(SubSeq(trimmed, 1, Min({MaxTitle, Len(trimmed)})), Blanks)

-------------------------------------------------------------------------------

BeforeLastDot(s) ==
  LET dots == {i \in DOMAIN s : s[i] = "dot"}
  IN  IF dots = {} THEN s ELSE SubSeq(s, 1, Max(dots) - 1)

\* "{base} - {stem}.{ext}", of a stem whose name and format are ASCII.
DownloadName(title) ==
  BeforeLastDot(title) \o <<"space", "dash", "space", "song", "dot", "mp3">>

\* Mutated form of AttrChar: the escape character is taken for safe.
AttrCharOrPercent(c) == c \in Alnum \cup {"dot", "dash", "under", "pct"}

AttrChar(c) == c \in Alnum \cup {"dot", "dash", "under"}

\* An escaped symbol is "pct" and the symbol, for the digits of its bytes.
PercentEncoded(name) ==
  FlattenSeq([i \in DOMAIN name |->
    IF AttrChar(name[i]) THEN <<name[i]>> ELSE <<"pct", name[i]>>])

ContentDisposition(name) ==
  [filename |-> Sanitize(name), starred |-> PercentEncoded(name)]
===============================================================================
