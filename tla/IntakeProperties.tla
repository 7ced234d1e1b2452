--------------------------- MODULE IntakeProperties ---------------------------
(***************************************************************************)
(* What must hold of an upload and of the names drawn from it.             *)
(***************************************************************************)
EXTENDS Intake

\* A row names the object that was stored for it, that object is all of the
\* last file the form carried, and key and title are drawn from the name of
\* that same file, whatever other fields and files came before it under
\* whatever names (create_job).
TitleOf(name) ==
  IF CleanDisplayName(name) = None THEN Sanitize(name) ELSE CleanDisplayName(name)

RowKeepsItsFile ==
  row # NoRow =>
    /\ row = [filename |-> TitleOf(sent.raw), key |-> Sanitize(sent.raw)]
    /\ object = [name |-> row.key, field |-> sent.field, size |-> sent.size]

\* Of the requests that get an answer, only one whose body broke off or whose
\* disk failed leaves upload-{id} behind: not one without a file, nor one the
\* stores refused (the calls of remove_dir_all in create_job).
ScratchIsCleared ==
  at = "answered" /\ dirThere => outcome \in {"broken body", "disk"}

\* The answer says what the stores hold: after 202 there is a row, after 400
\* nothing of the upload is stored, and only a 500 can leave an object that
\* no row names (create_job, with the statuses of error.rs).
AnswerTellsTheTruth ==
  at = "answered" =>
    CASE StatusOf(outcome) = 202 -> row # NoRow /\ object # NoFile
      [] StatusOf(outcome) = 400 -> row = NoRow /\ object = NoFile
      [] StatusOf(outcome) = 500 -> row = NoRow

\* create_job's own limit never has to answer: the body limit of main.rs is
\* the same number, counts the rest of the form as well, and comes first.
BodyLimitComesFirst == outcome # "too large"

\* A stored key and the path demucs is given are never empty, keep to ASCII
\* without separators, are no name of a directory, and end in the extension the
\* file was uploaded under: it survives being made a key, and the key being made
\* a path.  A title is never empty and holds nothing that ends a quoted string
\* or a path (create_job, and process, lines 79 to 89).
PathName(name) ==
  /\ name # None /\ Trim(name, {"dot"}) # None
  /\ \A i \in DOMAIN name : name[i] \in Ascii \ {"slash", "quote", "pct"}

Dots(s) == {i \in DOMAIN s : s[i] = "dot"}

HasExtension(s) ==
  /\ Dots(s) # {} /\ Max(Dots(s)) = Len(s) - 1 /\ s[Len(s)] \in Alnum
  /\ \E i \in 1..(Len(s) - 2) : s[i] \in Symbol \ {"dot", "space", "wide"}

NamesAreUsable ==
  row # NoRow =>
    /\ PathName(row.key) /\ PathName(LocalName)
    /\ LET base == LastSegment(sent.raw)
       IN  HasExtension(base) =>
             HasExtension(LocalName) /\ LocalName[Len(LocalName)] = base[Len(base)]
    /\ row.filename # None
    /\ \A i \in DOMAIN row.filename : row.filename[i] \notin {"slash", "quote"}

\* The download header is ASCII, its quoted form ends where it should, and its
\* starred form decodes to the title (content_disposition).
Unread == [text |-> <<>>, escaped |-> FALSE]

ReadSymbol(read, c) ==
  IF read.escaped THEN [text |-> Append(read.text, c), escaped |-> FALSE]
  ELSE IF c = "pct" THEN [read EXCEPT !.escaped = TRUE]
  ELSE [read EXCEPT !.text = Append(@, c)]

PercentDecoded(s) ==
  LET read[i \in 0..Len(s)] == IF i = 0 THEN Unread ELSE ReadSymbol(read[i - 1], s[i])
  IN  read[Len(s)].text

HeaderCarriesTitle ==
  row # NoRow =>
    LET name   == DownloadName(row.filename)
        header == ContentDisposition(name)
    IN  /\ PercentDecoded(header.starred) = name
        /\ \A i \in DOMAIN header.filename : header.filename[i] \in Ascii \ {"quote"}

\* Demucs is given the client's audio, with two exceptions and no third.  A worker
\* without the key gives it a sealed upload as it is.  One with the key gives it
\* a file that is gone if the upload was sealed and the client called it
\* object.bin, the name the fetched object has on the way.  That name between
\* blanks and dots may fare the same, as the key is made a path by another turn
\* of sanitize; no other name does (process, lines 83 to 106).
WhatDemucsIsGiven ==
  LET opened    == localIn.sealed /\ localIn.keyed
      base      == LastSegment(sent.raw)
      objectBin == <<"object", "dot", "bin">>
  IN  /\ localIn.holds = "sealed" => localIn.sealed /\ ~localIn.keyed
      /\ localIn.holds = "lost" => opened /\ Trim(base, {"space", "dot"}) = objectBin
      /\ opened /\ base = objectBin => localIn.holds = "lost"
===============================================================================
