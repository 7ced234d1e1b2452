------------------------------- MODULE Intake --------------------------------
(***************************************************************************)
(* One upload, from the first byte of its multipart body to the answer,    *)
(* and the worker's way back to the file: create_job in full, with the     *)
(* form's fields in any order and number, the two limits on its size, the  *)
(* upload's own scratch directory, and the names drawn from what the       *)
(* client called the file.  Module Service takes an upload up where this   *)
(* one puts the input.                                                     *)
(*                                                                         *)
(* A size is a number of units; a file's content is known by the field it  *)
(* came in.                                                                *)
(***************************************************************************)
EXTENDS Names

CONSTANTS
  RawName,     \* what clients call files
  Part,        \* sizes of the pieces a file arrives in
  FieldCost,   \* what the boundary and headers of a field add to the body
  MaxUpload,   \* MAX_UPLOAD_BYTES
  MaxFields    \* bound on the fields of one form

ASSUME IntakeAssumption ==
  /\ RawName \subseteq Title
  /\ Part \subseteq Nat \ {0} /\ FieldCost \in Nat \ {0}
  /\ MaxUpload \in Nat /\ MaxFields \in Nat

VARIABLES
  at,          \* where the handler is
  outcome,     \* how the request ended, "none" before
  dirThere,    \* whether upload-{id} exists
  dir,         \* its files, by name
  body,        \* how much of the body has been read
  fields,      \* how many fields it had so far
  raw, dest,   \* the file being read: what the client calls it, and its name here
  written,     \* how much of it
  filename, display, model, twoStems,    \* the handler's locals
  sent,        \* the last file the client sent to its end
  object,      \* what is stored under jobs/{id}/input/
  row,         \* the inserted row
  localIn      \* what the worker hands to demucs, and of which upload

form     == <<body, fields, sent>>
locals   == <<filename, display, model, twoStems>>
scratch  == <<dirThere, dir>>
reading  == <<raw, dest, written>>
stores   == <<object, row>>
vars == <<at, outcome, scratch, form, reading, locals, stores, localIn>>

BadRequest == {"broken body", "too large", "no file"}
Other      == {"disk", "store"}
NoFile == [name |-> None, field |-> 0, size |-> 0]
Nothing == [raw |-> None, field |-> 0, size |-> 0]
NoRow  == [filename |-> None, key |-> None]
Empty  == [name \in {} |-> NoFile]
NotFetched == [sealed |-> FALSE, keyed |-> FALSE, holds |-> "none"]

Input == [sealed : BOOLEAN, keyed : BOOLEAN, holds : {"none", "audio", "sealed", "lost"}]

IntakeTypeOK ==
  /\ at \in {"create", "fields", "file", "put", "insert", "notify", "answered", "dropped"}
  /\ outcome \in BadRequest \cup Other \cup {"none", "accepted"}
  /\ dirThere \in BOOLEAN /\ (~dirThere => dir = Empty)
  /\ \A name \in DOMAIN dir : dir[name].name = name /\ dir[name].field \in 1..MaxFields
  /\ body \in Nat /\ fields \in 0..MaxFields /\ written \in 0..MaxUpload
  /\ raw \in Title /\ dest \in Title /\ filename \in Title /\ display \in Title
  /\ model \in {"default", "given"} /\ twoStems \in BOOLEAN
  /\ object.name \in Title /\ row.key \in Title
  /\ localIn \in Input

Init ==
  /\ at = "create" /\ outcome = "none"
  /\ dirThere = FALSE /\ dir = Empty
  /\ body = 0 /\ fields = 0 /\ raw = None /\ dest = None /\ written = 0
  /\ filename = None /\ display = None /\ model = "default" /\ twoStems = FALSE
  /\ sent = Nothing /\ object = NoFile /\ row = NoRow
  /\ localIn = NotFetched

-------------------------------------------------------------------------------

\* The status of the answer to each outcome.
StatusOf(end) == CASE end \in BadRequest -> 400
                   [] end \in Other      -> 500
                   [] end = "accepted"   -> 202

\* Mutated form of Refuse: an outcome nothing else knows.
RefuseUnexplained(why) == at' = "answered" /\ outcome' = "refused"

Refuse(why) == at' = "answered" /\ outcome' = why
GoTo(pc)    == at' = pc /\ UNCHANGED outcome

\* remove_dir_all is taken to succeed; its result is thrown away.
RemoveScratch == dirThere' = FALSE /\ dir' = Empty

\* Mutated form of FitsBody: the body has no limit of its own.
FitsAnyBody(n) == TRUE

\* DefaultBodyLimit is given the same number as the limit on the file, and
\* counts everything in the body.
FitsBody(n) == body + n <= MaxUpload

\* File::create in the directory.
DirWith(name, file) ==
  [n \in DOMAIN dir \cup {name} |-> IF n = name THEN file ELSE dir[n]]

CreateScratch ==
  /\ at = "create"
  /\ \/ /\ GoTo("fields")
        /\ dirThere' = TRUE
     \/ /\ Refuse("disk")
        /\ UNCHANGED dirThere
  /\ UNCHANGED <<dir, form, reading, locals, stores, localIn>>

\* Mutated form of OpenFile: a second file of the same name is added to.
OpenFileToAppend(name) ==
  /\ at = "fields" /\ fields < MaxFields /\ FitsBody(FieldCost)
  /\ body' = body + FieldCost /\ fields' = fields + 1
  /\ display' = CleanDisplayName(name)
  /\ raw' = name /\ dest' = Sanitize(name) /\ written' = 0
  /\ GoTo("file")
  /\ dir' = DirWith(dest', IF dest' \in DOMAIN dir THEN dir[dest']
                           ELSE [name |-> dest', field |-> fields', size |-> 0])
  /\ UNCHANGED <<sent, dirThere, filename, model, twoStems, stores, localIn>>

\* File::create truncates what an earlier field of that name left there.
OpenFile(name) ==
  /\ at = "fields" /\ fields < MaxFields /\ FitsBody(FieldCost)
  /\ body' = body + FieldCost /\ fields' = fields + 1
  /\ display' = CleanDisplayName(name)
  /\ raw' = name /\ dest' = Sanitize(name) /\ written' = 0
  /\ \/ /\ GoTo("file")
        /\ dir' = DirWith(dest', [name |-> dest', field |-> fields', size |-> 0])
     \/ /\ Refuse("disk")
        /\ UNCHANGED dir
  /\ UNCHANGED <<sent, dirThere, filename, model, twoStems, stores, localIn>>

\* The handler's own limit, and a disk that fills up.
ReadPart(n) ==
  /\ at = "file" /\ FitsBody(n)
  /\ body' = body + n
  /\ IF written + n > MaxUpload
       THEN /\ Refuse("too large")
            /\ RemoveScratch
            /\ UNCHANGED written
       ELSE /\ written' = written + n
            /\ \/ /\ GoTo("file")
                  /\ dir' = [dir EXCEPT ![dest].size = @ + n]
               \/ /\ Refuse("disk")
                  /\ UNCHANGED dir
            /\ UNCHANGED dirThere
  /\ UNCHANGED <<fields, sent, raw, dest, locals, stores, localIn>>

\* The client is done with the file; `sent` remembers what it sent.
EndFile ==
  /\ at = "file"
  /\ \/ /\ GoTo("fields")
        /\ filename' = dest
        /\ sent' = [raw |-> raw, field |-> fields, size |-> written]
     \/ /\ Refuse("disk")
        /\ UNCHANGED <<filename, sent>>
  /\ UNCHANGED <<body, fields, raw, dest, written, display, model, twoStems,
                 scratch, stores, localIn>>

\* A text that cannot be read counts as blank; a blank one changes nothing.
ReadText(isModel, blank) ==
  /\ at = "fields" /\ fields < MaxFields /\ FitsBody(FieldCost)
  /\ body' = body + FieldCost /\ fields' = fields + 1
  /\ model' = IF isModel /\ ~blank THEN "given" ELSE model
  /\ twoStems' = (twoStems \/ (~isModel /\ ~blank))
  /\ UNCHANGED <<at, outcome, scratch, sent, reading, filename, display,
                 stores, localIn>>

\* The stream breaks off, between fields or in a file: malformed, cut short,
\* or longer than the limit on bodies.
BodyFails ==
  /\ at \in {"fields", "file"}
  /\ Refuse("broken body")
  /\ UNCHANGED <<scratch, form, reading, locals, stores, localIn>>

EndOfForm ==
  /\ at = "fields"
  /\ \/ /\ filename = None
        /\ Refuse("no file")
        /\ RemoveScratch
     \/ /\ filename # None
        /\ GoTo("put")
        /\ UNCHANGED scratch
  /\ UNCHANGED <<form, reading, locals, stores, localIn>>

\* Mutated forms of Put: its result is thrown away, and an error returns before the directory is removed.
PutUnchecked ==
  /\ at = "put"
  /\ GoTo("insert")
  /\ object' \in {object, dir[filename]}
  /\ RemoveScratch
  /\ UNCHANGED <<form, reading, locals, row, localIn>>

PutThenRemove ==
  /\ at = "put"
  /\ \/ /\ GoTo("insert")
        /\ object' = dir[filename]
        /\ RemoveScratch
     \/ /\ Refuse("store")
        /\ UNCHANGED <<object, scratch>>
  /\ UNCHANGED <<form, reading, locals, row, localIn>>

\* The directory goes whether the object was stored or not.
Put ==
  /\ at = "put"
  /\ \/ /\ GoTo("insert")
        /\ object' = dir[filename]
     \/ /\ Refuse("store")
        /\ UNCHANGED object
  /\ RemoveScratch
  /\ UNCHANGED <<form, reading, locals, row, localIn>>

InsertJob ==
  /\ at = "insert"
  /\ \/ /\ GoTo("notify")
        /\ row' = [filename |-> IF display = None THEN filename ELSE display,
                   key |-> filename]
     \/ /\ Refuse("store")
        /\ UNCHANGED row
  /\ UNCHANGED <<scratch, form, reading, locals, object, localIn>>

Accept ==
  /\ at = "notify"
  /\ at' = "answered" /\ outcome' = "accepted"
  /\ UNCHANGED <<scratch, form, reading, locals, stores, localIn>>

\* The client hangs up or the process dies: the handler is gone at an await.
Dropped ==
  /\ at \notin {"answered", "dropped"}
  /\ at' = "dropped"
  /\ UNCHANGED <<outcome, scratch, form, reading, locals, stores, localIn>>

\* Mutated form of FetchedAs: the fetched object has the name sanitize falls
\* back to.
FetchedAsFallback == Fallback

FetchedAs == <<"object", "dot", "bin">>

LocalName == Sanitize(row.key)

\* What is left of the fetched object: a sealed one is opened into the local
\* file by a worker with its key, and then removed; any other is renamed.
InDir(sealed, keyed) ==
  IF sealed /\ keyed
    THEN [name \in {LocalName} \ {FetchedAs} |-> "audio"]
    ELSE [name \in {LocalName} |-> IF sealed THEN "sealed" ELSE "audio"]

\* The client sealed the file if it had a key, the worker has one or has not.
FetchInput ==
  /\ row # NoRow /\ localIn = NotFetched
  /\ \E sealed, keyed \in BOOLEAN :
       LET files == InDir(sealed, keyed)
       IN  localIn' = [sealed |-> sealed, keyed |-> keyed,
                       holds |-> IF LocalName \in DOMAIN files THEN files[LocalName]
                                                               ELSE "lost"]
  /\ UNCHANGED <<at, outcome, scratch, form, reading, locals, stores>>

Next ==
  \/ CreateScratch
  \/ \E name \in RawName : OpenFile(name)
  \/ \E n \in Part : ReadPart(n)
  \/ EndFile
  \/ \E isModel, blank \in BOOLEAN : ReadText(isModel, blank)
  \/ BodyFails \/ EndOfForm
  \/ Put \/ InsertJob \/ Accept \/ Dropped
  \/ FetchInput

Spec == Init /\ [][Next]_vars
===============================================================================
