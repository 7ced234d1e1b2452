------------------------------- MODULE Console -------------------------------
(***************************************************************************)
(* The job list of the console against the service: a loop that polls and  *)
(* that every change of the filters starts anew, one more refresh after    *)
(* every write and every change of the filters, answers that come in any   *)
(* order or not at all, and rows that other clients and the worker change  *)
(* meanwhile.  JavaScript runs each handler up to its next await in one    *)
(* step.                                                                   *)
(***************************************************************************)
EXTENDS JobList

CONSTANTS
  Sort,       \* SORTS, as far as they are used
  PageSize,   \* PAGE
  Initial,    \* the rows when the console is opened
  MaxMoves    \* bound on clicks, changes by others and failed requests

ASSUME ConsoleAssumption ==
  /\ PageSize \in Nat \ {0} /\ MaxMoves \in Nat
  /\ "newest" \in Sort /\ IsFiniteSet(Job)
  /\ Initial \in [Job -> Row]

VARIABLES
  page, total, queueDepth, online, loaded,   \* what the console shows
  filters,     \* query, sort, favOnly and offset
  debounce,    \* whether the timer of a filter change is set
  loop,        \* how many loops were stopped before the one that polls
  requests,    \* the refreshes on their way
  writes,      \* the PATCHes and DELETEs on their way
  edit,        \* editing and draft
  patched,     \* how many PATCHes the edit has sent
  moves

shown == <<page, total, queueDepth, online, loaded>>
vars  == <<jobs, shown, filters, debounce, loop, requests, writes, edit, patched, moves>>

\* A loop has one refresh at a time, which is answered after the loop was
\* stopped as well; of the refreshes of no loop, one is enough to be overtaken
\* by the others and to overtake them.
Extra == -1
Slot  == {Extra} \cup 0..MaxMoves

View(j) == [id |-> j, status |-> jobs[j].status,
            favorite |-> jobs[j].favorite, filename |-> jobs[j].filename]

Views(rows) == [i \in DOMAIN rows |-> View(rows[i])]

Idle       == [at |-> "idle"]
Asked(p)   == [at |-> "sent", for |-> p, page |-> <<>>, total |-> Null, depth |-> Null]
NoEdit     == [editing |-> Null, draft |-> CHOOSE n \in Name : TRUE]

\* The console asks for no status.
FirstFilters == [status |-> Null, q |-> <<>>, sort |-> "newest", favorite |-> FALSE,
                 limit |-> PageSize, offset |-> 0]

Filters == [status : {Null}, q : Query, sort : Sort, favorite : BOOLEAN, limit : {PageSize},
            offset : {PageSize * n : n \in 0..MaxMoves}]

ConsoleTypeOK ==
  /\ StoreTypeOK
  /\ \A i \in DOMAIN page : page[i].id \in Job
  /\ total \in 0..Cardinality(Job) /\ queueDepth \in 0..Cardinality(Job)
  /\ online \in BOOLEAN /\ loaded \in BOOLEAN /\ debounce \in BOOLEAN
  /\ filters \in Filters
  /\ \A r \in Slot : requests[r].at \in {"idle", "sent", "paged", "counted"}
  /\ \A w \in writes : w.id \in Job /\ w.at \in {"sent", "answered"}
  /\ edit.editing \in Job \cup {Null} /\ edit.draft \in Name \cup {<<>>}
  /\ moves \in 0..MaxMoves /\ loop \in 0..moves

ConsoleInit ==
  /\ jobs = Initial
  /\ page = <<>> /\ total = 0 /\ queueDepth = 0 /\ online = TRUE /\ loaded = FALSE
  /\ filters = FirstFilters
  /\ debounce = TRUE /\ loop = 0
  /\ requests = [r \in Slot |-> IF r = 0 THEN Asked(filters) ELSE Idle]
  /\ writes = {} /\ edit = NoEdit /\ patched = 0 /\ moves = 0

Move == moves < MaxMoves /\ moves' = moves + 1

-------------------------------------------------------------------------------
(* A refresh: two requests at once, of which the search reads its page and *)
(* its total one after the other.                                          *)

\* Mutated form of Refresh: the filters are those the page was opened with.
RefreshOfTheStart(r) ==
  requests[r] = Idle /\ requests' = [requests EXCEPT ![r] = Asked(FirstFilters)]

Refresh(r) ==
  requests[r] = Idle /\ requests' = [requests EXCEPT ![r] = Asked(filters)]

ReadPage(r) ==
  /\ requests[r].at = "sent"
  /\ \E rows \in Pages(requests[r].for) :
       requests' = [requests EXCEPT ![r].at = "paged", ![r].page = Views(rows)]
  /\ UNCHANGED <<jobs, shown, filters, debounce, loop, writes, edit, patched, moves>>

ReadTotal(r) ==
  /\ requests[r].at = "paged"
  /\ requests' = [requests EXCEPT ![r].at = "counted",
                                  ![r].total = Total(requests[r].for)]
  /\ UNCHANGED <<jobs, shown, filters, debounce, loop, writes, edit, patched, moves>>

ReadHealth(r) ==
  /\ requests[r] # Idle /\ requests[r].depth = Null
  /\ requests' = [requests EXCEPT ![r].depth = QueueDepth]
  /\ UNCHANGED <<jobs, shown, filters, debounce, loop, writes, edit, patched, moves>>

\* What refresh does when both answers are there, or when one of the requests
\* has thrown: then neither is of use.
TakeAnswer(r, searched, healthy) ==
  /\ requests[r] # Idle
  /\ searched => requests[r].at = "counted"
  /\ healthy => requests[r].depth # Null
  /\ IF searched THEN page' = requests[r].page /\ total' = requests[r].total
                 ELSE UNCHANGED <<page, total>>
  /\ queueDepth' = IF healthy THEN requests[r].depth ELSE queueDepth
  /\ online' = (searched /\ healthy)
  /\ loaded' = TRUE
  /\ requests' = [requests EXCEPT ![r] = Idle]
  /\ UNCHANGED <<jobs, filters, debounce, loop, writes, edit, patched>>

Answered(r) == TakeAnswer(r, TRUE, TRUE) /\ UNCHANGED moves

Failed(r) ==
  /\ Move
  /\ \E searched, healthy \in BOOLEAN :
       ~(searched /\ healthy) /\ TakeAnswer(r, searched, healthy)

\* 1.2 or 6 seconds after the last one of the loop.
PollAgain ==
  /\ Refresh(loop)
  /\ UNCHANGED <<jobs, shown, filters, debounce, loop, writes, edit, patched, moves>>

Debounced ==
  /\ debounce /\ debounce' = FALSE
  /\ Refresh(Extra)
  /\ UNCHANGED <<jobs, shown, filters, loop, writes, edit, patched, moves>>

-------------------------------------------------------------------------------
(* The toolbar and the pager.                                              *)

\* The first refresh of a loop reads the filters before it awaits anything, so
\* the effect that runs the loop depends on them: a change stops the loop, whose
\* refresh may still be under way, and starts another, which asks at once.
SetFilters(f) ==
  /\ Move
  /\ filters' = f /\ f # filters
  /\ debounce' = TRUE
  /\ loop' = loop + 1
  /\ requests' = [requests EXCEPT ![loop'] = Asked(f)]
  /\ UNCHANGED <<jobs, shown, writes, edit, patched>>

Narrow ==
  \E q \in Query, s \in Sort, fav \in BOOLEAN :
    /\ Cardinality({k \in {"q", "sort", "favorite"} :
         [filters EXCEPT !.q = q, !.sort = s, !.favorite = fav][k] # filters[k]}) = 1
    /\ SetFilters([filters EXCEPT !.q = q, !.sort = s, !.favorite = fav, !.offset = 0])

PagerShown == page # <<>> /\ total > PageSize

\* Mutated form of PrevPage: nothing keeps the offset from falling below zero.
PrevPageAnywhere ==
  /\ PagerShown
  /\ SetFilters([filters EXCEPT !.offset = @ - PageSize])

PrevPage ==
  /\ PagerShown /\ filters.offset # 0
  /\ SetFilters([filters EXCEPT !.offset = Max({0, @ - PageSize})])

NextPage ==
  /\ PagerShown /\ filters.offset + Len(page) < total
  /\ SetFilters([filters EXCEPT !.offset = @ + PageSize])

-------------------------------------------------------------------------------
(* The rows: stars, renames and deletes, each with its own request.        *)

Patch(id, name, star) == [kind |-> "patch", id |-> id, name |-> name, star |-> star, at |-> "sent"]
Deletion(id) == [kind |-> "delete", id |-> id, name |-> Null, star |-> Null, at |-> "sent"]

\* The star is drawn before the write is known to succeed.
ToggleFavorite(i) ==
  /\ Move
  /\ page' = [page EXCEPT ![i].favorite = ~@]
  /\ Patch(page[i].id, Null, ~page[i].favorite) \notin writes
  /\ writes' = writes \cup {Patch(page[i].id, Null, ~page[i].favorite)}
  /\ UNCHANGED <<jobs, total, queueDepth, online, loaded, filters, debounce, loop,
                 requests, edit, patched>>

RemoveJob(i) ==
  /\ Move
  /\ page[i].status # "running"
  /\ Deletion(page[i].id) \notin writes
  /\ writes' = writes \cup {Deletion(page[i].id)}
  /\ UNCHANGED <<jobs, shown, filters, debounce, loop, requests, edit, patched>>

\* A click on the name, and what is typed over it.
StartEdit(i) ==
  /\ Move
  /\ edit.editing # page[i].id
  /\ \E draft \in Name \cup {<<>>} : edit' = [editing |-> page[i].id, draft |-> draft]
  /\ patched' = 0
  /\ UNCHANGED <<jobs, shown, filters, debounce, loop, requests, writes>>

\* Mutated form of SaveName: the edit is not over when it is sent.
SaveNameAgain(row, e) ==
  IF e.editing # row.id \/ e.draft \in {<<>>, row.filename}
    THEN [e EXCEPT !.editing = IF @ = row.id THEN Null ELSE @]
    ELSE [e EXCEPT !.sent = Append(@, Patch(row.id, e.draft, Null))]

SaveName(row, e) ==
  IF e.editing # row.id THEN e
  ELSE IF e.draft \in {<<>>, row.filename} THEN [e EXCEPT !.editing = Null]
  ELSE [e EXCEPT !.editing = Null, !.sent = Append(@, Patch(row.id, e.draft, Null))]

\* Enter and Escape blur the field, which saves, and save again; leaving the
\* field saves once.  Escape puts the name back first.
EndEdit(i, key) ==
  LET row  == page[i]
      e    == [editing |-> edit.editing, sent |-> <<>>,
               draft |-> IF key = "Escape" THEN row.filename ELSE edit.draft]
      once == SaveName(row, e)
      done == IF key = "blur" THEN once ELSE SaveName(row, once)
  IN  /\ edit.editing = row.id
      /\ edit' = IF done.editing = Null THEN NoEdit
                 ELSE [editing |-> done.editing, draft |-> done.draft]
      /\ writes' = writes \cup Range(done.sent)
      /\ patched' = patched + Len(done.sent)
      /\ UNCHANGED <<jobs, shown, filters, debounce, loop, requests, moves>>

\* patch_job and delete_job do what they are asked or refuse; either way the
\* answer is there.
WriteReaches(w) ==
  /\ w.at = "sent"
  /\ CASE w.kind = "patch" /\ Exists(w.id) -> SetNameAndStar(w.id, w.name, w.star)
       [] w.kind = "delete" /\ Exists(w.id) /\ ~Is(w.id, "running") -> Delete(w.id)
       [] OTHER -> UNCHANGED jobs
  /\ writes' = (writes \ {w}) \cup {[w EXCEPT !.at = "answered"]}
  /\ UNCHANGED <<shown, filters, debounce, loop, requests, edit, patched, moves>>

WriteAnswered(w) ==
  /\ w.at = "answered"
  /\ writes' = writes \ {w}
  /\ Refresh(Extra)
  /\ UNCHANGED <<jobs, shown, filters, debounce, loop, edit, patched, moves>>

\* The write throws, before or after the service has seen it: no refresh.
WriteLost(w) ==
  /\ Move
  /\ writes' = writes \ {w}
  /\ UNCHANGED <<jobs, shown, filters, debounce, loop, requests, edit, patched>>

-------------------------------------------------------------------------------

\* Another client or the worker changes a row.
Others ==
  /\ Move
  /\ \E j \in Job :
       \/ \E name \in Name, t \in Instants : Insert(j, name, t)
       \/ ClaimNext(j)
       \/ Is(j, "running") /\ (SetDone(j, Stem) \/ SetFailed(j))
       \/ \E name \in Name, star \in Star : SetNameAndStar(j, name, star)
       \/ Delete(j)
  /\ UNCHANGED <<shown, filters, debounce, loop, requests, writes, edit, patched>>

ConsoleNext ==
  \/ PollAgain \/ Debounced
  \/ \E r \in Slot :
       ReadPage(r) \/ ReadTotal(r) \/ ReadHealth(r) \/ Answered(r) \/ Failed(r)
  \/ Narrow \/ PrevPage \/ NextPage
  \/ \E i \in DOMAIN page :
       \/ ToggleFavorite(i) \/ RemoveJob(i) \/ StartEdit(i)
       \/ \E key \in {"Enter", "Escape", "blur"} : EndEdit(i, key)
  \/ \E w \in writes : WriteReaches(w) \/ WriteAnswered(w) \/ WriteLost(w)
  \/ Others

ConsoleSpec == ConsoleInit /\ [][ConsoleNext]_vars

\* A timer of the page fires, and a request of the loop that does not fail is
\* answered.  Nothing is assumed of the user, of writes or of other refreshes.
PollStep ==
  \/ PollAgain
  \/ ReadPage(loop) \/ ReadTotal(loop) \/ ReadHealth(loop)
  \/ Answered(loop)

ConsoleFairness ==
  WF_vars(PollStep)

ConsoleFairSpec == ConsoleSpec /\ ConsoleFairness
===============================================================================
