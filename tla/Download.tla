------------------------------- MODULE Download ------------------------------
(***************************************************************************)
(* download_stem against everything that can happen to the job meanwhile.  *)
(* It reads the row, then opens the object, or sends the client to the     *)
(* bucket for it; delete_job removes the one, then the other.  The rest of *)
(* the service is module Service, whose variables no step here changes.    *)
(***************************************************************************)
EXTENDS ServiceProperties

VARIABLES
  transfer,   \* where one client's download is
  wanted      \* the job and stem it is of

downloadVars == <<transfer, wanted>>
allVars      == <<vars, downloadVars>>

\* transfer is "idle", "row", "refused", "missing", "redirected" for a client
\* that holds a presigned URL, or "whole" or "partial" for a body on its way, of
\* an object that was so when it was opened.
DownloadInit == Init /\ transfer = "idle" /\ wanted = Null

WantedJob == wanted[1]
WantedStem == wanted[2]

-------------------------------------------------------------------------------

\* The row is done and lists the stem.
Downloadable(j, s) == Is(j, "done") /\ s \in jobs[j].stems

\* NotFound or BadRequest otherwise.
ReadRow(j, s) ==
  /\ Up /\ transfer = "idle"
  /\ IF Downloadable(j, s)
       THEN transfer' = "row" /\ wanted' = <<j, s>>
       ELSE transfer' = "refused" /\ UNCHANGED wanted
  /\ UNCHANGED vars

\* What a get_object of the wanted stem finds.
Found ==
  LET content == objects[WantedJob][WantedStem]
  IN  IF content = "none" THEN "missing" ELSE content

\* With an audio key, or to be played, the object is streamed through here.
OpenStream ==
  /\ Up /\ transfer = "row"
  /\ transfer' = Found
  /\ UNCHANGED <<wanted, vars>>

\* A presigned URL is made without asking the store.
RedirectClient ==
  /\ Up /\ transfer = "row"
  /\ transfer' = "redirected"
  /\ UNCHANGED <<wanted, vars>>

\* The client follows it whenever it likes, and the service need not be up.
FollowUrl ==
  /\ transfer = "redirected"
  /\ transfer' = Found
  /\ UNCHANGED <<wanted, vars>>

\* The body arrives or breaks off, the answer is read, the client gives up or
\* the service goes down; then the client may ask again.
TransferEnds ==
  /\ transfer # "idle"
  /\ transfer' = "idle" /\ wanted' = Null
  /\ UNCHANGED vars

DownloadStep ==
  \/ \E j \in Job, s \in Stem : ReadRow(j, s)
  \/ OpenStream \/ RedirectClient \/ FollowUrl \/ TransferEnds

DownloadNext ==
  \/ Next /\ UNCHANGED downloadVars
  \/ DownloadStep

DownloadSpec     == DownloadInit /\ [][DownloadNext]_allVars
DownloadFairSpec == DownloadSpec /\ Fairness

-------------------------------------------------------------------------------

\* A done job can be downloaded: no client is served a stem cut short by a
\* killed demucs or a crash, and the object is missing only for a job whose
\* delete removed the row after the download had read it (download_stem, against
\* collect_audio and the order of delete_job).
ServesWholeStems ==
  /\ transfer # "partial"
  /\ transfer = "missing" => removal[WantedJob] # "idle"
===============================================================================
