------------------------------ MODULE MCConsole ------------------------------
(***************************************************************************)
(* Instances of the console for TLC.                                       *)
(***************************************************************************)
EXTENDS ConsoleProperties

Characters == <<"pct", "A", "back", "under", "a">>
Names      == {<<"a", "pct">>, <<"back", "under">>}
NoQueries  == {<<>>}

\* A job that is done and one that came after it and is in line.
Done(name, t) == [NoRow EXCEPT !.status = "done", !.progress = 100, !.stems = Stem,
                               !.started = TRUE, !.finished = TRUE,
                               !.filename = name, !.created = t]

InLine(name, t) == [NoRow EXCEPT !.status = "queued", !.filename = name, !.created = t]

Two == [j \in Job |-> IF j = 1 THEN Done(<<"back", "under">>, 1) ELSE InLine(<<"a", "pct">>, 2)]
===============================================================================
