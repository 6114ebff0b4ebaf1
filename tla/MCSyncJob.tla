----------------------------- MODULE MCSyncJob -----------------------------
(* Two repositories for TLC. *)
EXTENDS SyncJob

CONSTANTS f1, f2, x1, x2

\* Repository 1 has three pull requests in a row and then an issue, more than either
\* channel holds: whoever lists waits for room in toFetch while no goroutine has
\* started, and for room in toIndex when the fetching ones have filled it, and so do
\* these.  Of repository 2 the job starts on the second page, with a pull request.
TwoRepos == << << <<TRUE, TRUE>>, <<TRUE, FALSE>> >>, << <<FALSE, FALSE>>, <<TRUE>> >> >>

\* Repository 1 from its first page, repository 2 from its second.
Starts == [r \in Repos |-> IF r = 1 THEN 0 ELSE PerPage]
=============================================================================
