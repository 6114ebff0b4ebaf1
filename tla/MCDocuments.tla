---------------------------- MODULE MCDocuments ----------------------------
(* Configuration files for TLC: the example file of the repository, reduced *)
(* to issues and pull requests, and what becomes of it when entries are     *)
(* left out or changed.                                                     *)
EXTENDS Documents, TLC

MCItems == {"7", "8"}
MCPullRequests == {"8"}

\* Of one user the file has a small letter where GitHub has a capital; of the other it
\* is the other way round.
MCAuthor == ("7" :> Login("other", TRUE)) @@ ("8" :> Login("icecrime", FALSE))
MCUserFile == {Login("icecrime", TRUE), Login("other", FALSE)}

Item == [number |-> Number, author |-> UserData]

EventTable(name) ==
    [action |-> Text("opened"), item |-> Nested(name)]
    @@ ("_snapshot_id" :> Text("number")) @@ ("_snapshot_field" :> Text("item"))

ExampleTransformations ==
    [issue |-> Item, pull_request |-> Item,
     issues_event |-> ("_type" :> Text("issue")) @@ EventTable("issue"),
     pull_request_event |-> EventTable("pull_request")]

ExampleEvents ==
    [issues |-> "issues_event", pull_request |-> "pull_request_event",
     snapshot_issue |-> "issue", snapshot_pull_request |-> "pull_request"]

Section(topic) == [events |-> "", topic |-> topic]

ExampleFile ==
    [sync_periodicity |-> "hourly",
     repositories |-> (<<"engine">> :> Section("t1")) @@ (<<"engine", "ui">> :> Section("t2")),
     event_set |-> [default |-> ExampleEvents],
     transformations |-> ExampleTransformations]

Without(f, k) == [x \in DOMAIN f \ {k} |-> f[x]]

\* Event sets: without one of the events; with an unknown transformation; with one
\* that is for the other event.
MCEventSets ==
    {ExampleEvents} \cup {Without(ExampleEvents, e) : e \in DOMAIN ExampleEvents}
    \cup {[ExampleEvents EXCEPT !.issues = t] : t \in {"unknown", "issue"}}

\* Tables for pull request events: nothing to snapshot; half of what it takes; a
\* field that is not there; a type of its own; a transformation that is unknown.
MCEventTables ==
    {EventTable("pull_request"), [action |-> Text("opened")],
     Without(EventTable("pull_request"), "_snapshot_id"),
     Without(EventTable("pull_request"), "item"),
     ("_type" :> Text("pr")) @@ EventTable("pull_request"),
     EventTable("unknown")}

\* The repositories' sections name the event set "small", which the decoder ignores.
Named(f) == [f EXCEPT !.repositories = [r \in DOMAIN @ |-> [@[r] EXCEPT !.events = "small"]]]

MCFiles ==
    {[ExampleFile EXCEPT !.event_set.default = set] : set \in MCEventSets}
    \cup {[ExampleFile EXCEPT !.transformations.pull_request_event = t] : t \in MCEventTables}
    \cup {[ExampleFile EXCEPT !.transformations.issue = Without(Item, "number")],
          [ExampleFile EXCEPT !.repositories[<<"engine">>] = Section("t2")],
          [ExampleFile EXCEPT !.sync_periodicity = "monthly"],
          [ExampleFile EXCEPT !.transformations.issue = [Item EXCEPT !.number = Broken]],
          Named(ExampleFile), [ExampleFile EXCEPT !.event_set = [small |-> ExampleEvents]]}
=============================================================================
