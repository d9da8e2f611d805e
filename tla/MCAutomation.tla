--------------------------- MODULE MCAutomation ----------------------------
(* Two devices, the agent's and another; one template; two folders. *)
EXTENDS Automation, TLC
CONSTANTS here, there, tpl, x, y, j1, j2, j3, j4

MCSettings == {{}, {"watch"}, {"connect"}, {"period"}, {"cron"}, {"start"}}

Budget(b) == b @@ [tasks |-> 2, offers |-> {{}, {"watch"}}] @@
    [k \in {"posts", "routes", "catalog", "runs", "edits", "folders", "minutes", "faults"} |-> 0]
Job(path, auto) == [pair |-> None, device |-> None, path |-> path, auto |-> auto,
                    status |-> "idle", lastRun |-> None, createdAt |-> 0]
Member(path, auto) == [Job(path, auto) EXCEPT !.pair = <<tpl, here>>, !.device = here]
Case(start, rows, devices, linked, auto, b) ==
    [jobs |-> [j \in Jobs |-> IF j = j1 /\ rows # <<>> THEN rows[1]
                              ELSE IF j = j2 /\ Len(rows) = 2 THEN rows[2] ELSE None],
     members |-> devices, links |-> [t \in Templates |-> linked],
     defaults |-> [t \in Templates |-> auto], budget |-> Budget(b), start |-> start]

MCCases ==
    LET watched == Job(x, {"watch"})  member == Member(x, {"watch"}) IN
    \* Edits, runs and new settings.
    { Case("online", <<watched>>, {}, None, {}, [edits |-> 2, runs |-> 1]),
      Case("online", <<watched, watched>>, {}, None, {}, [edits |-> 1, runs |-> 1]),
      Case("online", <<watched>>, {}, None, {}, [edits |-> 1, routes |-> 2]),
      Case("online", <<watched>>, {}, None, {}, [edits |-> 1, posts |-> 1]),
    \* Folders that come and go.
      Case("new", <<Job(x, {"connect"})>>, {}, None, {},
           [folders |-> 2, routes |-> 1, offers |-> {{"connect"}}]),
    \* Lost connections, deaths and starts.
      Case("online", <<watched>>, {}, None, {}, [edits |-> 1, runs |-> 1, faults |-> 1]),
      Case("new", <<watched>>, {}, None, {}, [edits |-> 1, routes |-> 1, faults |-> 1]),
      Case("new", <<Job(x, {"start"})>>, {}, None, {}, [runs |-> 1, faults |-> 1]),
    \* Schedules.
      Case("online", <<Job(x, {"cron"}), Job(y, {"period"})>>, {}, None, {},
           [minutes |-> 3, tasks |-> 1]),
      Case("online", <<Job(x, {"period"})>>, {}, None, {}, [minutes |-> 3, runs |-> 2, tasks |-> 1]),
    \* The collection and its jobs, with no agent and with one.
      Case("absent", <<>>, {here}, None, {"watch"}, [catalog |-> 3]),
      Case("absent", <<member>>, {here}, x, {"watch"}, [catalog |-> 2, routes |-> 1]),
      Case("online", <<member>>, {here}, x, {"watch"}, [catalog |-> 1, routes |-> 1, edits |-> 1]) }
=============================================================================
