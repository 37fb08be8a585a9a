------------------------ MODULE MCStartupOrchestrator ------------------------
(***************************************************************************)
(* The orchestrator of the window: one active-workspace task at a time and *)
(* one thread scan at a time.  Two workspaces: the scan of the active one, *)
(* the idle scan of the other, which shares its concurrency key, and the   *)
(* model catalog of the active one, asked for on demand.                   *)
(***************************************************************************)
EXTENDS StartupOrchestrator

D(key, phase, priority, heavy, scope) ==
    [key |-> key, phase |-> phase, priority |-> priority, heavy |-> heavy, scope |-> scope]

ScanA   == D("thread-list-a", "active-workspace", 90, "thread-session-scan", "a")
RadarB  == D("thread-list-b", "idle-prewarm", 30, "thread-session-scan", "b")
ModelsA == D("model-catalog-a", "on-demand", 85, "model-catalog", "a")

MCDescriptors == {ScanA, RadarB, ModelsA}

MCPhaseLimit == [p \in ToSet(Phases) |-> IF p = "on-demand" THEN 2 ELSE 1]
MCHeavyLimit == [h \in {"thread-session-scan"} |-> 1]
=============================================================================
