------------------------------- MODULE AgentDesk -------------------------------
(***************************************************************************)
(* The runs of one agent of one company (agents/_core, the two runners):   *)
(* what starts them, the loop of model calls and tools, the row of the     *)
(* decision, and the overrides of the office that the next prompts teach.  *)
(* The two agents share no row and no cache entry, so that the initial     *)
(* state chooses which one is looked at.                                   *)
(*                                                                         *)
(* A server process keeps the prompt of an agent in memory for five        *)
(* minutes, and forgets it when it has answered an override; the other     *)
(* servers are not told.  The model is external: it answers with text,     *)
(* asks for tools or fails.  Simulated runs are left out.                  *)
(***************************************************************************)
EXTENDS Naturals

CONSTANTS
    Servers,
    Drops,          \* ids of EmergencyDrop rows; the one who creates a drop runs the agent
    Batches,        \* ticks of the emergency agent in progress
    Ticks,          \* ticks of the daily report in progress
    Regens,         \* requests to write the report again
    ServerOf,       \* drop, batch, tick or request -> the server that works on it
    Decisions,      \* ids of AgentDecision rows told apart, a bound
    MaxIterations,
    MaxRetries,
    MaxFaults,      \* bound: failed statements and restarts
    Null

Procs == Drops \cup Batches \cup Ticks \cup Regens

ASSUME AgentAssumption ==
    /\ ServerOf \in [Procs -> Servers]
    /\ MaxIterations \in Nat \ {0} /\ MaxRetries \in Nat /\ MaxFaults \in Nat
    /\ Null \notin Drops

VARIABLES
    agent,       \* the agent looked at: "emergency" or "daily_report"
    drop,        \* EmergencyDrop rows: NONE, OPEN or settled
    report,      \* the DailyReport row of yesterday: stored, isRead
    screen,      \* which report the office has on its screen, and its request to mark it
    decision,    \* AgentDecision rows: NONE, LOGGED or OVERRIDDEN
    cache,       \* server -> cached prompt: the overrides in it
    run,         \* run of the agent in progress
    todo,        \* drops a batch still has to visit
    override,    \* the override request in the office's hands
    told,        \* server -> stored overrides it has answered (history)
    missed,      \* server -> overrides that met a read of theirs or a failed one (history)
    faults

vars == <<agent, drop, report, screen, decision, cache, run, todo, override, told, missed, faults>>

\* What a run leaves alone while it only goes on.
inner == <<drop, report, screen, decision, cache, todo, override, told, missed, faults>>

-----------------------------------------------------------------------------
NoPrompt == [held |-> FALSE, known |-> {}]
NoRun == [pc |-> "idle", drop |-> Null, seen |-> {}, iteration |-> 0, attempt |-> 0]
NoOverride == [pc |-> "idle", server |-> Null, decision |-> Null]

Overridden == {d \in Decisions : decision[d] = "OVERRIDDEN"}

Init ==
    /\ agent \in {"emergency", "daily_report"}
    /\ drop = [x \in Drops |-> "NONE"]
    /\ report = [stored |-> FALSE, isRead |-> FALSE]
    /\ screen = [shows |-> "nothing", marking |-> FALSE]
    /\ decision = [d \in Decisions |-> "NONE"]
    /\ cache = [s \in Servers |-> NoPrompt]
    /\ run = [p \in Procs |-> NoRun]
    /\ todo = [b \in Batches |-> {}]
    /\ override = NoOverride
    /\ told = [s \in Servers |-> {}]
    /\ missed = [s \in Servers |-> {}]
    /\ faults = 0

Fault == faults < MaxFaults /\ faults' = faults + 1

At(p, pc) == run[p].pc = pc
Goto(p, pc) == run' = [run EXCEPT ![p].pc = pc]
Finish(p) == run' = [run EXCEPT ![p] = NoRun]

-----------------------------------------------------------------------------
(* What starts a run *)

Start(p, x) == run' = [run EXCEPT ![p] = [NoRun EXCEPT !.pc = "lookup", !.drop = x]]

\* A drop is created and dispatchImmediateEmergency runs the agent, unawaited.
Dispatch(x) ==
    /\ agent = "emergency"
    /\ drop[x] = "NONE"
    /\ drop' = [drop EXCEPT ![x] = "OPEN"]
    /\ Start(x, x)
    /\ UNCHANGED <<agent, report, screen, decision, cache, todo, override, told, missed, faults>>

\* A driver or the office settles it (EmergencyDrops).
SettleDrop(x) ==
    /\ drop[x] = "OPEN"
    /\ drop' = [drop EXCEPT ![x] = "SETTLED"]
    /\ UNCHANGED <<agent, report, screen, decision, cache, run, todo, override, told, missed, faults>>

\* runEmergencyAgentBatch, every ten minutes: the open drops of this moment.
BatchTick(b) ==
    /\ agent = "emergency"
    /\ todo[b] = {} /\ At(b, "idle")
    /\ todo' = [todo EXCEPT ![b] = {x \in Drops : drop[x] = "OPEN"}]
    /\ UNCHANGED <<agent, drop, report, screen, decision, cache, run, override, told, missed, faults>>

\* Its loop: one drop after the other, each run awaited.
BatchNext(b) ==
    /\ At(b, "idle")
    /\ \E x \in todo[b] : Start(b, x) /\ todo' = [todo EXCEPT ![b] = @ \ {x}]
    /\ UNCHANGED <<agent, drop, report, screen, decision, cache, override, told, missed, faults>>

\* runDailyReportsForAllCompanies, every hour from nine, and regenerateDailyReport.
ReportTick(p) ==
    /\ agent = "daily_report"
    /\ p \in Ticks \cup Regens
    /\ At(p, "idle")
    /\ Start(p, Null)
    /\ UNCHANGED <<agent, inner>>

\* runAgentForDrop skips a drop that is not open; runDailyReportForCompany a
\* report that is stored, unless it is to be written again.
Lookup(p) ==
    /\ At(p, "lookup")
    /\ LET skipped == IF agent = "emergency" THEN drop[run[p].drop] # "OPEN"
                      ELSE p \in Ticks /\ report.stored
       IN  IF skipped THEN Finish(p) ELSE Goto(p, "prompt")
    /\ UNCHANGED <<agent, inner>>

-----------------------------------------------------------------------------
(* The prompt *)

\* getEvolvedSystemPrompt
Prompt(p) ==
    /\ At(p, "prompt")
    /\ Goto(p, IF cache[ServerOf[p]].held THEN "call" ELSE "fetch")
    /\ UNCHANGED <<agent, inner>>

Fetch(p) ==
    /\ At(p, "fetch")
    /\ run' = [run EXCEPT ![p].pc = "store", ![p].seen = Overridden]
    /\ UNCHANGED <<agent, inner>>

\* The query fails: the prompt without overrides is cached like any other.
FetchFails(p) ==
    /\ At(p, "fetch")
    /\ Fault
    /\ Goto(p, "store")
    /\ missed' = [missed EXCEPT ![ServerOf[p]] = @ \cup Overridden]
    /\ UNCHANGED <<agent, drop, report, screen, decision, cache, todo, override, told>>

Store(p) ==
    /\ At(p, "store")
    /\ cache' = [cache EXCEPT ![ServerOf[p]] = [held |-> TRUE, known |-> run[p].seen]]
    /\ run' = [run EXCEPT ![p].pc = "call", ![p].seen = {}]
    /\ UNCHANGED <<agent, drop, report, screen, decision, todo, override, told, missed, faults>>

\* Mutant: an entry is used however old it is.
ExpireNever(s) ==
    /\ cache[s].held
    /\ UNCHANGED vars

\* CACHE_TTL_MS after it was stored.
Expire(s) ==
    /\ cache[s].held
    /\ cache' = [cache EXCEPT ![s] = NoPrompt]
    /\ UNCHANGED <<agent, drop, report, screen, decision, run, todo, override, told, missed, faults>>

-----------------------------------------------------------------------------
(* The loop *)

\* The model answers: with text, which ends the loop, or with tools to call.
Answer(p) ==
    /\ At(p, "call")
    /\ \E pc \in {"log", "tool"} : run' = [run EXCEPT ![p].pc = pc, ![p].attempt = 0]
    /\ UNCHANGED <<agent, inner>>

\* callWithRetry: an error that may pass is retried, any other ends the run.
CallFails(p) ==
    /\ At(p, "call")
    /\ \/ run[p].attempt < MaxRetries /\ run' = [run EXCEPT ![p].attempt = @ + 1]
       \/ run' = [run EXCEPT ![p].pc = "log", ![p].attempt = 0]
    /\ UNCHANGED <<agent, inner>>

\* Mutant: no limit on the iterations.
NextIterationEndless(p) == Goto(p, "call")

\* The next round of the loop, or its end.
NextIteration(p) ==
    IF run[p].iteration + 1 < MaxIterations
      THEN run' = [run EXCEPT ![p].pc = "call", ![p].iteration = @ + 1]
      ELSE Goto(p, "log")

\* The tools of an answer only read, wait or push, or they throw, which the
\* model is told.
Tools(p) ==
    /\ At(p, "tool")
    /\ NextIteration(p)
    /\ UNCHANGED <<agent, inner>>

\* record_acceptance is among them.
ToolRecords(p) ==
    /\ At(p, "tool")
    /\ agent = "emergency"
    /\ drop[run[p].drop] = "OPEN"
    /\ drop' = [drop EXCEPT ![run[p].drop] = "SETTLED"]
    /\ NextIteration(p)
    /\ UNCHANGED <<agent, report, screen, decision, cache, todo, override, told, missed, faults>>

\* save_daily_report is among them: the row is written or overwritten, unread.
ToolSaves(p) ==
    /\ At(p, "tool")
    /\ agent = "daily_report"
    /\ report' = [stored |-> TRUE, isRead |-> FALSE]
    /\ screen' = [screen EXCEPT !.shows = IF @ = "current" THEN "replaced" ELSE @]
    /\ NextIteration(p)
    /\ UNCHANGED <<agent, drop, decision, cache, todo, override, told, missed, faults>>

\* logDecision: a row that this instance tells apart, or one beyond the bound.
Log(p) ==
    /\ At(p, "log")
    /\ \E D \in {{d} : d \in {e \in Decisions : decision[e] = "NONE"}} \cup {{}} :
           decision' = [d \in Decisions |-> IF d \in D THEN "LOGGED" ELSE decision[d]]
    /\ Finish(p)
    /\ UNCHANGED <<agent, drop, report, screen, cache, todo, override, told, missed, faults>>

\* The look-up throws: the run is over, and the loop around it goes on.
Throws(p) ==
    /\ At(p, "lookup")
    /\ Fault
    /\ Finish(p)
    /\ UNCHANGED <<agent, drop, report, screen, decision, cache, todo, override, told, missed>>

-----------------------------------------------------------------------------
(* The office *)

\* overrideAgentDecision, for a decision that is not overridden.
OverrideOpen(s, d) ==
    /\ override.pc = "idle"
    /\ decision[d] = "LOGGED"
    /\ override' = [pc |-> "record", server |-> s, decision |-> d]
    /\ UNCHANGED <<agent, drop, report, screen, decision, cache, run, todo, told, missed, faults>>

\* recordOverride.  A server that is reading the overrides meanwhile may miss it.
OverrideRecord ==
    /\ override.pc = "record"
    /\ decision' = [decision EXCEPT ![override.decision] = "OVERRIDDEN"]
    /\ override' = [override EXCEPT !.pc = "invalidate"]
    /\ missed' = [s \in Servers |-> IF \E p \in Procs : ServerOf[p] = s /\ At(p, "store")
                                      THEN missed[s] \cup {override.decision} ELSE missed[s]]
    /\ UNCHANGED <<agent, drop, report, screen, cache, run, todo, told, faults>>

\* recordOverride swallows the error of the update: the request goes on.
OverrideLost ==
    /\ override.pc = "record"
    /\ Fault
    /\ override' = [override EXCEPT !.pc = "invalidate"]
    /\ UNCHANGED <<agent, drop, report, screen, decision, cache, run, todo, told, missed>>

\* Mutant: the cache of the server is kept.
OverrideAnswerOnly ==
    /\ override.pc = "invalidate"
    /\ told' = [told EXCEPT ![override.server] = @ \cup ({override.decision} \cap Overridden)]
    /\ override' = NoOverride
    /\ UNCHANGED <<agent, drop, report, screen, decision, cache, run, todo, missed, faults>>

\* invalidatePromptCache, and the answer.
OverrideAnswer ==
    /\ override.pc = "invalidate"
    /\ cache' = [cache EXCEPT ![override.server] = NoPrompt]
    /\ told' = [told EXCEPT ![override.server] = @ \cup ({override.decision} \cap Overridden)]
    /\ override' = NoOverride
    /\ UNCHANGED <<agent, drop, report, screen, decision, run, todo, missed, faults>>

\* The office opens the report.
ViewReport ==
    /\ report.stored
    /\ ~screen.marking
    /\ screen' = [screen EXCEPT !.shows = "current"]
    /\ UNCHANGED <<agent, drop, report, decision, cache, run, todo, override, told, missed, faults>>

\* markDailyReportRead looks whether it is read, then marks the row.
MarkOpen ==
    /\ screen.shows # "nothing" /\ ~screen.marking
    /\ ~report.isRead
    /\ screen' = [screen EXCEPT !.marking = TRUE]
    /\ UNCHANGED <<agent, drop, report, decision, cache, run, todo, override, told, missed, faults>>

MarkRead ==
    /\ screen.marking
    /\ report' = [report EXCEPT !.isRead = TRUE]
    /\ screen' = [screen EXCEPT !.marking = FALSE]
    /\ UNCHANGED <<agent, drop, decision, cache, run, todo, override, told, missed, faults>>

-----------------------------------------------------------------------------
\* A server stops: what it was doing is lost, and its memory.
Crash(s) ==
    /\ Fault
    /\ run' = [p \in Procs |-> IF ServerOf[p] = s THEN NoRun ELSE run[p]]
    /\ todo' = [b \in Batches |-> IF ServerOf[b] = s THEN {} ELSE todo[b]]
    /\ cache' = [cache EXCEPT ![s] = NoPrompt]
    /\ override' = IF override.server = s THEN NoOverride ELSE override
    /\ UNCHANGED <<agent, drop, report, screen, decision, told, missed>>

\* The next statement of a run; a call returns sooner or later, and well or badly.
Continue(p) ==
    \/ Lookup(p) \/ Prompt(p) \/ Fetch(p) \/ Store(p)
    \/ Answer(p) \/ CallFails(p)
    \/ Tools(p) \/ ToolRecords(p) \/ ToolSaves(p)
    \/ Log(p)

Next ==
    \/ \E x \in Drops : Dispatch(x) \/ SettleDrop(x)
    \/ \E b \in Batches : BatchTick(b) \/ BatchNext(b)
    \/ \E p \in Procs : ReportTick(p) \/ Continue(p) \/ FetchFails(p) \/ Throws(p)
    \/ \E s \in Servers : Expire(s) \/ Crash(s)
    \/ \E s \in Servers, d \in Decisions : OverrideOpen(s, d)
    \/ OverrideRecord \/ OverrideLost \/ OverrideAnswer
    \/ ViewReport \/ MarkOpen \/ MarkRead

SafetySpec == Init /\ [][Next]_vars

\* Timers fire, calls return, and a cached prompt grows old.
Fairness ==
    /\ \A p \in Procs : WF_vars(Continue(p))
    /\ \A b \in Batches : WF_vars(BatchTick(b)) /\ WF_vars(BatchNext(b))
    /\ \A p \in Ticks : WF_vars(ReportTick(p))
    /\ \A s \in Servers : WF_vars(Expire(s))

Spec == SafetySpec /\ Fairness

-----------------------------------------------------------------------------
TypeOK ==
    /\ agent \in {"emergency", "daily_report"}
    /\ drop \in [Drops -> {"NONE", "OPEN", "SETTLED"}]
    /\ report \in [stored : BOOLEAN, isRead : BOOLEAN]
    /\ screen \in [shows : {"nothing", "current", "replaced"}, marking : BOOLEAN]
    /\ decision \in [Decisions -> {"NONE", "LOGGED", "OVERRIDDEN"}]
    /\ cache \in [Servers -> [held : BOOLEAN, known : SUBSET Decisions]]
    /\ run \in [Procs -> [pc : {"idle", "lookup", "prompt", "fetch", "store", "call", "tool", "log"},
                          drop : Drops \cup {Null}, seen : SUBSET Decisions,
                          iteration : 0..(MaxIterations - 1), attempt : 0..MaxRetries]]
    /\ todo \in [Batches -> SUBSET Drops]
    /\ override \in [pc : {"idle", "record", "invalidate"}, server : Servers \cup {Null},
                     decision : Decisions \cup {Null}]
    /\ told \in [Servers -> SUBSET Decisions]
    /\ missed \in [Servers -> SUBSET Decisions]
    /\ faults \in 0..MaxFaults

\* A server that has answered an override does not run the agent on a prompt
\* without it, unless it was reading the overrides when that one was recorded,
\* or the reading failed (getEvolvedSystemPrompt, overrideAgentDecision).
KnowsOverrides ==
    \A s \in Servers : cache[s].held =>
        told[s] \cap Overridden \subseteq cache[s].known \cup missed[s]

\* Sooner or later every prompt that a server holds has every override, and it
\* stays so, whichever server was told and whatever it was reading (CACHE_TTL_MS).
OverridesLearned ==
    \A s \in Servers :
        <>[](cache[s].held => Overridden \subseteq cache[s].known)

Tended(x) == drop[x] # "OPEN" \/ \E p \in Procs : run[p].drop = x

\* An open drop and a report that is missing are taken up again and again,
\* whatever became of the runs before them, and no run goes on for ever
\* (dispatchImmediateEmergency: the next tick tries again; maxIterations).
EverythingTried ==
    /\ agent = "emergency" => \A x \in Drops : []<>Tended(x)
    /\ agent = "daily_report" /\ Ticks # {} => []<>(report.stored \/ \E p \in Ticks : ~At(p, "idle"))
    /\ \A p \in Procs : []<>At(p, "idle")

-----------------------------------------------------------------------------
(* What the code promises and does not do *)

\* agentDecisionController.ts:169: the next run learns a new override at once.
LearnedAtOnce ==
    \A s \in Servers : cache[s].held =>
        UNION {told[t] : t \in Servers} \cap Overridden \subseteq cache[s].known

\* decision-logger.ts:64: an override has to be stored for good; the error of the
\* update is swallowed and the office is answered success.
OverrideStored == override.pc = "invalidate" => decision[override.decision] = "OVERRIDDEN"

\* index.ts:85: only companies without a report are worked on; the tick does not
\* replace one that the office has in the meantime.
TickSparesReport ==
    [][report.stored => \A p \in Ticks : ~(At(p, "tool") /\ ToolSaves(p))]_vars

\* report-tools.ts:639: a report that is written again is unread, until somebody
\* has read it.
ReadIsOfThisReport == report.isRead => screen.shows = "current"

=============================================================================
