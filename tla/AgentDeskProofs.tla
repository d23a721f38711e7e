---------------------------- MODULE AgentDeskProofs ----------------------------
(***************************************************************************)
(* KnowsOverrides of AgentDesk for any number of servers, runs and         *)
(* decisions.  What makes it inductive: a server has answered stored       *)
(* overrides only, and what a run is about to put into the cache has every *)
(* stored override that did not come after the run had read them.          *)
(***************************************************************************)
EXTENDS AgentDesk, TLAPS

RunType == [pc : {"idle", "lookup", "prompt", "fetch", "store", "call", "tool", "log"},
            drop : Drops \cup {Null}, seen : SUBSET Decisions,
            iteration : Nat, attempt : Nat]

PromptType == [held : BOOLEAN, known : SUBSET Decisions]

OverrideType == [pc : {"idle", "record", "invalidate"}, server : Servers \cup {Null},
                 decision : Decisions \cup {Null}]

Types ==
    /\ decision \in [Decisions -> {"NONE", "LOGGED", "OVERRIDDEN"}]
    /\ cache \in [Servers -> PromptType]
    /\ run \in [Procs -> RunType]
    /\ todo \in [Batches -> SUBSET Drops]
    /\ told \in [Servers -> SUBSET Decisions]
    /\ missed \in [Servers -> SUBSET Decisions]
    /\ override \in OverrideType
    /\ override.pc # "idle" => override.decision \in Decisions

\* Only what is stored has been answered.
ToldStored == \A s \in Servers : told[s] \subseteq Overridden

\* A run that is about to cache a prompt has read every override but those its
\* server missed.
ReadAll ==
    \A p \in Procs : At(p, "store") => Overridden \subseteq run[p].seen \cup missed[ServerOf[p]]

CacheTold ==
    \A s \in Servers : cache[s].held => told[s] \subseteq cache[s].known \cup missed[s]

IInv == Types /\ ToldStored /\ ReadAll /\ CacheTold

-----------------------------------------------------------------------------
\* The strengthening gives the property.
LEMMA IInvImpliesKnown == IInv => KnowsOverrides
BY DEF IInv, CacheTold, KnowsOverrides

LEMMA InitIInv == Init => IInv
<1> SUFFICES ASSUME Init PROVE IInv
    OBVIOUS
<1> USE DEF Init, NoPrompt, NoRun, NoOverride
<1>1. Types
    BY DEF Types, RunType, PromptType, OverrideType
<1>2. ToldStored /\ ReadAll /\ CacheTold
    BY DEF ToldStored, ReadAll, CacheTold, At
<1> QED
    BY <1>1, <1>2 DEF IInv

\* What a run does before it caches a prompt, or after, leaves the rest alone.
LEMMA RunGoesOn ==
    ASSUME IInv, NEW p \in Procs, UNCHANGED <<decision, cache, told, missed, override>>,
           run' \in [Procs -> RunType], todo' \in [Batches -> SUBSET Drops],
           \A q \in Procs : run'[q].pc = "store" =>
               \/ run[q].pc = "store" /\ run'[q].seen = run[q].seen
               \/ Overridden \subseteq run'[q].seen
    PROVE  IInv'
<1>1. Types'
    BY DEF IInv, Types
<1>2. ToldStored'
    BY DEF IInv, ToldStored, Overridden
<1>3. ReadAll'
    BY DEF IInv, ReadAll, At, Overridden
<1>4. CacheTold'
    BY DEF IInv, CacheTold
<1> QED
    BY <1>1, <1>2, <1>3, <1>4 DEF IInv

\* Starts, goes on, ends: every step of a run but the reading and the storing.
LEMMA RunSteps ==
    ASSUME IInv, NEW p \in Procs,
           \/ ReportTick(p) \/ Lookup(p) \/ Prompt(p) \/ Fetch(p) \/ Answer(p) \/ CallFails(p)
           \/ Tools(p) \/ ToolRecords(p) \/ ToolSaves(p) \/ Throws(p)
    PROVE  IInv'
<1> USE DEF Start, Goto, Finish, NoRun, At
<1>1. run \in [Procs -> RunType] /\ todo \in [Batches -> SUBSET Drops]
    BY DEF IInv, Types
<1>2. UNCHANGED <<decision, cache, told, missed, override>> /\ UNCHANGED todo
    BY DEF ReportTick, Lookup, Prompt, Fetch, Answer, CallFails, Tools, ToolRecords, ToolSaves,
           Throws, Fault, inner
<1>3. /\ run' \in [Procs -> RunType]
      /\ \A q \in Procs : run'[q].pc = "store" =>
             \/ run[q].pc = "store" /\ run'[q].seen = run[q].seen
             \/ Overridden \subseteq run'[q].seen
    <2>1. CASE ReportTick(p)
        BY <1>1, <2>1 DEF ReportTick, RunType
    <2>2. CASE Lookup(p)
        BY <1>1, <2>2 DEF Lookup, RunType
    <2>3. CASE Prompt(p)
        BY <1>1, <2>3 DEF Prompt, RunType
    <2>4. CASE Fetch(p)
        BY <1>1, <2>4 DEF Fetch, RunType, Overridden
    <2>5. CASE Answer(p)
        BY <1>1, <2>5 DEF Answer, RunType
    <2>6. CASE CallFails(p)
        BY <1>1, <2>6 DEF CallFails, RunType
    <2>7. CASE NextIteration(p)
        BY <1>1, <2>7 DEF NextIteration, RunType
    <2>8. CASE Tools(p) \/ ToolRecords(p) \/ ToolSaves(p)
        BY <2>7, <2>8 DEF Tools, ToolRecords, ToolSaves
    <2>9. CASE Throws(p)
        BY <1>1, <2>9 DEF Throws, RunType
    <2> QED
        BY <2>1, <2>2, <2>3, <2>4, <2>5, <2>6, <2>8, <2>9
<1> QED
    BY <1>1, <1>2, <1>3, RunGoesOn

\* A drop, a settlement and a tick start runs at most.
LEMMA DropSteps ==
    ASSUME IInv,
           \/ \E x \in Drops : Dispatch(x) \/ SettleDrop(x)
           \/ \E b \in Batches : BatchTick(b) \/ BatchNext(b)
    PROVE  IInv'
<1>1. run \in [Procs -> RunType] /\ todo \in [Batches -> SUBSET Drops]
    BY DEF IInv, Types
<1>2. UNCHANGED <<decision, cache, told, missed, override>>
    BY DEF Dispatch, SettleDrop, BatchTick, BatchNext
<1>3. PICK p \in Procs : /\ run' = run \/ \E x \in Drops : Start(p, x)
                         /\ todo' \in [Batches -> SUBSET Drops]
    <2>1. CASE \E x \in Drops : Dispatch(x) \/ SettleDrop(x)
        BY <1>1, <2>1 DEF Dispatch, SettleDrop, Procs
    <2>2. CASE \E b \in Batches : BatchTick(b) \/ BatchNext(b)
        <3>1. PICK b \in Batches : BatchTick(b) \/ BatchNext(b)
            BY <2>2
        <3>2. b \in Procs
            BY DEF Procs
        <3>3. CASE BatchTick(b)
            BY <1>1, <3>2, <3>3 DEF BatchTick
        <3>4. CASE BatchNext(b)
            <4>1. PICK x \in todo[b] : Start(b, x) /\ todo' = [todo EXCEPT ![b] = @ \ {x}]
                BY <3>4 DEF BatchNext
            <4>2. x \in Drops /\ todo' \in [Batches -> SUBSET Drops]
                BY <1>1, <4>1
            <4> QED
                BY <3>2, <4>1, <4>2
        <3> QED
            BY <3>1, <3>3, <3>4
    <2> QED
        BY <2>1, <2>2
<1> DEFINE New(x) == [NoRun EXCEPT !.pc = "lookup", !.drop = x]
<1>4. \A x \in Drops : New(x) \in RunType /\ New(x).pc = "lookup"
    BY DEF NoRun, RunType
<1>5. run' = run \/ \E x \in Drops : run' = [run EXCEPT ![p] = New(x)]
    BY <1>3 DEF Start
<1> HIDE DEF New
<1>6. run' \in [Procs -> RunType]
    BY <1>1, <1>4, <1>5
<1>7. \A q \in Procs : run'[q].pc = "store" => run[q].pc = "store" /\ run'[q].seen = run[q].seen
    BY <1>1, <1>4, <1>5
<1> QED
    BY <1>2, <1>3, <1>6, <1>7, RunGoesOn

\* A reading that fails is a miss of the server.
LEMMA FetchFailsStep ==
    ASSUME IInv, NEW p \in Procs, FetchFails(p)
    PROVE  IInv'
<1> USE DEF FetchFails, Goto, At, Fault
<1>1. Types'
    BY AgentAssumption DEF IInv, Types, RunType, Overridden
<1>2. missed[ServerOf[p]] \cup Overridden = missed'[ServerOf[p]]
    BY AgentAssumption DEF IInv, Types
<1>3. \A s \in Servers : missed[s] \subseteq missed'[s]
    BY AgentAssumption DEF IInv, Types
<1>4. ToldStored' /\ CacheTold'
    BY <1>3 DEF IInv, ToldStored, CacheTold, Overridden
<1>5. ASSUME NEW q \in Procs, At(q, "store")'
      PROVE  (Overridden \subseteq run[q].seen \cup missed[ServerOf[q]])'
    <2>1. CASE q = p
        BY <1>2, <2>1 DEF Overridden
    <2>2. CASE q # p
        BY <1>3, <1>5, <2>2, AgentAssumption DEF IInv, Types, ReadAll, Overridden
    <2> QED
        BY <2>1, <2>2
<1> QED
    BY <1>1, <1>4, <1>5 DEF IInv, ReadAll

\* What is stored has every override that was answered.
LEMMA StoreStep ==
    ASSUME IInv, NEW p \in Procs, Store(p)
    PROVE  IInv'
<1> USE DEF Store, At
<1>1. Types'
    <2>a. run \in [Procs -> RunType]
        BY DEF IInv, Types
    <2>b. run' = [run EXCEPT ![p].pc = "call", ![p].seen = {}]
        BY DEF Store
    <2>1. run' \in [Procs -> RunType]
        BY <2>a, <2>b DEF RunType
    <2>2. run[p].seen \in SUBSET Decisions
        BY DEF IInv, Types, RunType
    <2>3. cache' \in [Servers -> PromptType]
        BY <2>2, AgentAssumption DEF IInv, Types, PromptType
    <2> QED
        BY <2>1, <2>3 DEF IInv, Types
<1>2. ToldStored'
    BY DEF IInv, ToldStored, Overridden
<1>3. ReadAll'
    BY DEF IInv, Types, ReadAll, Overridden
<1>4. told[ServerOf[p]] \subseteq run[p].seen \cup missed[ServerOf[p]]
    BY AgentAssumption DEF IInv, ToldStored, ReadAll
<1>5. CacheTold'
    BY <1>4, AgentAssumption DEF IInv, Types, CacheTold
<1> QED
    BY <1>1, <1>2, <1>3, <1>5 DEF IInv

\* A decision that is logged is not overridden before or after.
LEMMA LogStep ==
    ASSUME IInv, NEW p \in Procs, Log(p)
    PROVE  IInv'
<1> USE DEF Log, Finish, NoRun, At
<1>1. PICK D \in SUBSET Decisions :
          /\ \A d \in D : decision[d] = "NONE"
          /\ decision' = [d \in Decisions |-> IF d \in D THEN "LOGGED" ELSE decision[d]]
    OBVIOUS
<1>2. Types'
    BY <1>1 DEF IInv, Types, RunType
<1>3. Overridden' = Overridden
    BY <1>1 DEF Overridden
<1>4. ToldStored' /\ CacheTold'
    BY <1>3 DEF IInv, ToldStored, CacheTold
<1>5. ReadAll'
    BY <1>3 DEF IInv, Types, ReadAll
<1> QED
    BY <1>2, <1>4, <1>5 DEF IInv

\* Time, a stop, and the reader of the reports.
LEMMA OtherSteps ==
    ASSUME IInv,
           \/ \E s \in Servers : Expire(s) \/ Crash(s)
           \/ \E s \in Servers, d \in Decisions : OverrideOpen(s, d)
           \/ OverrideLost \/ ViewReport \/ MarkOpen \/ MarkRead \/ UNCHANGED vars
    PROVE  IInv'
<1> USE DEF Expire, Crash, OverrideOpen, OverrideLost, ViewReport, MarkOpen, MarkRead, vars,
            NoPrompt, NoRun, NoOverride, Fault
<1>1. UNCHANGED <<decision, told, missed>>
    OBVIOUS
<1>2. Types'
    <2>a. run \in [Procs -> RunType]
        BY DEF IInv, Types
    <2>b. NoRun \in RunType
        BY DEF RunType
    <2>c. \/ run' = run
          \/ \E s \in Servers : run' = [p \in Procs |-> IF ServerOf[p] = s THEN NoRun ELSE run[p]]
        OBVIOUS
    <2>1. run' \in [Procs -> RunType]
        BY ONLY <2>a, <2>b, <2>c
    <2>d. \/ todo' = todo
          \/ \E s \in Servers : todo' = [b \in Batches |-> IF ServerOf[b] = s THEN {} ELSE todo[b]]
        OBVIOUS
    <2>e. todo \in [Batches -> SUBSET Drops]
        BY DEF IInv, Types
    <2>2. todo' \in [Batches -> SUBSET Drops]
        BY ONLY <2>d, <2>e
    <2>f. cache' = cache \/ \E s \in Servers : cache' = [cache EXCEPT ![s] = NoPrompt]
        OBVIOUS
    <2>g. cache \in [Servers -> PromptType]
        BY DEF IInv, Types
    <2>3. cache' \in [Servers -> PromptType]
        <3>1. NoPrompt \in PromptType
            BY ONLY DEF NoPrompt, PromptType
        <3> HIDE DEF NoPrompt
        <3> QED
            BY ONLY <2>f, <2>g, <3>1
    <2>h. Types
        BY DEF IInv
    <2>i. \/ override' \in {override, NoOverride}
          \/ \E s \in Servers, d \in Decisions :
                 override' = [pc |-> "record", server |-> s, decision |-> d]
          \/ override.pc = "record" /\ override' = [override EXCEPT !.pc = "invalidate"]
        OBVIOUS
    <2>4. override' \in OverrideType /\ (override'.pc # "idle" => override'.decision \in Decisions)
        BY ONLY <2>h, <2>i DEF Types, NoOverride, OverrideType
    <2> QED
        BY ONLY <1>1, <2>h, <2>1, <2>2, <2>3, <2>4 DEF Types
<1>3. \A s \in Servers : cache'[s].held => cache'[s] = cache[s]
    BY DEF IInv, Types
<1>4. \A p \in Procs : run'[p].pc = "store" => run'[p] = run[p]
    BY DEF IInv, Types
<1>5. Overridden' = Overridden
    BY <1>1 DEF Overridden
<1>6. ToldStored' /\ CacheTold'
    BY <1>1, <1>3, <1>5 DEF IInv, ToldStored, CacheTold
<1>7. ReadAll'
    BY <1>1, <1>4, <1>5 DEF IInv, ReadAll, At
<1> QED
    BY <1>2, <1>6, <1>7 DEF IInv

\* A new override is missed by every server that has read and not stored yet.
LEMMA OverrideRecordStep ==
    ASSUME IInv, OverrideRecord
    PROVE  IInv'
<1> USE DEF OverrideRecord, At
<1>1. Types'
    BY DEF IInv, Types, OverrideType
<1>2. Overridden \subseteq Overridden' /\ Overridden' \subseteq Overridden \cup {override.decision}
    BY DEF IInv, Types, Overridden
<1>3. \A s \in Servers : missed[s] \subseteq missed'[s]
    BY DEF IInv, Types
<1>4. ToldStored' /\ CacheTold'
    BY <1>2, <1>3 DEF IInv, ToldStored, CacheTold
<1>5. \A p \in Procs : run[p].pc = "store" => override.decision \in missed'[ServerOf[p]]
    BY AgentAssumption
<1>6. ReadAll'
    BY <1>2, <1>3, <1>5, AgentAssumption DEF IInv, ReadAll
<1> QED
    BY <1>1, <1>4, <1>6 DEF IInv

\* The server that answers forgets its prompt.
LEMMA OverrideAnswerStep ==
    ASSUME IInv, OverrideAnswer
    PROVE  IInv'
<1> USE DEF OverrideAnswer, NoPrompt, NoOverride
<1>1. Types'
    BY DEF IInv, Types, PromptType, OverrideType, Overridden
<1>2. Overridden' = Overridden
    BY DEF Overridden
<1>3. ToldStored'
    BY <1>2 DEF IInv, Types, ToldStored
<1>4. ReadAll'
    BY <1>2 DEF IInv, ReadAll, At
<1>5. CacheTold'
    BY DEF IInv, Types, CacheTold
<1> QED
    BY <1>1, <1>3, <1>4, <1>5 DEF IInv

-----------------------------------------------------------------------------
\* Every step keeps the invariant.
LEMMA StepIInv == IInv /\ [Next]_vars => IInv'
<1> SUFFICES ASSUME IInv, [Next]_vars PROVE IInv'
    OBVIOUS
<1>1. CASE \E x \in Drops : Dispatch(x) \/ SettleDrop(x)
    BY <1>1, DropSteps
<1>2. CASE \E b \in Batches : BatchTick(b) \/ BatchNext(b)
    BY <1>2, DropSteps
<1>3. ASSUME NEW p \in Procs, ReportTick(p) \/ Continue(p) \/ FetchFails(p) \/ Throws(p)
      PROVE  IInv'
    BY <1>3, RunSteps, StoreStep, LogStep, FetchFailsStep DEF Continue
<1>4. CASE OverrideRecord
    BY <1>4, OverrideRecordStep
<1>5. CASE OverrideAnswer
    BY <1>5, OverrideAnswerStep
<1>6. CASE \/ \E s \in Servers : Expire(s) \/ Crash(s)
           \/ \E s \in Servers, d \in Decisions : OverrideOpen(s, d)
           \/ OverrideLost \/ ViewReport \/ MarkOpen \/ MarkRead \/ UNCHANGED vars
    BY <1>6, OtherSteps
<1> QED
    BY <1>1, <1>2, <1>3, <1>4, <1>5, <1>6 DEF Next

\* A server that has answered an override puts it into every prompt it caches from
\* then on, but for the misses: for any number of servers, runs and decisions.
THEOREM OverridesAreKnown == SafetySpec => []KnowsOverrides
<1>1. Init => IInv
    BY InitIInv
<1>2. IInv /\ [Next]_vars => IInv'
    BY StepIInv
<1>3. IInv => KnowsOverrides
    BY IInvImpliesKnown
<1> QED
    BY <1>1, <1>2, <1>3, PTL DEF SafetySpec

================================================================================
