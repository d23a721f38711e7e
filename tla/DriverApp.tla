------------------------------- MODULE DriverApp -------------------------------
(***************************************************************************)
(* The offline queue of the driver app.  A write that meets a network      *)
(* error is stored and answered with "queued"; when NetInfo reports a      *)
(* change to a state that is connected, processQueue posts what is stored, *)
(* one after the other.  Nothing else starts it: what is stored or kept    *)
(* while the connection lasts waits for the next report.                   *)
(* The stored queue is read and written back whole, with an await between, *)
(* by every enqueueing and every run of processQueue; isProcessing is      *)
(* looked at before an await and set after it.                             *)
(*                                                                         *)
(* A post is carried out by the server or not, and its answer arrives or   *)
(* not.  The server is not modelled further: what a duplicate does there   *)
(* depends on the handler.                                                 *)
(***************************************************************************)
EXTENDS Naturals, Sequences, FiniteSets, SequencesExt

CONSTANTS
    Writes,      \* write requests the drivers make
    Runs,        \* runs of processQueue that may be in progress
    MaxRetry,    \* MAX_RETRY
    MaxEvents    \* bound on losses of the network, kills, sign-ins and sign-outs

ASSUME AppAssumption ==
    /\ MaxRetry \in Nat \ {0}
    /\ MaxEvents \in Nat

VARIABLES
    online,        \* NetInfo's isConnected
    signedIn,      \* the phone holds a token
    queue,         \* the stored queue: entries [w, tries]
    isProcessing,
    write,         \* write -> its request: pc and the queue it has read
    run,           \* run -> pc, what is left of its snapshot, what it keeps
    accepted,      \* writes in the order the app promised to process them (history)
    posted,        \* write -> how often it was posted from the queue (history)
    applied,       \* write -> how often the server carried it out (history)
    excused,       \* writes with a lost answer, a kill or an overlap behind them (history)
    events

vars == <<online, signedIn, queue, isProcessing, write, run, accepted, posted, applied, excused, events>>

-----------------------------------------------------------------------------
NewWrite == [pc |-> "new", read |-> <<>>]

NoRun == [pc |-> "idle", batch |-> <<>>, kept |-> <<>>]

\* The histories count no further than the properties ask.
Once(f, w) == [f EXCEPT ![w] = IF @ < 2 THEN @ + 1 ELSE @]

CountPost(w) == posted' = [posted EXCEPT ![w] = IF @ > MaxRetry THEN @ ELSE @ + 1]

\* The writes of a queue.
In(q) == {q[i].w : i \in DOMAIN q}

\* Runs between their reading of the queue and their saving of it.
Running == {p \in Runs : run[p].pc \in {"post", "save"}}

Enqueueing == {w \in Writes : write[w].pc = "store"}

Init ==
    /\ online = TRUE
    /\ signedIn = TRUE
    /\ queue = <<>>
    /\ isProcessing = FALSE
    /\ write = [w \in Writes |-> NewWrite]
    /\ run = [p \in Runs |-> NoRun]
    /\ accepted = <<>>
    /\ posted = [w \in Writes |-> 0]
    /\ applied = [w \in Writes |-> 0]
    /\ excused = {}
    /\ events = 0

-----------------------------------------------------------------------------
(* A write of the driver: the axios instance and its interceptor *)

Phone == <<online, signedIn>>

Histories == <<accepted, posted, applied, excused>>

Send(w) ==
    /\ write[w].pc = "new" /\ signedIn
    /\ write' = [write EXCEPT ![w].pc = "sent"]
    /\ UNCHANGED <<Phone, queue, isProcessing, run, Histories>>

\* A response, good or bad: the screen has it, nothing is stored.
Answered(w) ==
    /\ write[w].pc = "sent" /\ online
    /\ write' = [write EXCEPT ![w].pc = "settled"]
    /\ applied' \in {applied, Once(applied, w)}
    /\ UNCHANGED <<Phone, queue, isProcessing, run, accepted, posted, excused>>

\* A network error: the request never got there, or its answer did not get back.
\* enqueueRequest reads the stored queue.
NetworkError(w) ==
    /\ write[w].pc = "sent"
    /\ write' = [write EXCEPT ![w].pc = "store", ![w].read = queue]
    /\ \/ UNCHANGED <<applied, excused>>
       \/ online /\ applied' = Once(applied, w) /\ excused' = excused \cup {w}
    /\ UNCHANGED <<Phone, queue, isProcessing, run, accepted, posted>>

\* Mutant: the newest goes first.
EnqueueInFront(w) ==
    /\ write[w].pc = "store"
    /\ queue' = <<[w |-> w, tries |-> 0]>> \o write[w].read
    /\ write' = [write EXCEPT ![w].pc = "settled", ![w].read = <<>>]
    /\ accepted' = Append(accepted, w)
    /\ UNCHANGED <<Phone, isProcessing, run, posted, applied, excused>>

\* saveQueue with the new entry behind what was read, then the answer "queued".
\* Whoever else had read the queue by now overlaps with this write.
Enqueue(w) ==
    LET q == Append(write[w].read, [w |-> w, tries |-> 0])
        beside == Running # {} \/ Enqueueing # {w} \/ queue # write[w].read
    IN  /\ write[w].pc = "store"
        /\ queue' = q
        /\ write' = [write EXCEPT ![w].pc = "settled", ![w].read = <<>>]
        /\ accepted' = Append(accepted, w)
        /\ excused' = IF beside THEN excused \cup In(q) \cup In(queue) \cup Enqueueing ELSE excused
        /\ UNCHANGED <<Phone, isProcessing, run, posted, applied>>

-----------------------------------------------------------------------------
(* processQueue *)

\* The listener is called with a state that is connected: one run at a time, if the flag
\* is up in time.
Heard(p) ==
    IF isProcessing THEN run' = run
    ELSE run[p].pc = "idle" /\ run' = [run EXCEPT ![p].pc = "fetch"]

\* A report that keeps isConnected: the app has started, another network has taken over.
Notice(p) ==
    /\ online
    /\ Heard(p)
    /\ UNCHANGED <<Phone, queue, isProcessing, write, Histories>>

\* After NetInfo.fetch the flag is set without another look.
Fetch(p) ==
    /\ run[p].pc = "fetch"
    /\ isProcessing' = (isProcessing \/ online)
    /\ run' = [run EXCEPT ![p].pc = IF online THEN "read" ELSE "idle"]
    /\ UNCHANGED <<Phone, queue, write, Histories>>

\* The snapshot.  Runs that cross excuse what they both carry.
Read(p) ==
    /\ run[p].pc = "read"
    /\ IF queue = <<>>
         THEN run' = [run EXCEPT ![p] = NoRun] /\ isProcessing' = FALSE
         ELSE run' = [run EXCEPT ![p] = [pc |-> "post", batch |-> queue, kept |-> <<>>]]
              /\ UNCHANGED isProcessing
    /\ excused' = IF Running = {} THEN excused ELSE excused \cup In(queue)
    /\ UNCHANGED <<Phone, queue, write, accepted, posted, applied>>

\* Mutants: the tries are not counted; a failed entry is dropped.
GiveUpNever(p, e) == Append(run[p].kept, e)

GiveUpAtOnce(p, e) == run[p].kept

\* A failed entry is kept for the next run until it has had its tries.
GiveUp(p, e) ==
    IF e.tries + 1 < MaxRetry
      THEN Append(run[p].kept, [e EXCEPT !.tries = @ + 1]) ELSE run[p].kept

After(p, kept) ==
    run' = [run EXCEPT ![p] = [pc |-> IF Len(@.batch) = 1 THEN "save" ELSE "post",
                               batch |-> Tail(@.batch), kept |-> kept]]

\* Mutant: an entry that went through stays.
PostKeptAnyway(p) ==
    LET e == Head(run[p].batch)
    IN  /\ run[p].pc = "post" /\ online /\ signedIn
        /\ applied' = Once(applied, e.w)
        /\ CountPost(e.w)
        /\ After(p, GiveUp(p, e))
        /\ UNCHANGED <<Phone, queue, isProcessing, write, accepted, excused>>

\* Posted with the token of whoever is signed in now, and done.
PostDone(p) ==
    LET e == Head(run[p].batch)
    IN  /\ run[p].pc = "post" /\ online /\ signedIn
        /\ applied' = Once(applied, e.w)
        /\ CountPost(e.w)
        /\ After(p, run[p].kept)
        /\ UNCHANGED <<Phone, queue, isProcessing, write, accepted, excused>>

\* Refused by the server, or no network, or the answer was lost.
PostFailed(p) ==
    LET e == Head(run[p].batch)
    IN  /\ run[p].pc = "post"
        /\ \/ UNCHANGED <<applied, excused>>
           \/ /\ online /\ signedIn
              /\ applied' = Once(applied, e.w)
              /\ excused' = excused \cup {e.w}
        /\ CountPost(e.w)
        /\ After(p, GiveUp(p, e))
        /\ UNCHANGED <<Phone, queue, isProcessing, write, accepted>>

\* What is left replaces the stored queue, whatever that is by now.
SaveRemaining(p) ==
    LET beside == Running # {p} \/ Enqueueing # {}
    IN  /\ run[p].pc = "save"
        /\ queue' = run[p].kept
        /\ run' = [run EXCEPT ![p] = NoRun]
        /\ isProcessing' = FALSE
        /\ excused' = IF beside THEN excused \cup In(queue) \cup In(run[p].kept) \cup Enqueueing
                      ELSE excused
        /\ UNCHANGED <<Phone, write, accepted, posted, applied>>

-----------------------------------------------------------------------------
(* The phone *)

Disconnect ==
    /\ online
    /\ online' = FALSE
    /\ UNCHANGED <<signedIn, queue, isProcessing, write, run, Histories>>

\* The connection comes back, which is a change to report.
Connect(p) ==
    /\ ~online
    /\ online' = TRUE
    /\ Heard(p)
    /\ UNCHANGED <<signedIn, queue, isProcessing, write, Histories>>

\* setAuth and logout: the stored queue stays.
SwitchUser ==
    /\ signedIn' = ~signedIn
    /\ UNCHANGED <<online, queue, isProcessing, write, run, Histories>>

\* The app is killed: the stored queue and the token survive, nothing else.
Kill ==
    /\ isProcessing' = FALSE
    /\ run' = [p \in Runs |-> NoRun]
    /\ write' = [w \in Writes |-> IF write[w].pc \in {"sent", "store"}
                                    THEN [write[w] EXCEPT !.pc = "settled", !.read = <<>>] ELSE write[w]]
    /\ excused' = IF Running = {} THEN excused ELSE excused \cup In(queue)
    /\ UNCHANGED <<Phone, queue, accepted, posted, applied>>

-----------------------------------------------------------------------------
Step(p) == Fetch(p) \/ Read(p) \/ PostDone(p) \/ PostFailed(p) \/ SaveRemaining(p)

Use == \E w \in Writes : Send(w) \/ Answered(w) \/ NetworkError(w) \/ Enqueue(w)

Outside == Disconnect \/ Kill \/ SwitchUser

Next ==
    \/ Use /\ UNCHANGED events
    \/ (\E p \in Runs : Connect(p) \/ Notice(p) \/ Step(p)) /\ UNCHANGED events
    \/ events < MaxEvents /\ Outside /\ events' = events + 1

\* An await comes back.  Nothing is assumed of the network and its reports.
Fairness == \A p \in Runs : WF_vars(Step(p) /\ UNCHANGED events)

Spec == Init /\ [][Next]_vars /\ Fairness

-----------------------------------------------------------------------------
(* Properties *)

Entry == [w : Writes, tries : 0 .. MaxRetry - 1]

\* Entries carry a count below MAX_RETRY; requests and runs are at a line of the code.
TypeOK ==
    /\ online \in BOOLEAN /\ signedIn \in BOOLEAN /\ isProcessing \in BOOLEAN
    /\ queue \in Seq(Entry)
    /\ write \in [Writes -> [pc : {"new", "sent", "store", "settled"}, read : Seq(Entry)]]
    /\ run \in [Runs -> [pc : {"idle", "fetch", "read", "post", "save"}, batch : Seq(Entry),
                         kept : Seq(Entry)]]
    /\ accepted \in Seq(Writes)
    /\ posted \in [Writes -> 0 .. MaxRetry + 1] /\ applied \in [Writes -> 0 .. 2]
    /\ excused \subseteq Writes
    /\ events \in 0 .. MaxEvents

\* The fate of w is open: it is stored, or a run has it in hand.
Pending(w) == w \in In(queue) \/ \E p \in Runs : w \in In(run[p].batch) \cup In(run[p].kept)

\* A write the app has answered with "queued" is not forgotten: it is stored or in a
\* run's hands until the server has carried it out or it has had all its tries, unless
\* two of the app's own readings and savings of the queue overlapped.
AcceptedIsKept ==
    \A w \in ToSet(accepted) \ excused : Pending(w) \/ applied[w] > 0 \/ posted[w] >= MaxRetry

\* The server carries out a stored write at most once, unless an answer was lost, the
\* app was killed in the middle of a run or two runs crossed.
AppliedOnce == \A w \in Writes \ excused : applied[w] <= 1

\* Stored writes are first posted in the order in which the driver was told they would be.
PostedInOrder ==
    \A i, j \in DOMAIN accepted :
        i < j /\ {accepted[i], accepted[j]} \cap excused = {} /\ posted[accepted[j]] > 0
        => posted[accepted[i]] > 0

\* Where connections are reported again and again, a stored write leaves the queue: it
\* is carried out or given up, whatever fails, crosses or is written back meanwhile.
QueueDrains ==
    []<><<\E p \in Runs : Notice(p)>>_vars => \A w \in Writes : w \in In(queue) ~> w \notin In(queue)

-----------------------------------------------------------------------------
(* What the app tells the driver and does not keep *)

\* "요청이 저장되었습니다. 인터넷 연결 시 자동으로 처리됩니다.": a stored write is
\* processed, or still stored, or has at least been tried MAX_RETRY times.
StoredIsProcessed ==
    \A w \in ToSet(accepted) : Pending(w) \/ applied[w] > 0 \/ posted[w] >= MaxRetry

\* The same sentence of a phone that is connected: what is stored by then is processed
\* automatically.
ProcessedWhenConnected ==
    \A w \in Writes : [](w \in In(queue) => <>(w \notin In(queue) \/ ~online))

=============================================================================
